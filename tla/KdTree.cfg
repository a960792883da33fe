SPECIFICATION Spec
CONSTANTS
  Clouds <- MCClouds
  Dim = 2
  MinParallel = 3
  Queries <- MCQueries
  Radii = {1, 2}
  K = 2
INVARIANTS
  TypeOK
  TasksApart
  TreeComplete
  RadiusExact
  NearestExact
  KSearchSound
PROPERTY
  NoNodeTwice
