SPECIFICATION Spec
CONSTANTS
  movies = movies
  music = music
  p1 = p1
  p2 = p2
  p3 = p3
  Names = {movies, music}
  Paths = {p1, p2, p3}
  Declared <- MCDeclared
  Extras = {0, 1}
  MaxEdits = 0
  MaxFaults = 1
INVARIANT Covered
