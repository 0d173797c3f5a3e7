SPECIFICATION LateMishaps
CONSTANTS
  Nodes = {n1, n2, n3, n4}
  Strays = {x}
  Polynomials = {1, 2, 3, 4, 5}
  Struck = {n1}
  MaxMishaps = 1
PROPERTY RestartedServes
