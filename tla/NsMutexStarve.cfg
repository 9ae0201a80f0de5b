\* Workers that never stop, semaphores with no fairness of their own.
CONSTANTS
  Workers = {w1, w2, w3}
  Loops <- Always
  IntRange = 1
SPECIFICATION FairSpec
PROPERTIES NoStarvation
