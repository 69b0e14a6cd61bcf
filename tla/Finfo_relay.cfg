\* Names up to the length of the array and beyond; typed paths in all shapes.
CONSTANTS
  Letters = {"a", "b"}
  Sep = "/"
  Nul = "0"
  fname_max_len = 4
  Default <- MCDefault
  MaxTyped = 5
SPECIFICATION Spec
CHECK_DEADLOCK FALSE
INVARIANTS
  TypeOK
  NameArrives
  BeyondOnlyIfTooLong
  MadeWhereTyped
  ReceivedIntoMade
