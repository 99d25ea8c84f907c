SPECIFICATION ConfigSpec
CONSTANTS
    Values = {0, 1}
    Zero = 0
    Unset = Unset
    Blank = Blank
INVARIANTS
    RefusedIsNotSent
