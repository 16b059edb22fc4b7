-------------------------------- MODULE MCEditor --------------------------------
\* The last of the changes made is an invalid one.
EXTENDS Editor

flawed == {MaxEdits}
=============================================================================
