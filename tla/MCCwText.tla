-------------------------------- MODULE MCCwText --------------------------------
\* The constants of the run of CwText.
EXTENDS CwText

\* E and T run together are an A.
MCMorse == [E |-> <<"dit">>, T |-> <<"dah">>, A |-> <<"dit", "dah">>]

\* Two letters; a blank and a letter.
MCMacros == {<<"E", "T">>, <<"blank", "A">>}

MCElementTime == [dit |-> 1, dah |-> 2]

\* The shortest break time, within a letter, and one longer than the gap
\* between words.
MCSettings == {[mode |-> "B", breakTime |-> 1], [mode |-> "ultimate", breakTime |-> 5]}
================================================================================
