------------------------------- MODULE MCDigiText -------------------------------
\* The constants of the runs of DigiText.
EXTENDS DigiText

\* A character that has no code in RTTY, and a letter.
MCMacros == {<<"junk", "A">>}
================================================================================
