------------------------------- MODULE MCDigiModes ------------------------------
\* The constants of the run of DigiModes: for text those of DigiText.
EXTENDS MCDigiText, DigiModes
================================================================================
