------------------------------- MODULE DigiModes -------------------------------
(***************************************************************************)
(* The digital modes together: text in PSK and RTTY (DigiText) and FreeDV, *)
(* of which one is selected and stays so.  They share the audio interrupt  *)
(* and PendSV, and none of their state.                                    *)
(***************************************************************************)
EXTENDS DigiText, FreeDv

VARIABLE digital_mode   \* ts.digital_mode: "FreeDV", or one of the text modes

modesVars == <<vars, fdvVars, digital_mode>>

ModesInit == /\ Init /\ FdvInit
             /\ digital_mode = "text" \/ (digital_mode = "FreeDV" /\ mode \notin TextMode)

\* A step of a text mode, and of FreeDV.
TextStep == /\ digital_mode = "text"
            /\ Next
            /\ UNCHANGED <<fdvVars, digital_mode>>

FreeDvStep == /\ digital_mode = "FreeDV"
              /\ FdvNext
              /\ UNCHANGED <<vars, digital_mode>>

ModesNext == TextStep \/ FreeDvStep

InText(A) == digital_mode = "text" /\ A /\ UNCHANGED <<fdvVars, digital_mode>>

\* The fairness is that of the text modes.
ModesSpec == /\ ModesInit /\ [][ModesNext]_modesVars
             /\ WF_modesVars(InText(Audio)) /\ WF_modesVars(InText(KeyerBreak))
             /\ WF_modesVars(InText(Handler))
================================================================================
