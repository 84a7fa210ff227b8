-------------------------- MODULE PublicationWindow --------------------------
(***************************************************************************)
(* What the history export promises a reader who only looks at manifests:  *)
(* a window of publications that grows at its new end with ids never used  *)
(* before, and shrinks at its old end.  Only somebody outside the program  *)
(* can take a publication out of the middle.  Somebody who touches the     *)
(* watermark file breaks the promise of fresh ids, but not that of the     *)
(* order in the window.                                                    *)
(***************************************************************************)
EXTENDS Integers, Sequences

CONSTANT Ids  \* publication ids

VARIABLES
  window,  \* the publications, oldest first
  high,    \* the highest id ever published
  lost,    \* ids somebody else removed
  intact   \* nobody else touched the watermark

PInit == window = <<>> /\ high = 0 /\ lost = {} /\ intact = TRUE

Publish ==
  \E id \in Ids :
    /\ intact => id > high
    /\ \A i \in DOMAIN window : id > window[i]
    /\ window' = Append(window, id)
    /\ high' = IF id > high THEN id ELSE high
    /\ UNCHANGED <<lost, intact>>

Expire ==
  /\ window # <<>>
  /\ window' = Tail(window)
  /\ UNCHANGED <<high, lost, intact>>

Lose ==
  \E i \in DOMAIN window :
    /\ window' = SubSeq(window, 1, i - 1) \o SubSeq(window, i + 1, Len(window))
    /\ lost' = lost \cup {window[i]}
    /\ UNCHANGED <<high, intact>>

Touch ==
  /\ intact
  /\ intact' = FALSE
  /\ UNCHANGED <<window, high, lost>>

PNext == Publish \/ Expire \/ Lose \/ Touch
PSpec == PInit /\ [][PNext]_<<window, high, lost, intact>>
=============================================================================
