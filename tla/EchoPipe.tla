------------------------------ MODULE EchoPipe ------------------------------
(***************************************************************************)
(* What a user at the host end of the serial line of the echo guest can    *)
(* count on: characters typed come back in the order they were typed, none *)
(* twice.  The line is two bounded FIFOs with the guest's hand between     *)
(* them.  Two things may go wrong, each in one situation only: a character *)
(* is lost on its way back when the FIFO to the host had no room as the    *)
(* host's present read began, and the guest may receive a NUL nobody typed *)
(* when the FIFO to the guest is full.                                     *)
(***************************************************************************)
EXTENDS Naturals, Sequences

CONSTANTS Byte,      \* what the host types
          Nul,       \* the character 0
          Text,      \* what the guest prints before it starts to echo
          Capacity,  \* internal_buffer_size
          Nil        \* no character

VARIABLES toGuest,   \* typed, not yet received by the guest
          hand,      \* the character the guest holds, or Nil
          text,      \* what the guest still has to print
          toHost,    \* sent by the guest, not yet read by the host
          taken      \* characters the host's present read has taken

vars == <<toGuest, hand, text, toHost, taken>>

Init ==
  /\ toGuest = <<>> /\ toHost = <<>> /\ taken = 0
  /\ hand = IF Text = <<>> THEN Nil ELSE Head(Text)
  /\ text = IF Text = <<>> THEN <<>> ELSE Tail(Text)

\* The host types a character that finds room.
Type(b) ==
  /\ Len(toGuest) < Capacity
  /\ toGuest' = Append(toGuest, b)
  /\ UNCHANGED <<hand, text, toHost, taken>>

\* The guest receives the oldest character.
Receive ==
  /\ hand = Nil
  /\ toGuest # <<>>
  /\ hand' = Head(toGuest)
  /\ toGuest' = Tail(toGuest)
  /\ UNCHANGED <<text, toHost, taken>>

\* The guest receives a NUL instead, and the FIFO keeps its characters.
ReceiveNul ==
  /\ hand = Nil
  /\ Len(toGuest) = Capacity
  /\ hand' = Nul
  /\ UNCHANGED <<toGuest, text, toHost, taken>>

\* The guest is done with the character it holds and takes up the next one
\* of its own text.
NextChar == IF text = <<>> THEN hand' = Nil /\ text' = <<>>
                           ELSE hand' = Head(text) /\ text' = Tail(text)

Send ==
  /\ hand # Nil
  /\ Len(toHost) < Capacity
  /\ toHost' = Append(toHost, hand)
  /\ NextChar
  /\ UNCHANGED <<toGuest, taken>>

Lose ==
  /\ hand # Nil
  /\ Len(toHost) + taken = Capacity
  /\ NextChar
  /\ UNCHANGED <<toGuest, toHost, taken>>

\* The host's read takes a character; a read ends.
Take ==
  /\ toHost # <<>>
  /\ toHost' = Tail(toHost)
  /\ taken' = taken + 1
  /\ UNCHANGED <<toGuest, hand, text>>

EndRead == taken' = 0 /\ UNCHANGED <<toGuest, hand, text, toHost>>

Next == (\E b \in Byte : Type(b)) \/ Receive \/ ReceiveNul \/ Send \/ Lose
        \/ Take \/ EndRead

Spec == Init /\ [][Next]_vars
=============================================================================
