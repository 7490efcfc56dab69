---------------------------- MODULE ScreenProofs ----------------------------
(***************************************************************************)
(* Theorems about Screen, for framebuffers of any size and any number of   *)
(* writes: where main, the thread and the objects are tells who may use    *)
(* what, and three pictures are ordered pixel by pixel.                    *)
(***************************************************************************)
EXTENDS Screen, TLAPS

Uses == {"events", "update", "copy", "render"}

\* The thread is there from pthread_create to pthread_join, and uses the
\* screen only after it saw the struct, whose objects all are there until
\* main has joined.
ThreadInv ==
  /\ main \in {"start", "inited"} => thread = "none"
  /\ main \in {"uninit", "end"} => thread = "returned"
  /\ main # "end" => made \in {{}, Object}
  /\ thread \in Uses => made = Object

\* No picture is newer than what it was copied from.
PictureInv ==
  \A p \in 1..Pixels :
    /\ texture[p] <= fb[p] /\ shown[p] <= fb[p]
    /\ thread # "copy" \/ p <= copied => shown[p] <= texture[p]

ScreenInv == TypeOK /\ ThreadInv /\ PictureInv
-----------------------------------------------------------------------------
LEMMA PictureValues ==
  ASSUME TypeOK, NEW p \in 1..Pixels
  PROVE  fb[p] \in Nat /\ texture[p] \in Nat /\ shown[p] \in Nat
BY ScreenAssumption DEF TypeOK, Picture

LEMMA InitHolds == Init => ScreenInv
<1> SUFFICES ASSUME Init PROVE ScreenInv OBVIOUS
<1>1. TypeOK BY ScreenAssumption DEF Init, TypeOK, Picture, Black
<1>2. ThreadInv BY DEF Init, ThreadInv, Uses
<1>3. PictureInv BY DEF Init, PictureInv, Black
<1> QED BY <1>1, <1>2, <1>3 DEF ScreenInv

LEMMA TypeStep == TypeOK /\ [Next]_vars => TypeOK'
<1> SUFFICES ASSUME TypeOK, [Next]_vars PROVE TypeOK' OBVIOUS
<1> USE DEF TypeOK
<1>1. CASE ScreenInit \/ Start \/ VmRunReturns \/ Join \/ ScreenUninit
  BY <1>1 DEF ScreenInit, Start, VmRunReturns, Join, ScreenUninit
<1>2. CASE Test \/ (\E quit \in BOOLEAN : Events(quit)) \/ LockFails \/ Unlock
  BY <1>2 DEF Test, Events, LockFails, Unlock, Goes
<1>3. CASE LockTexture
  <2>1. Black \in Picture BY ScreenAssumption DEF Black, Picture
  <2> QED BY <1>3, <2>1, ScreenAssumption DEF LockTexture, Goes
<1>4. CASE CopyPixel
  <2>1. copied + 1 \in 0..Pixels /\ copied + 1 \in 1..Pixels
    BY <1>4, ScreenAssumption DEF CopyPixel
  <2>2. [texture EXCEPT ![copied + 1] = fb[copied + 1]] \in Picture
    BY <2>1 DEF Picture
  <2> QED BY <1>4, <2>1, <2>2 DEF CopyPixel, Goes
<1>5. CASE Render BY <1>5 DEF Render, Goes
<1>6. ASSUME NEW p \in 1..Pixels, GuestWrites(p) PROVE TypeOK'
  <2>1. fb[p] + 1 \in 0..MaxWrites
    BY <1>6, PictureValues, ScreenAssumption DEF GuestWrites
  <2>2. [fb EXCEPT ![p] = @ + 1] \in Picture BY <2>1 DEF Picture
  <2> QED BY <1>6, <2>2 DEF GuestWrites
<1>7. CASE UNCHANGED vars BY <1>7 DEF vars
<1> QED BY <1>1, <1>2, <1>3, <1>4, <1>5, <1>6, <1>7 DEF Next, Refreshes

LEMMA ThreadStep == ScreenInv /\ [Next]_vars => ThreadInv'
<1> SUFFICES ASSUME TypeOK, ThreadInv, [Next]_vars PROVE ThreadInv'
  BY DEF ScreenInv
<1> USE DEF ThreadInv, Uses
<1>1. CASE ScreenInit \/ Start \/ VmRunReturns \/ Join \/ ScreenUninit
  BY <1>1 DEF ScreenInit, Start, VmRunReturns, Join, ScreenUninit, TypeOK
<1>2. CASE Test
  <2>1. "struct" \in made => made = Object BY <1>2 DEF Test, Goes
  <2> QED BY <1>2, <2>1 DEF Test, Goes
<1>3. CASE (\E quit \in BOOLEAN : Events(quit)) \/ LockFails \/ Unlock
  BY <1>3 DEF Events, LockFails, Unlock, Goes
<1>4. CASE LockTexture \/ CopyPixel \/ Render
  BY <1>4 DEF LockTexture, CopyPixel, Render, Goes
<1>5. CASE \E p \in 1..Pixels : GuestWrites(p) BY <1>5 DEF GuestWrites
<1>6. CASE UNCHANGED vars BY <1>6 DEF vars
<1> QED BY <1>1, <1>2, <1>3, <1>4, <1>5, <1>6 DEF Next, Refreshes

LEMMA PictureStep == ScreenInv /\ [Next]_vars => PictureInv'
<1> SUFFICES ASSUME TypeOK, ThreadInv, PictureInv, [Next]_vars,
                    NEW p \in 1..Pixels
             PROVE  /\ texture'[p] <= fb'[p] /\ shown'[p] <= fb'[p]
                    /\ thread' # "copy" \/ p <= copied' => shown'[p] <= texture'[p]
  BY DEF ScreenInv, PictureInv
<1>1. fb[p] \in Nat /\ texture[p] \in Nat /\ shown[p] \in Nat BY PictureValues
<1>2. /\ texture[p] <= fb[p] /\ shown[p] <= fb[p]
      /\ thread # "copy" \/ p <= copied => shown[p] <= texture[p]
  BY DEF PictureInv
<1>3. CASE ScreenInit \/ Start \/ VmRunReturns \/ Join \/ ScreenUninit
  BY <1>2, <1>3 DEF ScreenInit, Start, VmRunReturns, Join, ScreenUninit, ThreadInv
<1>4. CASE Test \/ (\E quit \in BOOLEAN : Events(quit)) \/ LockFails
  BY <1>2, <1>4 DEF Test, Events, LockFails, Goes
<1>5. CASE LockTexture
  <2>1. texture'[p] = 0 /\ copied' = 0 /\ thread' = "copy"
    BY <1>5 DEF LockTexture, Goes, Black
  <2>2. UNCHANGED <<fb, shown>> BY <1>5 DEF LockTexture
  <2> QED BY <1>1, <1>2, <2>1, <2>2
<1>6. CASE CopyPixel
  <2>1. /\ thread = "copy" /\ thread' = "copy"
        /\ copied' = copied + 1 /\ UNCHANGED <<fb, shown>>
        /\ texture' = [texture EXCEPT ![copied + 1] = fb[copied + 1]]
    BY <1>6 DEF CopyPixel, Goes
  <2>2. texture'[p] = IF p = copied + 1 THEN fb[p] ELSE texture[p]
    BY <2>1 DEF TypeOK, Picture
  <2>3. copied \in Nat BY ScreenAssumption DEF TypeOK
  <2>4. p <= copied' => p <= copied \/ p = copied + 1 BY <2>1, <2>3
  <2>5. CASE p = copied + 1 BY <1>1, <1>2, <2>1, <2>2, <2>5
  <2>6. CASE p # copied + 1 BY <1>2, <2>1, <2>2, <2>4, <2>6
  <2> QED BY <2>5, <2>6
<1>7. CASE Unlock
  <2>1. p <= copied BY <1>7 DEF Unlock
  <2> QED BY <1>2, <1>7, <2>1 DEF Unlock, Goes
<1>8. CASE Render BY <1>1, <1>2, <1>8 DEF Render, Goes
<1>9. ASSUME NEW q \in 1..Pixels, GuestWrites(q)
      PROVE  /\ texture'[p] <= fb'[p] /\ shown'[p] <= fb'[p]
             /\ thread' # "copy" \/ p <= copied' => shown'[p] <= texture'[p]
  <2>1. fb' = [fb EXCEPT ![q] = @ + 1] /\ UNCHANGED <<thread, copied, texture, shown>>
    BY <1>9 DEF GuestWrites
  <2>2. fb'[p] = IF p = q THEN fb[p] + 1 ELSE fb[p] BY <2>1 DEF TypeOK, Picture
  <2>3. fb[p] <= fb'[p] /\ fb'[p] \in Nat BY <1>1, <2>2
  <2> QED BY <1>1, <1>2, <2>1, <2>3
<1>10. CASE UNCHANGED vars BY <1>2, <1>10 DEF vars
<1> QED BY <1>3, <1>4, <1>5, <1>6, <1>7, <1>8, <1>9, <1>10 DEF Next, Refreshes

LEMMA InvStep == ScreenInv /\ [Next]_vars => ScreenInv'
BY TypeStep, ThreadStep, PictureStep DEF ScreenInv

\* The window changes when the thread renders, which needs a texture that
\* is not being copied.
LEMMA OlderStep ==
  ScreenInv /\ [Next]_vars => [\A p \in 1..Pixels : shown'[p] >= shown[p]]_vars
<1> SUFFICES ASSUME ScreenInv, [Next]_vars, NEW p \in 1..Pixels
             PROVE  shown'[p] >= shown[p]
  OBVIOUS
<1>1. shown[p] \in Nat /\ texture[p] \in Nat BY PictureValues DEF ScreenInv
<1>2. CASE Render
  <2>1. shown' = texture /\ thread = "render" BY <1>2 DEF Render, Goes
  <2>2. shown[p] <= texture[p] BY <2>1 DEF ScreenInv, PictureInv
  <2> QED BY <1>1, <2>1, <2>2
<1>3. CASE shown' = shown BY <1>1, <1>3
<1> QED
  BY <1>2, <1>3 DEF Next, Refreshes, vars, ScreenInit, Start, VmRunReturns, Join,
     ScreenUninit, Test, Events, LockTexture, LockFails, CopyPixel, Unlock, GuestWrites
-----------------------------------------------------------------------------
(***************************************************************************)
(* The inductive invariant holds in every run.                             *)
(***************************************************************************)
THEOREM ScreenInvariant == Spec => []ScreenInv
BY InitHolds, InvStep, PTL DEF Spec

(***************************************************************************)
(* The pictures and the places of main and the thread stay within their    *)
(* types: memory_read never copies behind the framebuffer.                 *)
(***************************************************************************)
THEOREM ScreenTypeCorrect == Spec => []TypeOK
<1>1. ScreenInv => TypeOK BY DEF ScreenInv
<1> QED BY <1>1, ScreenInvariant, PTL

(***************************************************************************)
(* The thread of screen_run never uses an object that screen_uninit has    *)
(* destroyed or screen_init did not make.                                  *)
(***************************************************************************)
THEOREM ScreenOutlivesItsThread == Spec => []NoDeadScreen
<1>1. ScreenInv => NoDeadScreen BY DEF ScreenInv, ThreadInv, NoDeadScreen, Uses
<1> QED BY <1>1, ScreenInvariant, PTL

(***************************************************************************)
(* No pixel of the window goes back, however the guest's writes, the       *)
(* copying and failing locks interleave.                                   *)
(***************************************************************************)
THEOREM PixelsNeverGoBack == Spec => NeverOlder
BY OlderStep, ScreenInvariant, PTL DEF Spec, NeverOlder
=============================================================================
