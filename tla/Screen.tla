------------------------------- MODULE Screen -------------------------------
(***************************************************************************)
(* The screen of src/screen.c: main, which makes it, runs the guest, waits *)
(* for the screen's thread and unmakes it, as examples/guests/main.c does; *)
(* the thread itself, screen_run, which copies the framebuffer pixel by    *)
(* pixel into a texture and shows that; and the guest, which writes pixels *)
(* meanwhile.  vm_run is what its callers take it for: a call that may     *)
(* return 1.  SDL is external: objects that are there or not.              *)
(***************************************************************************)
EXTENDS Naturals

CONSTANTS Pixels,     \* pixels in the framebuffer
          MaxWrites   \* bound: how often the guest writes each

ASSUME ScreenAssumption == Pixels \in Nat \ {0} /\ MaxWrites \in Nat

VARIABLES main,    \* where main is
          made,    \* what screen_init made and is still there
          thread,  \* where screen_run is
          copied,  \* the pixels memory_read has copied
          fb,      \* the framebuffer: a pixel is known by when it was written
          texture, \* the texture
          shown    \* what the window shows

vars == <<main, made, thread, copied, fb, texture, shown>>

Object == {"struct", "window", "renderer", "texture"}
Picture == [1..Pixels -> 0..MaxWrites]
Black == [p \in 1..Pixels |-> 0]

TypeOK ==
  /\ main \in {"start", "inited", "run", "join", "uninit", "end"}
  /\ made \subseteq Object
  /\ thread \in {"none", "test", "events", "update", "copy", "render", "returned"}
  /\ copied \in 0..Pixels
  /\ fb \in Picture /\ texture \in Picture /\ shown \in Picture

Init ==
  /\ main = "start" /\ made = {} /\ thread = "none" /\ copied = 0
  /\ fb = Black /\ texture = Black /\ shown = Black
-----------------------------------------------------------------------------
(***************************************************************************)
(* screen_init: when the memory is not granted or an object cannot be      *)
(* made, those made before it are destroyed.  main does not look at the    *)
(* answer; vm->screen is NULL then, and the thread returns.                *)
(***************************************************************************)
ScreenInit ==
  /\ main = "start"
  /\ main' = "inited" /\ made' \in {{}, Object}
  /\ UNCHANGED <<thread, copied, fb, texture, shown>>

\* pthread_create, and vm_run.
Start ==
  /\ main = "inited"
  /\ main' = "run" /\ thread' = "test"
  /\ UNCHANGED <<made, copied, fb, texture, shown>>

VmRunReturns ==
  /\ main = "run"
  /\ main' = "join"
  /\ UNCHANGED <<made, thread, copied, fb, texture, shown>>

\* Mutant: nobody waits for the thread (the order of examples/k/main.c).
Join_Forgotten ==
  /\ main = "join"
  /\ main' = "uninit"
  /\ UNCHANGED <<made, thread, copied, fb, texture, shown>>

\* pthread_join.
Join ==
  /\ main = "join" /\ thread = "returned"
  /\ main' = "uninit"
  /\ UNCHANGED <<made, thread, copied, fb, texture, shown>>

\* screen_uninit; the struct is not freed and vm->screen stays.
ScreenUninit ==
  /\ main = "uninit"
  /\ main' = "end" /\ made' = made \ {"window", "renderer", "texture"}
  /\ UNCHANGED <<thread, copied, fb, texture, shown>>
-----------------------------------------------------------------------------
Goes(from, to) == thread = from /\ thread' = to

\* screen_run: the first test, of vm->screen.
Test ==
  /\ Goes("test", IF "struct" \in made THEN "events" ELSE "returned")
  /\ UNCHANGED <<main, made, copied, fb, texture, shown>>

\* SDL_PollEvent until there is none, or a quit; then the delay.
Events(quit) ==
  /\ Goes("events", IF quit THEN "returned" ELSE "update")
  /\ UNCHANGED <<main, made, copied, fb, texture, shown>>

\* screen_update: SDL_LockTexture, which may fail and then keeps the
\* texture; the pixels it gives are not to be read.
LockTexture ==
  /\ Goes("update", "copy")
  /\ copied' = 0 /\ texture' = Black
  /\ UNCHANGED <<main, made, fb, shown>>

LockFails ==
  /\ Goes("update", "render")
  /\ UNCHANGED <<main, made, copied, fb, texture, shown>>

\* Mutant: memory_read is asked for one pixel too many.
CopyPixel_OneMore ==
  /\ copied <= Pixels /\ Goes("copy", "copy")
  /\ copied' = copied + 1
  /\ texture' = IF copied = Pixels THEN texture
                ELSE [texture EXCEPT ![copied + 1] = fb[copied + 1]]
  /\ UNCHANGED <<main, made, fb, shown>>

\* memory_read: one pixel after the other, from memory the guest writes.
CopyPixel ==
  /\ copied < Pixels /\ Goes("copy", "copy")
  /\ copied' = copied + 1
  /\ texture' = [texture EXCEPT ![copied + 1] = fb[copied + 1]]
  /\ UNCHANGED <<main, made, fb, shown>>

\* Mutant: memory_read is asked for one pixel too few.
Unlock_OneShort ==
  /\ copied >= Pixels - 1 /\ Goes("copy", "render")
  /\ UNCHANGED <<main, made, copied, fb, texture, shown>>

\* SDL_UnlockTexture.
Unlock ==
  /\ copied = Pixels /\ Goes("copy", "render")
  /\ UNCHANGED <<main, made, copied, fb, texture, shown>>

\* Mutant: the texture is not copied to the window.
Render_NotCopied ==
  /\ Goes("render", "events")
  /\ UNCHANGED <<main, made, copied, fb, texture, shown>>

\* SDL_RenderClear, SDL_RenderCopy and SDL_RenderPresent.
Render ==
  /\ Goes("render", "events")
  /\ shown' = texture
  /\ UNCHANGED <<main, made, copied, fb, texture>>

Refreshes == Test \/ Events(FALSE) \/ LockTexture \/ CopyPixel \/ Unlock \/ Render

\* The guest writes a pixel, at any moment.
GuestWrites(p) ==
  /\ main = "run" /\ fb[p] < MaxWrites
  /\ fb' = [fb EXCEPT ![p] = @ + 1]
  /\ UNCHANGED <<main, made, thread, copied, texture, shown>>

Next ==
  \/ ScreenInit \/ Start \/ VmRunReturns \/ Join \/ ScreenUninit
  \/ Refreshes \/ Events(TRUE) \/ LockFails
  \/ \E p \in 1..Pixels : GuestWrites(p)

Spec == Init /\ [][Next]_vars

\* The thread is scheduled, and SDL_LockTexture does not fail for ever.
FairSpec == Spec /\ WF_vars(Refreshes) /\ SF_vars(LockTexture)
-----------------------------------------------------------------------------
(***************************************************************************)
(* The thread and screen_uninit, which run in two threads of the program,  *)
(* never meet: while the thread uses the texture or the renderer they are  *)
(* there.                                                                  *)
(***************************************************************************)
NoDeadScreen ==
  thread \in {"events", "update", "copy", "render"} => made = Object

(***************************************************************************)
(* The picture is torn, since the guest writes while it is copied, but no  *)
(* pixel of it ever goes back to what the guest had there before, nor to   *)
(* what a locked texture holds: also when some locks fail.                 *)
(***************************************************************************)
NeverOlder == [][\A p \in 1..Pixels : shown'[p] >= shown[p]]_vars

(***************************************************************************)
(* As long as the thread runs, the window comes to show the framebuffer    *)
(* whole once the guest stops writing.                                     *)
(***************************************************************************)
ShowsTheFramebuffer ==
  <>[](thread \in {"events", "update", "copy", "render"} => shown = fb)
=============================================================================
