-------------------------- MODULE IA64Interruption --------------------------
(***************************************************************************)
(* Entering and leaving interruptions on one IA-64 CPU: external interrupts*)
(* and TLB faults save the interrupted position in CR.IIP/CR.IPSR, an      *)
(* external interrupt also pushes the register frame on                    *)
(* interruptFrameStack_, and rfi undoes both.                              *)
(*                                                                         *)
(* The guest's handlers are disciplined: one that lets itself be interrupted*)
(* has saved CR.IIP and CR.IPSR and puts them back before its rfi; only the*)
(* handler of a TLB fault touches memory while PSR.ic is off; the          *)
(* handler of a TLB fault works in banked registers, the one of an external*)
(* interrupt allocates a frame of its own in GR32 and up.                  *)
(***************************************************************************)
EXTENDS Integers, Sequences, FiniteSets

CONSTANTS
  NumBundles,       \* bundle addresses are 0..NumBundles-1, handlers at 0
  MaxDepth,         \* bound: interruptions inside one another
  FaultsInHandlers  \* whether the external interrupt handler may miss the TLB

ASSUME InterruptionAssumption ==
  /\ NumBundles \in Nat \ {0} /\ MaxDepth \in Nat \ {0}
  /\ FaultsInHandlers \in BOOLEAN

Bundle == 0 .. NumBundles - 1
Slot == 0 .. 2
HandlerEntry == 0
Depth == 0 .. MaxDepth

VARIABLES
  ip, slot,            \* next instruction: IP and currentSlot_
  psrI, psrIc,         \* PSR.i and PSR.ic
  iip, ipsr,           \* CR.IIP and the i and ic bits of CR.IPSR
  inService,           \* interruptInService_
  frames,              \* interruptFrameStack_: whose GR32+ each entry holds
  gr,                  \* the depth of the code whose values GR32+ now hold
  handlers,            \* the handlers under way: kind, saved CR.IIP and CR.IPSR
  interrupted          \* ghost: where, and with which GR32+, each was entered

registers == <<psrI, psrIc, iip, ipsr, inService>>
vars == <<ip, slot, registers, frames, gr, handlers, interrupted>>

level == Len(handlers)
Kind == IF level = 0 THEN "program" ELSE handlers[level].kind
Top(s) == s[Len(s)]
Popped(s) == SubSeq(s, 1, Len(s) - 1)

Init ==
  /\ ip = 0 /\ slot = 0 /\ psrI = FALSE /\ psrIc = FALSE
  /\ iip = 0 /\ ipsr = [i |-> FALSE, ic |-> FALSE]
  /\ inService = FALSE /\ frames = <<>> /\ gr = 0
  /\ handlers = <<>> /\ interrupted = <<>>

\* Mutant: the handler's address is in IP before CR.IIP is written.
EnterJumpsFirst(kind) ==
  /\ level < MaxDepth
  /\ ip' = HandlerEntry /\ slot' = 0
  /\ iip' = HandlerEntry /\ ipsr' = [i |-> psrI, ic |-> psrIc]
  /\ handlers' = Append(handlers, [kind |-> kind, iip |-> HandlerEntry,
                                   ipsr |-> [i |-> psrI, ic |-> psrIc]])
  /\ interrupted' = Append(interrupted, [kind |-> kind, ip |-> ip,
                                         slot |-> slot, gr |-> gr])

\* Both kinds of interruption save the bundle address and PSR (whose ri field
\* this emulator never sets) and start the handler at slot 0.
Enter(kind) ==
  /\ level < MaxDepth
  /\ ip' = HandlerEntry /\ slot' = 0
  /\ iip' = ip /\ ipsr' = [i |-> psrI, ic |-> psrIc]
  /\ handlers' = Append(handlers, [kind |-> kind, iip |-> ip,
                                   ipsr |-> [i |-> psrI, ic |-> psrIc]])
  /\ interrupted' = Append(interrupted, [kind |-> kind, ip |-> ip,
                                         slot |-> slot, gr |-> gr])

\* Mutant: the interrupted frame is not saved.
ExternalInterruptNoFrame ==
  /\ ~inService /\ psrI
  /\ Enter("external")
  /\ psrI' = FALSE /\ inService' = TRUE
  /\ UNCHANGED <<psrIc, frames, gr>>

\* servicePendingInterrupt(), a request being pending and eligible.
ExternalInterrupt ==
  /\ ~inService /\ psrI
  /\ Enter("external")
  /\ psrI' = FALSE /\ inService' = TRUE
  /\ frames' = Append(frames, gr)
  /\ UNCHANGED <<psrIc, gr>>

\* The IA64TranslationFault handler of executeInstruction(): no frame is pushed.
TranslationFault ==
  /\ psrIc /\ (Kind = "program" \/ FaultsInHandlers)
  /\ Enter("fault")
  /\ psrI' = FALSE /\ psrIc' = FALSE
  /\ UNCHANGED <<inService, frames, gr>>

\* A fault with PSR.ic off is a nested one: the handler of the first fault is
\* entered at another vector, with CR.IIP and CR.IPSR left alone.
NestedTranslationFault ==
  /\ ~psrIc /\ Kind = "fault"
  /\ ip' = HandlerEntry /\ slot' = 0 /\ psrI' = FALSE
  /\ UNCHANGED <<psrIc, iip, ipsr, inService, frames, gr, handlers, interrupted>>

\* Mutant: rfi copies the frame back but leaves it on interruptFrameStack_.
RfiKeepsFrame ==
  /\ level > 0
  /\ LET h == Top(handlers) IN
     /\ ip' = h.iip /\ slot' = 0
     /\ psrI' = h.ipsr.i /\ psrIc' = h.ipsr.ic
     /\ iip' = h.iip /\ ipsr' = h.ipsr
  /\ gr' = (IF frames = <<>> THEN gr ELSE Top(frames))
  /\ handlers' = Popped(handlers) /\ interrupted' = Popped(interrupted)
  /\ UNCHANGED <<inService, frames>>

\* rfi: the handler has put its CR.IIP and CR.IPSR back.  Any rfi pops a frame
\* when there is one, and decode() starts the fetched bundle at slot 0.
Rfi ==
  /\ level > 0
  /\ LET h == Top(handlers) IN
     /\ ip' = h.iip /\ slot' = 0
     /\ psrI' = h.ipsr.i /\ psrIc' = h.ipsr.ic
     /\ iip' = h.iip /\ ipsr' = h.ipsr
  /\ IF frames = <<>> THEN UNCHANGED <<frames, gr>>
                      ELSE gr' = Top(frames) /\ frames' = Popped(frames)
  /\ handlers' = Popped(handlers) /\ interrupted' = Popped(interrupted)
  /\ UNCHANGED inService

\* The external interrupt handler's own code: allocate a frame over GR32+,
\* write CR.EOI, let interrupts (the program too) and faults in.
AllocateFrame ==
  /\ Kind = "external" /\ gr' = level
  /\ UNCHANGED <<ip, slot, registers, frames, handlers, interrupted>>

WriteEOI ==
  /\ Kind = "external" /\ inService /\ inService' = FALSE
  /\ UNCHANGED <<ip, slot, psrI, psrIc, iip, ipsr, frames, gr, handlers, interrupted>>

SetPsrI ==
  /\ Kind # "fault" /\ ~psrI /\ psrI' = TRUE
  /\ UNCHANGED <<ip, slot, psrIc, iip, ipsr, inService, frames, gr, handlers, interrupted>>

SetPsrIc ==
  /\ Kind # "fault" /\ ~psrIc /\ psrIc' = TRUE
  /\ UNCHANGED <<ip, slot, psrI, iip, ipsr, inService, frames, gr, handlers, interrupted>>

\* Mutant: the slot is advanced past the end of the bundle.
NextSlotUnchecked ==
  /\ slot' = slot + 1
  /\ UNCHANGED <<ip, registers, frames, gr, handlers, interrupted>>

\* Any other instruction: on to the next slot, to the next bundle, or a branch.
NextSlot ==
  /\ slot < 2 /\ slot' = slot + 1
  /\ UNCHANGED <<ip, registers, frames, gr, handlers, interrupted>>

NextBundle ==
  /\ slot' = 0 /\ ip' \in Bundle
  /\ UNCHANGED <<registers, frames, gr, handlers, interrupted>>

\* reset(): interruptFrameStack_ is cleared with the registers.
Reset ==
  /\ ip' = 0 /\ slot' = 0 /\ psrI' = FALSE /\ psrIc' = FALSE
  /\ iip' = 0 /\ ipsr' = [i |-> FALSE, ic |-> FALSE]
  /\ inService' = FALSE /\ frames' = <<>> /\ gr' = 0
  /\ handlers' = <<>> /\ interrupted' = <<>>

Next ==
  \/ ExternalInterrupt \/ TranslationFault \/ NestedTranslationFault \/ Rfi
  \/ AllocateFrame \/ WriteEOI \/ SetPsrI \/ SetPsrIc \/ NextSlot \/ NextBundle
  \/ Reset

Spec == Init /\ [][Next]_vars

----------------------------------------------------------------------------
(* Properties *)

IPSR == [i : BOOLEAN, ic : BOOLEAN]

\* Every variable holds a value of its type.
TypeOK ==
  /\ ip \in Bundle /\ slot \in Slot /\ psrI \in BOOLEAN /\ psrIc \in BOOLEAN
  /\ iip \in Bundle /\ ipsr \in IPSR /\ inService \in BOOLEAN
  /\ frames \in Seq(Depth) /\ gr \in Depth
  /\ handlers \in Seq([kind : {"external", "fault"}, iip : Bundle, ipsr : IPSR])
  /\ interrupted \in Seq([kind : {"external", "fault"}, ip : Bundle, slot : Slot, gr : Depth])
  /\ Len(handlers) = Len(interrupted) /\ Len(handlers) <= MaxDepth

\* As long as the external interrupt handler does not miss the TLB, the frame
\* stack holds exactly the frames of the external interrupts under way,
\* outermost first, whatever mixture of nested interrupts and of program
\* faults led here (servicePendingInterrupt pushes, every rfi pops).
FramesPaired ==
  ~FaultsInHandlers =>
    /\ Len(frames) = Cardinality({i \in 1 .. level : interrupted[i].kind = "external"})
    /\ \A i \in 1 .. Len(frames) : frames[i] = interrupted[i].gr

\* An rfi gives the interrupted code its own GR32 and up
\* (IA64ISAPlugin.cpp, servicePendingInterrupt: "The interrupted frame must
\* survive the handler's own register-stack use ... rfi restores it").
RfiRestoresFrame == [][Rfi => gr' = Top(interrupted).gr]_vars

\* An rfi resumes the interrupted instruction: "Execution continues at the
\* bundle address loaded into the IP, and the instruction slot loaded into
\* PSR.ri" (docs/itanium-architecture-vol-3-manual.txt, rfi).
RfiResumesSlot == [][Rfi => ip' = Top(interrupted).ip /\ slot' = Top(interrupted).slot]_vars

\* What each depth has: the one that runs the registers of the CPU, each below
\* it what it had when it was interrupted, but for the slot.
Code ==
  [d \in 0 .. level |->
     IF d = level THEN [ip |-> ip, slot |-> slot, gr |-> gr]
     ELSE [ip |-> interrupted[d + 1].ip, slot |-> 0, gr |-> interrupted[d + 1].gr]]

Interrupted == INSTANCE InterruptedCode WITH depth <- level, code <- Code

\* Interruptions, however they are nested, put code aside and take it up again
\* as it was, its bundle and its GR32 and up, whatever the handlers above it do:
\* servicePendingInterrupt, the IA64TranslationFault handler and rfi implement
\* InterruptedCode, unless external interrupt handlers miss the TLB.
ImplementsInterruptedCode == Interrupted!Spec
=============================================================================
