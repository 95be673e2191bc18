----------------------- MODULE IA64InterruptionProofs -----------------------
(***************************************************************************)
(* Proofs about IA64Interruption for any number of bundles and any depth   *)
(* of nesting.  That an rfi gives the interrupted code its own registers   *)
(* holds as long as the handler of an external interrupt does not miss the *)
(* TLB; the run rfi_frame shows how it fails otherwise.                    *)
(***************************************************************************)
EXTENDS IA64Interruption, FiniteSetTheorems, TLAPS

Handler == [kind : {"external", "fault"}, iip : Bundle, ipsr : IPSR]
Entered == [kind : {"external", "fault"}, ip : Bundle, slot : Slot, gr : Depth]

(* The handler of a fault is entered from the program only, and nothing is *)
(* entered from it: it runs with PSR.i off and leaves the registers alone. *)
FaultsAreOutermost ==
  /\ \A i \in 1 .. level : handlers[i].kind = interrupted[i].kind
  /\ \A i \in 1 .. level : handlers[i].kind = "fault" => level = 1
  /\ Kind = "fault" => ~psrI /\ gr = interrupted[1].gr /\ frames = <<>>

(* Otherwise each frame was pushed by the interrupt of the same depth.     *)
FramesByDepth ==
  Kind # "fault" =>
    /\ Len(frames) = level
    /\ \A i \in 1 .. level : frames[i] = interrupted[i].gr

(* A handler keeps the address of the bundle that was interrupted.         *)
AddressesKept == \A i \in 1 .. level : handlers[i].iip = interrupted[i].ip

IInv == /\ TypeOK /\ AddressesKept
        /\ ~FaultsInHandlers => FaultsAreOutermost /\ FramesByDepth

\* What Append and Popped do to a sequence.
LEMMA Appended ==
  ASSUME NEW S, NEW s \in Seq(S), NEW x \in S
  PROVE  /\ Append(s, x) \in Seq(S) /\ Len(Append(s, x)) = Len(s) + 1
         /\ \A i \in 1 .. Len(s) : Append(s, x)[i] = s[i]
         /\ Append(s, x)[Len(s) + 1] = x
  OBVIOUS

LEMMA PoppedOff ==
  ASSUME NEW S, NEW s \in Seq(S), s # <<>>
  PROVE  /\ Top(s) \in S /\ Len(s) \in Nat \ {0}
         /\ Popped(s) \in Seq(S) /\ Len(Popped(s)) = Len(s) - 1
         /\ \A i \in 1 .. Len(s) - 1 : Popped(s)[i] = s[i]
<1>1. Len(s) \in Nat \ {0}
  OBVIOUS
<1>2. Top(s) \in S
  BY <1>1 DEF Top
<1>3. Popped(s) = [i \in 1 .. Len(s) - 1 |-> s[i]]
  BY <1>1 DEF Popped
<1>4. Popped(s) \in Seq(S) /\ Len(Popped(s)) = Len(s) - 1
  BY <1>1, <1>3
<1> QED
  BY <1>1, <1>2, <1>3, <1>4

LEMMA Constants ==
  /\ HandlerEntry \in Bundle /\ 0 \in Slot /\ 0 \in Depth
  /\ NumBundles \in Nat /\ MaxDepth \in Nat
  BY InterruptionAssumption DEF HandlerEntry, Bundle, Slot, Depth

-----------------------------------------------------------------------------
(* Types. *)

\* Entering a handler keeps the types: it is entered below the bound.
LEMMA EnterTypes ==
  ASSUME TypeOK, NEW kind \in {"external", "fault"}, Enter(kind)
  PROVE  /\ ip' \in Bundle /\ slot' \in Slot /\ iip' \in Bundle /\ ipsr' \in IPSR
         /\ handlers' \in Seq(Handler) /\ interrupted' \in Seq(Entered)
         /\ Len(handlers') = level + 1 /\ Len(interrupted') = level + 1
         /\ level + 1 <= MaxDepth
         /\ \A i \in 1 .. level : handlers'[i] = handlers[i]
                                  /\ interrupted'[i] = interrupted[i]
         /\ handlers'[level + 1].kind = kind /\ handlers'[level + 1].iip = ip
         /\ interrupted'[level + 1].kind = kind /\ interrupted'[level + 1].gr = gr
         /\ interrupted'[level + 1].ip = ip
<1> DEFINE h == [kind |-> kind, iip |-> ip, ipsr |-> [i |-> psrI, ic |-> psrIc]]
           e == [kind |-> kind, ip |-> ip, slot |-> slot, gr |-> gr]
<1>1. h \in Handler /\ e \in Entered /\ h.kind = kind /\ h.iip = ip
      /\ e.kind = kind /\ e.gr = gr /\ e.ip = ip
  BY DEF TypeOK, Handler, Entered, IPSR
<1>2. /\ handlers \in Seq(Handler) /\ interrupted \in Seq(Entered)
      /\ Len(handlers) = level /\ Len(interrupted) = level /\ level \in Nat
  BY DEF TypeOK, Handler, Entered, level
<1>3. /\ handlers' = Append(handlers, h) /\ interrupted' = Append(interrupted, e)
      /\ level < MaxDepth
  BY DEF Enter
<1>4. ip' \in Bundle /\ slot' \in Slot /\ iip' \in Bundle /\ ipsr' \in IPSR
  BY Constants DEF Enter, TypeOK, IPSR
<1> HIDE DEF h, e
<1>5. /\ handlers' \in Seq(Handler) /\ Len(handlers') = level + 1
      /\ \A i \in 1 .. level : handlers'[i] = handlers[i]
      /\ handlers'[level + 1] = h
  BY <1>1, <1>2, <1>3, Appended
<1>6. /\ interrupted' \in Seq(Entered) /\ Len(interrupted') = level + 1
      /\ \A i \in 1 .. level : interrupted'[i] = interrupted[i]
      /\ interrupted'[level + 1] = e
  BY <1>1, <1>2, <1>3, Appended
<1> QED
  BY <1>1, <1>2, <1>3, <1>4, <1>5, <1>6, Constants

\* Leaving one too.
LEMMA RfiTypes ==
  ASSUME TypeOK, Rfi
  PROVE  /\ TypeOK'
         /\ level \in Nat \ {0} /\ Len(handlers') = level - 1
         /\ \A i \in 1 .. level - 1 : handlers'[i] = handlers[i]
                                      /\ interrupted'[i] = interrupted[i]
<1>1. /\ handlers \in Seq(Handler) /\ interrupted \in Seq(Entered)
      /\ Len(handlers) = level /\ Len(interrupted) = level
      /\ level \in Nat \ {0} /\ level <= MaxDepth
  BY DEF TypeOK, Handler, Entered, level, Rfi
<1>2. handlers # <<>> /\ interrupted # <<>>
  BY <1>1
<1>3. /\ Top(handlers) \in Handler
      /\ handlers' \in Seq(Handler) /\ Len(handlers') = level - 1
      /\ \A i \in 1 .. level - 1 : handlers'[i] = handlers[i]
  BY <1>1, <1>2, PoppedOff DEF Rfi
<1>4. /\ interrupted' \in Seq(Entered) /\ Len(interrupted') = level - 1
      /\ \A i \in 1 .. level - 1 : interrupted'[i] = interrupted[i]
  BY <1>1, <1>2, PoppedOff DEF Rfi
<1>5. frames' \in Seq(Depth) /\ gr' \in Depth
  <2>1. CASE frames = <<>>
    BY <2>1 DEF Rfi, TypeOK
  <2>2. CASE frames # <<>>
    BY <2>2, PoppedOff DEF Rfi, TypeOK
  <2> QED
    BY <2>1, <2>2
<1>6. /\ ip' \in Bundle /\ slot' \in Slot /\ psrI' \in BOOLEAN /\ psrIc' \in BOOLEAN
      /\ iip' \in Bundle /\ ipsr' \in IPSR /\ inService' \in BOOLEAN
  BY <1>3, Constants DEF Rfi, TypeOK, Handler, IPSR
<1>7. Len(handlers') <= MaxDepth
  BY <1>1, <1>3, Constants
<1>8. TypeOK'
  BY <1>3, <1>4, <1>5, <1>6, <1>7 DEF TypeOK, Handler, Entered
<1> QED
  BY <1>1, <1>3, <1>4, <1>8

\* Every variable keeps its type.
LEMMA TypeStep ==
  ASSUME TypeOK, [Next]_vars
  PROVE  TypeOK'
<1> USE Constants
<1>1. CASE ExternalInterrupt
  <2>1. Enter("external") /\ psrI' = FALSE /\ inService' = TRUE
        /\ frames' = Append(frames, gr) /\ psrIc' = psrIc /\ gr' = gr
    BY <1>1 DEF ExternalInterrupt
  <2>2. frames' \in Seq(Depth)
    BY <2>1, Appended DEF TypeOK
  <2> QED
    BY <2>1, <2>2, EnterTypes DEF TypeOK, Handler, Entered
<1>2. CASE TranslationFault
  <2>1. Enter("fault") /\ psrI' = FALSE /\ psrIc' = FALSE
        /\ UNCHANGED <<inService, frames, gr>>
    BY <1>2 DEF TranslationFault
  <2> QED
    BY <2>1, EnterTypes DEF TypeOK, Handler, Entered
<1>3. CASE Rfi
  BY <1>3, RfiTypes
<1>4. CASE NestedTranslationFault
  BY <1>4 DEF NestedTranslationFault, TypeOK
<1>5. CASE AllocateFrame
  BY <1>5 DEF AllocateFrame, TypeOK, registers, level, Depth
<1>6. CASE WriteEOI \/ SetPsrI \/ SetPsrIc
  BY <1>6 DEF WriteEOI, SetPsrI, SetPsrIc, TypeOK
<1>7. CASE NextSlot
  BY <1>7 DEF NextSlot, TypeOK, registers, Slot
<1>8. CASE NextBundle
  BY <1>8 DEF NextBundle, TypeOK, registers
<1>9. CASE Reset
  <2>1. \A S : <<>> \in Seq(S)
    OBVIOUS
  <2>2. /\ handlers' = <<>> /\ interrupted' = <<>> /\ frames' = <<>>
        /\ ip' = 0 /\ iip' = 0 /\ slot' = 0 /\ gr' = 0
        /\ psrI' = FALSE /\ psrIc' = FALSE /\ inService' = FALSE
        /\ ipsr' = [i |-> FALSE, ic |-> FALSE]
    BY <1>9 DEF Reset
  <2>3. handlers' \in Seq(Handler) /\ interrupted' \in Seq(Entered) /\ frames' \in Seq(Depth)
    BY <2>1, <2>2
  <2>4. Len(handlers') = 0 /\ Len(interrupted') = 0
    BY <2>2
  <2>5. ip' \in Bundle /\ iip' \in Bundle /\ ipsr' \in IPSR
    BY <2>2 DEF IPSR, HandlerEntry
  <2>6. /\ slot' \in Slot /\ gr' \in Depth /\ psrI' \in BOOLEAN
        /\ psrIc' \in BOOLEAN /\ inService' \in BOOLEAN
    BY <2>2
  <2>7. Len(handlers') = Len(interrupted') /\ Len(handlers') <= MaxDepth
    BY <2>4
  <2> QED
    BY <2>3, <2>5, <2>6, <2>7 DEF TypeOK, Handler, Entered
<1>10. CASE UNCHANGED vars
  BY <1>10 DEF vars, registers, TypeOK
<1> QED
  BY <1>1, <1>2, <1>3, <1>4, <1>5, <1>6, <1>7, <1>8, <1>9, <1>10 DEF Next

-----------------------------------------------------------------------------
(* Frames. *)

\* A handler is that of an external interrupt or of a fault.
LEMMA HandlerKinds ==
  ASSUME TypeOK
  PROVE  level \in Nat /\ \A i \in 1 .. level : handlers[i].kind \in {"external", "fault"}
<1>1. handlers \in Seq(Handler)
  BY DEF TypeOK, Handler
<1>2. level \in Nat /\ \A i \in 1 .. level : handlers[i] \in Handler
  BY <1>1 DEF level
<1> QED
  BY <1>2 DEF Handler

\* What a step that leaves the handlers alone has to keep.
LEMMA SameHandlers ==
  ASSUME FaultsAreOutermost, FramesByDepth,
         UNCHANGED <<handlers, interrupted, frames>>,
         Kind = "fault" => ~psrI' /\ gr' = gr
  PROVE  FaultsAreOutermost' /\ FramesByDepth'
  BY DEF FaultsAreOutermost, FramesByDepth, Kind, level

\* An external interrupt finds no fault's handler under way, and pushes.
LEMMA ExternalInterruptFrames ==
  ASSUME TypeOK, FaultsAreOutermost, FramesByDepth, ExternalInterrupt
  PROVE  FaultsAreOutermost' /\ FramesByDepth'
<1>1. /\ psrI /\ Enter("external")
      /\ frames' = Append(frames, gr) /\ gr' = gr /\ psrI' = FALSE
  BY DEF ExternalInterrupt
<1>2. /\ Len(handlers') = level + 1 /\ level \in Nat
      /\ \A i \in 1 .. level : handlers'[i] = handlers[i] /\ interrupted'[i] = interrupted[i]
      /\ handlers'[level + 1].kind = "external"
      /\ interrupted'[level + 1].kind = "external" /\ interrupted'[level + 1].gr = gr
  BY <1>1, EnterTypes DEF TypeOK, level
<1>3. Kind # "fault"
  BY <1>1 DEF FaultsAreOutermost
<1>4. \A i \in 1 .. level : handlers[i].kind # "fault"
  BY <1>2, <1>3 DEF Kind, FaultsAreOutermost
<1>5. level' = level + 1
  BY <1>2 DEF level
<1>6. Kind' = "external"
  BY <1>2, <1>5 DEF Kind
<1>7. FaultsAreOutermost'
  <2>1. \A i \in 1 .. level' : handlers'[i].kind = interrupted'[i].kind
    BY <1>2, <1>5 DEF FaultsAreOutermost
  <2>2. \A i \in 1 .. level' : handlers'[i].kind # "fault"
    BY <1>2, <1>4, <1>5
  <2> QED
    BY <1>6, <2>1, <2>2 DEF FaultsAreOutermost
<1>8. FramesByDepth'
  <2>1. Len(frames) = level /\ \A i \in 1 .. level : frames[i] = interrupted[i].gr
    BY <1>3 DEF FramesByDepth
  <2>2. /\ Len(frames') = level + 1 /\ frames'[level + 1] = gr
        /\ \A i \in 1 .. level : frames'[i] = frames[i]
    BY <1>1, <2>1, Appended DEF TypeOK
  <2> QED
    BY <1>2, <1>5, <2>1, <2>2 DEF FramesByDepth
<1> QED
  BY <1>7, <1>8

\* A fault comes from the program, while there are no frames.
LEMMA TranslationFaultFrames ==
  ASSUME TypeOK, FaultsAreOutermost, FramesByDepth, ~FaultsInHandlers, TranslationFault
  PROVE  FaultsAreOutermost' /\ FramesByDepth'
<1>1. /\ Enter("fault") /\ Kind = "program"
      /\ frames' = frames /\ gr' = gr /\ psrI' = FALSE
  BY DEF TranslationFault
<1>2. /\ Len(handlers') = level + 1 /\ level \in Nat
      /\ handlers'[level + 1].kind = "fault"
      /\ interrupted'[level + 1].kind = "fault" /\ interrupted'[level + 1].gr = gr
  BY <1>1, EnterTypes DEF TypeOK, level
<1>3. level = 0
  <2>1. ASSUME level # 0
        PROVE  FALSE
    <3>1. level \in 1 .. level
      BY <1>2, <2>1
    <3>2. handlers[level].kind \in {"external", "fault"}
      BY <3>1, HandlerKinds
    <3> QED
      BY <1>1, <2>1, <3>2 DEF Kind
  <2> QED
    BY <2>1
<1>4. frames = <<>>
  BY <1>1, <1>3 DEF FramesByDepth, TypeOK
<1>5. level' = 1 /\ Kind' = "fault"
  BY <1>2, <1>3 DEF level, Kind
<1> QED
  BY <1>1, <1>2, <1>3, <1>4, <1>5 DEF FaultsAreOutermost, FramesByDepth

\* An rfi gives back the registers of the level it returns to.
LEMMA RfiFrames ==
  ASSUME TypeOK, FaultsAreOutermost, FramesByDepth, Rfi
  PROVE  FaultsAreOutermost' /\ FramesByDepth' /\ gr' = Top(interrupted).gr
<1>1. /\ level \in Nat \ {0} /\ Len(handlers') = level - 1
      /\ \A i \in 1 .. level - 1 : handlers'[i] = handlers[i]
                                   /\ interrupted'[i] = interrupted[i]
  BY RfiTypes
<1>2. level' = level - 1 /\ Top(interrupted) = interrupted[level]
  BY <1>1 DEF level, Top, TypeOK
<1>3. CASE Kind = "fault"
  <2>1. handlers[level].kind = "fault" /\ level = 1
    BY <1>1, <1>3 DEF Kind, FaultsAreOutermost
  <2>2. gr = interrupted[1].gr /\ frames = <<>>
    BY <1>3 DEF FaultsAreOutermost
  <2>3. gr' = gr /\ frames' = frames
    BY <2>2 DEF Rfi
  <2>4. level' = 0 /\ Kind' = "program" /\ Len(frames') = 0
    BY <1>2, <2>1, <2>2, <2>3 DEF Kind
  <2>5. FaultsAreOutermost' /\ FramesByDepth'
    BY <2>4 DEF FaultsAreOutermost, FramesByDepth
  <2> QED
    BY <1>2, <2>1, <2>2, <2>3, <2>5
<1>4. CASE Kind # "fault"
  <2>1. Len(frames) = level /\ \A i \in 1 .. level : frames[i] = interrupted[i].gr
    BY <1>4 DEF FramesByDepth
  <2>2. frames # <<>>
    BY <1>1, <2>1
  <2>3. gr' = Top(frames) /\ frames' = Popped(frames)
    BY <2>2 DEF Rfi
  <2>4. gr' = interrupted[level].gr
    BY <1>1, <2>1, <2>3 DEF Top
  <2>5. /\ Len(frames') = level - 1
        /\ \A i \in 1 .. level - 1 : frames'[i] = frames[i]
    BY <2>1, <2>2, <2>3, PoppedOff DEF TypeOK
  <2>6. FramesByDepth'
    BY <1>1, <1>2, <2>1, <2>5 DEF FramesByDepth
  <2>7. \A i \in 1 .. level : handlers[i].kind # "fault"
    BY <1>1, <1>4 DEF Kind, FaultsAreOutermost
  <2>8. \A i \in 1 .. level' : handlers'[i].kind # "fault"
    BY <1>1, <1>2, <2>7
  <2>9. Kind' # "fault"
    BY <1>1, <1>2, <2>8 DEF Kind
  <2>10. FaultsAreOutermost'
    BY <1>1, <1>2, <2>8, <2>9 DEF FaultsAreOutermost
  <2> QED
    BY <1>2, <2>4, <2>6, <2>10
<1> QED
  BY <1>3, <1>4

LEMMA FrameStep ==
  ASSUME TypeOK, FaultsAreOutermost, FramesByDepth, ~FaultsInHandlers, [Next]_vars
  PROVE  FaultsAreOutermost' /\ FramesByDepth'
<1>1. CASE ExternalInterrupt
  BY <1>1, ExternalInterruptFrames
<1>2. CASE TranslationFault
  BY <1>2, TranslationFaultFrames
<1>3. CASE Rfi
  BY <1>3, RfiFrames
<1>4. CASE NestedTranslationFault
  BY <1>4, SameHandlers DEF NestedTranslationFault
<1>5. CASE AllocateFrame
  BY <1>5, SameHandlers DEF AllocateFrame
<1>6. CASE SetPsrI
  BY <1>6, SameHandlers DEF SetPsrI
<1>7. CASE WriteEOI \/ SetPsrIc
  BY <1>7, SameHandlers DEF WriteEOI, SetPsrIc, FaultsAreOutermost
<1>8. CASE NextSlot \/ NextBundle \/ UNCHANGED vars
  BY <1>8, SameHandlers DEF NextSlot, NextBundle, vars, registers, FaultsAreOutermost
<1>9. CASE Reset
  <2>1. handlers' = <<>> /\ frames' = <<>>
    BY <1>9 DEF Reset
  <2>2. level' = 0 /\ Kind' = "program" /\ Len(frames') = 0
    BY <2>1 DEF level, Kind
  <2> QED
    BY <2>2 DEF FaultsAreOutermost, FramesByDepth
<1> QED
  BY <1>1, <1>2, <1>3, <1>4, <1>5, <1>6, <1>7, <1>8, <1>9 DEF Next

LEMMA AddressesStep ==
  ASSUME TypeOK, AddressesKept, [Next]_vars
  PROVE  AddressesKept'
<1>1. CASE ExternalInterrupt \/ TranslationFault
  <2>1. \E kind \in {"external", "fault"} : Enter(kind)
    BY <1>1 DEF ExternalInterrupt, TranslationFault
  <2> QED
    BY <2>1, EnterTypes, HandlerKinds DEF AddressesKept, level
<1>2. CASE Rfi
  BY <1>2, RfiTypes DEF AddressesKept, level
<1>3. CASE Reset
  <2>1. level' = 0
    BY <1>3 DEF Reset, level
  <2> QED
    BY <2>1 DEF AddressesKept
<1>4. CASE UNCHANGED <<handlers, interrupted>>
  BY <1>4 DEF AddressesKept, level
<1> QED
  BY <1>1, <1>2, <1>3, <1>4
     DEF Next, NestedTranslationFault, AllocateFrame, WriteEOI, SetPsrI, SetPsrIc,
         NextSlot, NextBundle, vars

-----------------------------------------------------------------------------
(* The theorems. *)

LEMMA InitInv == Init => IInv
<1> SUFFICES ASSUME Init PROVE IInv
  OBVIOUS
<1>1. \A S : <<>> \in Seq(S)
  OBVIOUS
<1>2. level = 0 /\ Kind = "program" /\ Len(frames) = 0
  BY DEF Init, level, Kind
<1>3. /\ handlers \in Seq(Handler) /\ interrupted \in Seq(Entered) /\ frames \in Seq(Depth)
  BY <1>1 DEF Init
<1>4. /\ ip \in Bundle /\ iip \in Bundle /\ ipsr \in IPSR /\ slot \in Slot /\ gr \in Depth
      /\ psrI \in BOOLEAN /\ psrIc \in BOOLEAN /\ inService \in BOOLEAN
  BY Constants DEF Init, IPSR, HandlerEntry
<1>5. Len(handlers) = Len(interrupted) /\ Len(handlers) <= MaxDepth
  <2>1. Len(handlers) = 0 /\ Len(interrupted) = 0
    BY DEF Init
  <2> QED
    BY <2>1, Constants
<1>6. TypeOK
  BY <1>3, <1>4, <1>5 DEF TypeOK, Handler, Entered
<1> QED
  BY <1>2, <1>6 DEF IInv, FaultsAreOutermost, FramesByDepth, AddressesKept

\* IInv is inductive.
THEOREM Inductive == Spec => []IInv
<1>1. IInv /\ [Next]_vars => IInv'
  BY TypeStep, FrameStep, AddressesStep DEF IInv
<1> QED
  BY InitInv, <1>1, PTL DEF Spec

\* Every variable keeps a value of its type.
THEOREM TypeCorrect == Spec => []TypeOK
<1>1. IInv => TypeOK
  BY DEF IInv
<1> QED
  BY Inductive, <1>1, PTL

\* The frames on interruptFrameStack_ are those of the external interrupts
\* under way, whatever mixture of interrupts and program faults led here.
THEOREM FramesArePaired == Spec => []FramesPaired
<1>1. IInv => FramesPaired
  <2> SUFFICES ASSUME TypeOK, ~FaultsInHandlers, FaultsAreOutermost, FramesByDepth
               PROVE  FramesPaired
    BY DEF IInv, FramesPaired
  <2> DEFINE external == {i \in 1 .. level : interrupted[i].kind = "external"}
  <2>1. level \in Nat
    BY DEF TypeOK, level
  <2>2. CASE Kind = "fault"
    <3>1. level = 1 /\ handlers[1].kind = "fault"
      BY <2>1, <2>2 DEF Kind, FaultsAreOutermost
    <3>2. interrupted[1].kind = "fault"
      BY <3>1 DEF FaultsAreOutermost
    <3>3. external = {}
      BY <3>1, <3>2
    <3>4. Cardinality(external) = 0
      BY <3>3, FS_EmptySet
    <3>5. Len(frames) = 0
      BY <2>2 DEF FaultsAreOutermost
    <3> QED
      BY <3>4, <3>5 DEF FramesPaired
  <2>3. CASE Kind # "fault"
    <3>1. \A i \in 1 .. level : handlers[i].kind # "fault"
      BY <2>1, <2>3 DEF Kind, FaultsAreOutermost
    <3>2. \A i \in 1 .. level : handlers[i].kind \in {"external", "fault"}
      BY HandlerKinds
    <3>3. \A i \in 1 .. level : interrupted[i].kind = "external"
      BY <3>1, <3>2 DEF FaultsAreOutermost
    <3>4. external = 1 .. level
      BY <3>3
    <3>5. Cardinality(external) = level
      <4>1. Cardinality(1 .. level) = IF 1 > level THEN 0 ELSE level - 1 + 1
        BY <2>1, FS_Interval, 1 \in Int, level \in Int
      <4> HIDE DEF external
      <4> QED
        BY <2>1, <3>4, <4>1
    <3>6. Len(frames) = level /\ \A i \in 1 .. level : frames[i] = interrupted[i].gr
      BY <2>3 DEF FramesByDepth
    <3> QED
      BY <3>5, <3>6 DEF FramesPaired
  <2> QED
    BY <2>2, <2>3
<1> QED
  BY Inductive, <1>1, PTL

\* As long as the external interrupt handler does not miss the TLB, every rfi
\* gives the interrupted code its own GR32 and up.
THEOREM RfiRestores ==
  ASSUME ~FaultsInHandlers
  PROVE  Spec => RfiRestoresFrame
<1>1. IInv /\ [Next]_vars => [Rfi => gr' = Top(interrupted).gr]_vars
  BY RfiFrames DEF IInv
<1> QED
  BY Inductive, <1>1, PTL DEF Spec, RfiRestoresFrame

-----------------------------------------------------------------------------
(* Interruptions implement InterruptedCode. *)

Running == [ip |-> ip, slot |-> slot, gr |-> gr]

\* A step of the code that runs leaves what is put aside alone.
LEMMA OnlyTheCurrent ==
  ASSUME TypeOK, UNCHANGED <<handlers, interrupted>>
  PROVE  /\ level \in Nat /\ level' = level
         /\ Code[level] = Running
         /\ Code' = [Code EXCEPT ![level] = Running']
         /\ Running' = Running => Code' = Code
<1>1. level \in Nat /\ level' = level
  BY HandlerKinds DEF level
<1>2. level \in 0 .. level
  BY <1>1
<1>3. Code[level] = Running
  BY <1>2 DEF Code, Running
<1>4. Code' = [Code EXCEPT ![level] = Running']
  BY <1>1, <1>2 DEF Code, Running
<1>5. Running' = Running => Code' = Code
  BY <1>1 DEF Code, Running
<1> QED
  BY <1>1, <1>3, <1>4, <1>5

LEMMA RefinesInit == Init => Interrupted!Init
<1> SUFFICES ASSUME Init PROVE Interrupted!Init
  OBVIOUS
<1>1. level = 0
  BY DEF Init, level
<1>2. Code = [d \in {0} |-> [ip |-> 0, slot |-> 0, gr |-> 0]]
  <2>1. 0 .. level = {0}
    BY <1>1
  <2> QED
    BY <1>1, <2>1 DEF Code, Init
<1> QED
  BY <1>1, <1>2 DEF Interrupted!Init, Interrupted!Beginning

LEMMA RefinesEnter ==
  ASSUME TypeOK, NEW kind \in {"external", "fault"}, Enter(kind), gr' = gr
  PROVE  Interrupted!PutAside
<1>1. /\ level \in Nat /\ level' = level + 1
      /\ \A i \in 1 .. level : interrupted'[i] = interrupted[i]
      /\ interrupted'[level + 1].ip = ip /\ interrupted'[level + 1].gr = gr
      /\ ip' = HandlerEntry /\ slot' = 0
  BY EnterTypes, HandlerKinds DEF level, Enter
<1>2. Code[level] = Running
  BY <1>1 DEF Code, Running
<1>3. ASSUME NEW d \in 0 .. level + 1
      PROVE  Code'[d] =
               IF d < level THEN Code[d]
               ELSE Interrupted!Beginning(IF d = level THEN Code[level].ip ELSE HandlerEntry,
                                          Code[level].gr)
  <2>1. CASE d < level
    <3>1. d \in 0 .. level /\ d \in 0 .. level' /\ d + 1 \in 1 .. level /\ d # level /\ d # level'
      BY <1>1, <2>1
    <3> QED
      BY <1>1, <2>1, <3>1 DEF Code
  <2>2. CASE d = level
    <3>1. d \in 0 .. level' /\ d # level' /\ ~(d < level)
      BY <1>1, <2>2
    <3> QED
      BY <1>1, <1>2, <2>2, <3>1 DEF Code, Running, Interrupted!Beginning
  <2>3. CASE d = level + 1
    <3>1. d \in 0 .. level' /\ d = level' /\ ~(d < level) /\ d # level
      BY <1>1, <2>3
    <3> QED
      BY <1>1, <1>2, <3>1 DEF Code, Running, Interrupted!Beginning
  <2> QED
    BY <1>1, <2>1, <2>2, <2>3
<1>4. Code' = [d \in 0 .. level + 1 |-> Code'[d]]
  BY <1>1 DEF Code
<1> QED
  BY <1>1, <1>3, <1>4 DEF Interrupted!PutAside

LEMMA RefinesRfi ==
  ASSUME IInv, ~FaultsInHandlers, Rfi
  PROVE  Interrupted!TakeUp
<1>1. /\ level \in Nat \ {0} /\ level' = level - 1
      /\ \A i \in 1 .. level - 1 : interrupted'[i] = interrupted[i]
  BY RfiTypes DEF IInv, level
<1>2. Top(handlers) = handlers[level] /\ Top(interrupted) = interrupted[level]
  BY DEF Top, level, IInv, TypeOK
<1>3. gr' = interrupted[level].gr
  BY <1>2, RfiFrames DEF IInv
<1>4. ip' = interrupted[level].ip /\ slot' = 0
  BY <1>1, <1>2 DEF Rfi, IInv, AddressesKept
<1>5. ASSUME NEW d \in 0 .. level - 1
      PROVE  Code'[d] = Code[d]
  <2>1. d \in 0 .. level' /\ d \in 0 .. level /\ d # level
    BY <1>1
  <2>2. CASE d = level - 1
    <3>1. d = level' /\ d + 1 = level
      BY <1>1, <2>2
    <3> QED
      BY <1>3, <1>4, <2>1, <3>1 DEF Code
  <2>3. CASE d # level - 1
    <3>1. d # level' /\ d + 1 \in 1 .. level - 1
      BY <1>1, <2>3
    <3> QED
      BY <1>1, <2>1, <3>1 DEF Code
  <2> QED
    BY <2>2, <2>3
<1>6. Code' = [d \in 0 .. level - 1 |-> Code'[d]]
  BY <1>1 DEF Code
<1> QED
  BY <1>1, <1>5, <1>6 DEF Interrupted!TakeUp

LEMMA RefinesStep ==
  ASSUME IInv, ~FaultsInHandlers, [Next]_vars
  PROVE  [Interrupted!Next]_Interrupted!codeVars
<1> USE DEF Interrupted!Next, Interrupted!codeVars, Interrupted!Runs
<1>0. TypeOK
  BY DEF IInv
<1>1. CASE ExternalInterrupt
  <2>1. Interrupted!PutAside
    BY <1>0, <1>1, RefinesEnter DEF ExternalInterrupt
  <2> QED
    BY <2>1
<1>2. CASE TranslationFault
  <2>1. Interrupted!PutAside
    BY <1>0, <1>2, RefinesEnter DEF TranslationFault
  <2> QED
    BY <2>1
<1>3. CASE Rfi
  <2>1. Interrupted!TakeUp
    BY <1>3, RefinesRfi
  <2> QED
    BY <2>1
<1>4. CASE NestedTranslationFault \/ NextBundle
  <2>1. /\ UNCHANGED <<handlers, interrupted>>
        /\ ip' \in Bundle /\ slot' = 0 /\ gr' = gr
    BY <1>4, Constants DEF NestedTranslationFault, NextBundle
  <2>2. level' = level /\ Code' = [Code EXCEPT ![level] = Running'] /\ Code[level] = Running
    BY <1>0, <2>1, OnlyTheCurrent
  <2>3. Running' = Interrupted!Beginning(ip', Code[level].gr)
    BY <2>1, <2>2 DEF Running, Interrupted!Beginning
  <2>4. Interrupted!NextBundle
    BY <2>1, <2>2, <2>3 DEF Interrupted!NextBundle
  <2> QED
    BY <2>4
<1>5. CASE NextSlot
  <2>1. /\ UNCHANGED <<handlers, interrupted>>
        /\ slot < 2 /\ slot' = slot + 1 /\ ip' = ip /\ gr' = gr
    BY <1>5 DEF NextSlot
  <2>2. level' = level /\ Code' = [Code EXCEPT ![level] = Running'] /\ Code[level] = Running
    BY <1>0, <2>1, OnlyTheCurrent
  <2>3. Code[level].slot < 2 /\ Running' = [Code[level] EXCEPT !.slot = @ + 1]
    BY <2>1, <2>2 DEF Running
  <2>4. Interrupted!NextSlot
    BY <2>2, <2>3 DEF Interrupted!NextSlot
  <2> QED
    BY <2>4
<1>6. CASE AllocateFrame
  <2>1. /\ UNCHANGED <<handlers, interrupted>>
        /\ Kind = "external" /\ gr' = level /\ ip' = ip /\ slot' = slot
    BY <1>6 DEF AllocateFrame
  <2>2. /\ level \in Nat /\ level' = level
        /\ Code' = [Code EXCEPT ![level] = Running'] /\ Code[level] = Running
    BY <1>0, <2>1, OnlyTheCurrent
  <2>3. level > 0
    BY <2>1, <2>2 DEF Kind
  <2>4. Running' = [Code[level] EXCEPT !.gr = level]
    BY <2>1, <2>2 DEF Running
  <2>5. Interrupted!OwnFrame
    BY <2>2, <2>3, <2>4 DEF Interrupted!OwnFrame
  <2> QED
    BY <2>5
<1>7. CASE WriteEOI \/ SetPsrI \/ SetPsrIc \/ UNCHANGED vars
  <2>1. UNCHANGED <<handlers, interrupted>> /\ ip' = ip /\ slot' = slot /\ gr' = gr
    BY <1>7 DEF WriteEOI, SetPsrI, SetPsrIc, vars
  <2>2. Running' = Running
    BY <2>1 DEF Running
  <2> QED
    BY <1>0, <2>1, <2>2, OnlyTheCurrent
<1>8. CASE Reset
  <2>1. level' = 0 /\ ip' = 0 /\ slot' = 0 /\ gr' = 0
    BY <1>8 DEF Reset, level
  <2>2. 0 .. level' = {0}
    BY <2>1
  <2>3. Code' = [d \in {0} |-> [ip |-> 0, slot |-> 0, gr |-> 0]]
    BY <2>1, <2>2 DEF Code
  <2>4. Interrupted!Reset
    BY <2>1, <2>3 DEF Interrupted!Reset, Interrupted!Beginning
  <2> QED
    BY <2>4
<1> QED
  BY <1>1, <1>2, <1>3, <1>4, <1>5, <1>6, <1>7, <1>8 DEF Next

\* Whatever mixture of interrupts and faults comes, code that is interrupted is
\* put aside and taken up again as it was, as long as external interrupt handlers
\* do not miss the TLB.
THEOREM InterruptedCodeIsSafe ==
  ASSUME ~FaultsInHandlers
  PROVE  Spec => ImplementsInterruptedCode
<1>1. IInv /\ [Next]_vars => [Interrupted!Next]_Interrupted!codeVars
  BY RefinesStep
<1> QED
  BY Inductive, RefinesInit, <1>1, PTL
     DEF Spec, ImplementsInterruptedCode, Interrupted!Spec
=============================================================================
