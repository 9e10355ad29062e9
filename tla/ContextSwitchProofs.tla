------------------------ MODULE ContextSwitchProofs ------------------------
(***************************************************************************)
(* What a thread finds in its registers, for any number of threads and any  *)
(* depth of frames, with and without the tick, as long as no tick comes in   *)
(* one of the Windows.                                                      *)
(***************************************************************************)
EXTENDS ContextSwitch, TLAPS

(* The registers a frame restores. *)
Held(f) == [pc |-> f.mepc, ra |-> f.ra, t0 |-> f.t0, s |-> f.s]

Same(r, away) ==
    r.pc = away.pc /\ r.ra = away.ra /\ r.s = away.s /\ away.t0 \in {Any, r.t0}

(* The thread left its code in CallSwitch. *)
Called(away) == away.t0 = Any /\ away.ra = away.pc /\ away.pc[1] = "app"

(* A core with the registers r and d frames below its sp is at a point from *)
(* which thread_context_load() leads back to the registers away; first is   *)
(* the frame the switch is filling.                                         *)
Resumes(r, d, first, away) ==
    \/ r.pc[1] = "app" /\ d = 0 /\ Same(r, away)
    \/ r.pc = Code("thread_bootstrap") /\ d = 0 /\ Same(r, away)
    \/ /\ r.pc \in {Code("swap"), Code("alloc")}
       /\ d = 0 /\ Called(away) /\ r.ra = away.ra /\ r.s = away.s
    \/ /\ r.pc = Code("set_mepc")
       /\ d = 1 /\ Called(away) /\ r.ra = away.ra /\ r.s = away.s /\ first.ra = away.ra
    \/ /\ r.pc = Code("save_mstatus")
       /\ d = 1 /\ r.ra = Code("schedule") /\ Same(Held(first), away)
       /\ Called(away)
    \/ /\ r.pc = Code("schedule")
       /\ d = 1 /\ first.mpie /\ Same(Held(first), away) /\ Called(away)
    \/ r.pc = Code("load_mepc") /\ d >= 1

(* The topmost of the n frames leads back to away, and so does every frame  *)
(* below one that was pushed in thread_context_load().                      *)
Leads(frames, n, away) ==
    /\ n \in 1 .. MaxFrames
    /\ \A d \in 1 .. n :
          d = n \/ frames[d + 1].mepc = Code("load_mepc") =>
              frames[d].mpie /\ Resumes(Held(frames[d]), d - 1, frames[1], away)

Waits(i) == sp_cur[i].of = i /\ Leads(stack[i], sp_cur[i].depth, left[i])

(* The core is in an active thread and can be resumed there. *)
OnPoint ==
    /\ active[threadcur] /\ core.mie /\ core.mpie /\ ~At("load_mepc")
    /\ Resumes(Registers(core), core.sp.depth, stack[threadcur][1], left[threadcur])

OnSave ==
    /\ active[threadcur] /\ core.mie /\ core.mpie
    /\ At("save") \/ At("save_mepc")
    /\ core.sp.depth = 1 /\ core.ra = Code("schedule")
    /\ LET away == left[threadcur]
           first == stack[threadcur][1]
       IN /\ Called(away) /\ first.ra = away.ra /\ core.mepc = away.pc
          /\ IF At("save") THEN core.s = away.s ELSE first.s = away.s

OnStore ==
    /\ active[threadcur]
    /\ At("store_sp") \/ At("store_cur")
    /\ Leads(stack[threadcur], core.sp.depth, left[threadcur])
    /\ \E n \in Created : active[n] /\ core.s = Locals(threadcur, n)
    /\ At("store_cur") => sp_cur[threadcur] = core.sp

OnLoad ==
    /\ active[threadcur]
    /\ At("load_mepc") \/ At("load_registers")
    /\ Leads(stack[threadcur], core.sp.depth, left[threadcur])
    /\ At("load_registers") => core.mepc = Top.mepc

OnEnd ==
    /\ ~active[threadcur] /\ core.mie /\ core.mpie /\ core.sp.depth = 0
    /\ \/ At("end_schedule")
       \/ At("hang")
       \/ /\ At("end_store_cur")
          /\ \E n \in Created \ {threadcur} : active[n] /\ core.s = Locals(threadcur, n)

OnHandOver ==
    At("load_sp") /\ active[threadcur] /\ core.s[3] = threadcur

CoreSound ==
    \/ Executing = threadcur /\ (OnPoint \/ OnSave \/ OnStore \/ OnLoad \/ OnEnd)
    \/ OnHandOver

WaitersSound ==
    \A i \in Created : active[i] /\ (i # threadcur \/ At("load_sp")) => Waits(i)

(* What holds of a frame, and of a slot nobody has been created in.         *)
SlotsSound ==
    /\ \A i \in Slots : stack[i][0] = OwnData
    /\ \A i \in Slots : \A d \in 1 .. MaxFrames :
          stack[i][d].mepc \in Addresses /\ stack[i][d].ra \in Addresses
    /\ \A i \in Slots \ Created : ~active[i] /\ left[i] = Fresh

SwitchInv == TypeOK /\ CoreSound /\ WaitersSound /\ SlotsSound

NoTickInWindows == ~(TickAttached /\ TickInWindows)

-----------------------------------------------------------------------------
(* Registers and frames. *)

(* The tag of a word tells what it is. *)
LEMMA Tags ==
    /\ \A i, k : App(i, k)[1] = "app" /\ App(i, k)[2] = i /\ App(i, k)[3] = k
    /\ \A l : Code(l)[1] = "code"
    /\ \A l, m : Code(l) = Code(m) => l = m
    /\ \A i, j : Locals(i, j)[2] = i /\ Locals(i, j)[3] = j
    /\ Zero[1] = "zero" /\ Any[1] = "any" /\ Mstatus[1] = "mstatus"
BY DEF App, Code, Locals, Zero, Any, Mstatus

LEMMA AppPlace ==
    ASSUME NEW a \in Addresses, a[1] = "app"
    PROVE  \E i \in Slots : \E k \in {0, 1} : a = App(i, k)
<1>1. a \in Places
    BY Tags DEF Addresses
<1> QED BY <1>1 DEF Places

LEMMA PlacesTyped ==
    /\ \A i \in Slots : \A k \in {0, 1} : App(i, k) \in Addresses
    /\ \A l \in Labels : Code(l) \in Addresses
    /\ Zero \in Addresses /\ Any \in Words /\ Mstatus \in Words
    /\ Addresses \subseteq Words
    /\ \A i \in Slots : \A j \in Slots : Locals(i, j) \in Words
BY DEF Addresses, Places, Words

Cores == [pc : Addresses, ra : Addresses, t0 : Words, s : Words, sp : StackPointers,
          mepc : Addresses, mscratch : Words, mie : BOOLEAN, mpie : BOOLEAN]

LEMMA Shape ==
    ASSUME SwitchInv
    PROVE  /\ core \in Cores /\ Executing \in Slots /\ core.sp.depth \in 0 .. MaxFrames
           /\ core.sp = Base(Executing, core.sp.depth)
           /\ MaxFrames \in Nat \ {0} /\ MaxThreads \in Nat \ {0}
           /\ threadcur \in Created /\ Created \subseteq Slots /\ threadcur \in Slots
           /\ stack \in [Slots -> [0 .. MaxFrames -> Frames]]
<1>1. core \in Cores /\ threadcur \in Created /\ threadcount \in 1 .. MaxThreads
    BY DEF SwitchInv, TypeOK, Cores
<1>2. core.sp \in StackPointers
    BY <1>1 DEF Cores
<1>3. /\ Executing \in Slots /\ core.sp.depth \in 0 .. MaxFrames
      /\ core.sp = Base(Executing, core.sp.depth)
    BY <1>2 DEF StackPointers, Base, Executing
<1>4. Created \subseteq Slots
    BY <1>1, ContextAssumption DEF Created, Slots
<1>5. stack \in [Slots -> [0 .. MaxFrames -> Frames]]
    BY DEF SwitchInv, TypeOK
<1> QED BY <1>1, <1>3, <1>4, <1>5, ContextAssumption

LEMMA Updated ==
    ASSUME NEW S, NEW D, NEW F, NEW st \in [S -> [D -> F]], NEW i \in S, NEW d \in D, NEW f \in F,
           NEW after, after = [st EXCEPT ![i][d] = f]
    PROVE  /\ after \in [S -> [D -> F]]
           /\ after[i] = [st[i] EXCEPT ![d] = f]
           /\ after[i][d] = f
           /\ \A e \in D : e # d => after[i][e] = st[i][e]
           /\ \A j \in S : j # i => after[j] = st[j]
<1>1. [st[i] EXCEPT ![d] = f] \in [D -> F]
    OBVIOUS
<1> QED BY <1>1

LEMMA OneFrame ==
    ASSUME SwitchInv, NEW i \in Slots, NEW d \in 0 .. MaxFrames, NEW f \in Frames,
           stack' = [stack EXCEPT ![i][d] = f]
    PROVE  /\ stack' \in [Slots -> [0 .. MaxFrames -> Frames]]
           /\ stack'[i] = [stack[i] EXCEPT ![d] = f]
           /\ stack'[i][d] = f
           /\ \A e \in 0 .. MaxFrames : e # d => stack'[i][e] = stack[i][e]
           /\ \A j \in Slots : j # i => stack'[j] = stack[j]
BY Shape, Updated

(* A step that leaves everything but the registers of the core.             *)
LEMMA CoreStep ==
    ASSUME SwitchInv, UNCHANGED <<table, threadcur, sp_cur, stack, left>>,
           core' \in Cores, CoreSound', At("load_sp")' => At("load_sp")
    PROVE  SwitchInv'
<1>1. TypeOK'
    BY DEF SwitchInv, TypeOK, Cores, table, Created
<1>2. WaitersSound'
    BY DEF SwitchInv, WaitersSound, Waits, table, Created
<1>3. SlotsSound'
    BY DEF SwitchInv, SlotsSound, table, Created
<1> QED BY <1>1, <1>2, <1>3 DEF SwitchInv

(* A step that writes one frame of the current thread.                      *)
LEMMA FrameStep ==
    ASSUME SwitchInv, UNCHANGED <<table, threadcur, sp_cur, left>>,
           NEW d \in 1 .. MaxFrames, NEW f \in Frames, f.mepc \in Addresses, f.ra \in Addresses,
           stack' = [stack EXCEPT ![threadcur][d] = f],
           core' \in Cores, CoreSound', ~At("load_sp"), ~At("load_sp")'
    PROVE  SwitchInv'
<1>1. /\ stack' \in [Slots -> [0 .. MaxFrames -> Frames]]
      /\ stack'[threadcur][d] = f
      /\ \A e \in 0 .. MaxFrames : e # d => stack'[threadcur][e] = stack[threadcur][e]
      /\ \A j \in Slots : j # threadcur => stack'[j] = stack[j]
      /\ threadcur \in Slots /\ Created \subseteq Slots /\ MaxFrames \in Nat
      /\ d \in 0 .. MaxFrames /\ d # 0
    <2>1. threadcur \in Slots /\ MaxFrames \in Nat /\ Created \subseteq Slots
        BY Shape
    <2>2. d \in 0 .. MaxFrames /\ d # 0
        BY <2>1
    <2> QED BY <2>1, <2>2, OneFrame
<1>2. TypeOK'
    BY <1>1 DEF SwitchInv, TypeOK, Cores, table, Created
<1>3. WaitersSound'
    BY <1>1 DEF SwitchInv, WaitersSound, Waits, table, Created
<1>4. SlotsSound'
    <2>1. \A i \in Slots : stack'[i][0] = OwnData
        <3>1. 0 \in 0 .. MaxFrames
            BY <1>1
        <3> QED BY <1>1, <3>1 DEF SwitchInv, SlotsSound
    <2>2. \A i \in Slots : \A e \in 1 .. MaxFrames :
              stack'[i][e].mepc \in Addresses /\ stack'[i][e].ra \in Addresses
        <3>1. \A e \in 1 .. MaxFrames : e \in 0 .. MaxFrames
            BY <1>1
        <3> QED BY <1>1, <3>1 DEF SwitchInv, SlotsSound
    <2> QED BY <2>1, <2>2 DEF SwitchInv, SlotsSound, table, Created
<1> QED BY <1>2, <1>3, <1>4 DEF SwitchInv

(* What the core becomes when it pops the topmost of n frames that lead to  *)
(* away.                                                                    *)
LEMMA PoppedLeads ==
    ASSUME NEW frames \in [0 .. MaxFrames -> Frames], NEW n, NEW away,
           Leads(frames, n, away), MaxFrames \in Nat,
           NEW g, g = [frames EXCEPT ![n] = Blank]
    PROVE  /\ n \in 1 .. MaxFrames /\ frames[n].mpie
           /\ Resumes(Held(frames[n]), n - 1, g[1], away)
           /\ frames[n].mepc = Code("load_mepc") => Leads(g, n - 1, away)
<1>1. n \in 1 .. MaxFrames /\ frames[n].mpie /\ Resumes(Held(frames[n]), n - 1, frames[1], away)
    BY DEF Leads
<1>2. \A e \in 0 .. MaxFrames : e # n => g[e] = frames[e]
    BY <1>1
<1>3. Resumes(Held(frames[n]), n - 1, g[1], away)
    <2>1. CASE n = 1
        BY <1>1, <2>1 DEF Resumes
    <2>2. CASE n # 1
        BY <1>1, <1>2, <2>2
    <2> QED BY <2>1, <2>2
<1>4. ASSUME frames[n].mepc = Code("load_mepc")
      PROVE  Leads(g, n - 1, away)
    <2>1. n - 1 \in 1 .. MaxFrames
        BY <1>1, <1>4, Tags DEF Resumes, Held
    <2>2. ASSUME NEW d \in 1 .. n - 1, d = n - 1 \/ g[d + 1].mepc = Code("load_mepc")
          PROVE  g[d].mpie /\ Resumes(Held(g[d]), d - 1, g[1], away)
        <3>1. g[d] = frames[d] /\ g[1] = frames[1]
            BY <1>1, <1>2, <2>1
        <3>2. frames[d + 1].mepc = Code("load_mepc")
            BY <1>1, <1>2, <1>4, <2>1, <2>2
        <3> QED BY <1>1, <3>1, <3>2 DEF Leads
    <2> QED BY <2>1, <2>2 DEF Leads
<1> QED BY <1>1, <1>3, <1>4

(* Which part of CoreSound holds where. *)
LEMMA Where ==
    ASSUME SwitchInv
    PROVE  /\ \/ core.pc[1] = "app"
              \/ \E l \in {"thread_bootstrap", "swap", "alloc", "set_mepc", "save_mstatus",
                           "schedule"} : At(l)
              => Executing = threadcur /\ OnPoint
           /\ At("save") \/ At("save_mepc") => Executing = threadcur /\ OnSave
           /\ At("store_sp") \/ At("store_cur") => Executing = threadcur /\ OnStore
           /\ At("load_mepc") \/ At("load_registers") => Executing = threadcur /\ OnLoad
           /\ At("end_schedule") \/ At("end_store_cur") \/ At("hang")
                  => Executing = threadcur /\ OnEnd
           /\ At("load_sp") => OnHandOver
<1>1. CoreSound
    BY DEF SwitchInv
<1>2. ASSUME OnPoint
      PROVE  \/ core.pc[1] = "app"
             \/ \E l \in {"thread_bootstrap", "swap", "alloc", "set_mepc", "save_mstatus",
                          "schedule"} : At(l)
    BY <1>2 DEF OnPoint, Resumes, Registers, At
<1> QED BY <1>1, <1>2, Tags DEF CoreSound, OnPoint, OnSave, OnStore, OnLoad, OnEnd, OnHandOver, At

-----------------------------------------------------------------------------
(* The steps of the kernel. *)

LEMMA FirstFrame ==
    ASSUME SwitchInv
    PROVE  /\ 1 \in 1 .. MaxFrames /\ stack[threadcur][1] \in Frames
           /\ stack[threadcur][1].mepc \in Addresses /\ stack[threadcur][1].ra \in Addresses
<1>1. 1 \in 1 .. MaxFrames /\ 1 \in 0 .. MaxFrames
    BY Shape
<1> QED BY <1>1, Shape DEF SwitchInv, SlotsSound

LEMMA SwapScratchStep ==
    ASSUME SwitchInv, SwapScratch PROVE SwitchInv'
<1>1. At("swap") /\ Executing = threadcur /\ OnPoint
    BY Where DEF SwapScratch, Kernel
<1>2. core' \in Cores /\ At("alloc")'
    BY Shape, PlacesTyped DEF SwapScratch, Kernel, Goto, Cores, At, Labels
<1>3. Executing' = threadcur' /\ OnPoint'
    BY <1>1, <1>2, Shape, Tags
    DEF SwapScratch, Kernel, Goto, Cores, At, OnlyCore, table, OnPoint, Resumes, Registers,
        Executing
<1> QED BY <1>2, <1>3, Tags, CoreStep DEF SwapScratch, OnlyCore, At, CoreSound

LEMMA AllocFrameStep ==
    ASSUME SwitchInv, AllocFrame PROVE SwitchInv'
<1>1. At("alloc") /\ Executing = threadcur /\ OnPoint
    BY Where DEF AllocFrame, Kernel
<1>2. core.sp.depth = 0 /\ Called(left[threadcur])
      /\ core.ra = left[threadcur].ra /\ core.s = left[threadcur].s
    BY <1>1, Tags DEF OnPoint, Resumes, Registers, At
<1> DEFINE f == [stack[threadcur][1] EXCEPT !.ra = core.ra]
<1>3. f \in Frames /\ f.mepc \in Addresses /\ f.ra \in Addresses /\ f.ra = core.ra
      /\ 1 \in 1 .. MaxFrames
    BY Shape, FirstFrame DEF Frames, Cores
<1>4. stack' = [stack EXCEPT ![threadcur][1] = f]
    BY <1>1, <1>2 DEF AllocFrame, Executing
<1>5. core' \in Cores /\ At("set_mepc")' /\ core'.sp.depth = 1 /\ core'.sp.of = core.sp.of
      /\ core'.ra = core.ra /\ core'.s = core.s /\ core'.mie = core.mie /\ core'.mpie = core.mpie
    <2>1. [core.sp EXCEPT !.depth = @ + 1] \in StackPointers
        BY <1>2, Shape DEF StackPointers, Cores
    <2>2. core' = [Goto("set_mepc") EXCEPT !.sp = [core.sp EXCEPT !.depth = @ + 1]]
        BY Shape DEF AllocFrame, Kernel, Goto, Cores
    <2>3. /\ [core.sp EXCEPT !.depth = @ + 1].depth = 1
          /\ [core.sp EXCEPT !.depth = @ + 1].of = core.sp.of
        BY <1>2, Shape DEF StackPointers, Cores
    <2> QED BY <2>1, <2>2, <2>3, Shape, PlacesTyped DEF Goto, Cores, At, Labels
<1>6. stack'[threadcur][1] = f
    <2>1. threadcur \in Slots /\ 1 \in 0 .. MaxFrames
        BY Shape
    <2> HIDE DEF f
    <2> QED BY <1>3, <1>4, <2>1, OneFrame
<1> HIDE DEF f
<1>7. Executing' = threadcur' /\ OnPoint'
    BY <1>1, <1>2, <1>3, <1>5, <1>6, Tags
    DEF AllocFrame, At, table, OnPoint, Resumes, Registers, Executing
<1>8. ~At("load_sp") /\ ~At("load_sp")'
    BY <1>1, <1>5, Tags DEF At
<1> QED BY <1>3, <1>4, <1>5, <1>7, <1>8, FrameStep DEF AllocFrame, CoreSound

LEMMA SetMepcStep ==
    ASSUME SwitchInv, SetMepc PROVE SwitchInv'
<1>1. At("set_mepc") /\ Executing = threadcur /\ OnPoint
    BY Where DEF SetMepc, Kernel
<1>2. core.sp.depth = 1 /\ Called(left[threadcur]) /\ core.ra = left[threadcur].ra
      /\ core.s = left[threadcur].s /\ stack[threadcur][1].ra = left[threadcur].ra
    BY <1>1, Tags DEF OnPoint, Resumes, Registers, At
<1>3. core' \in Cores /\ At("save")'
    BY Shape, PlacesTyped DEF SetMepc, Kernel, Goto, Cores, At, Labels
<1>4. Executing' = threadcur' /\ OnSave'
    BY <1>1, <1>2, <1>3, Shape
    DEF SetMepc, Kernel, Goto, Cores, At, OnlyCore, table, OnPoint, OnSave, Executing, Called
<1> QED BY <1>3, <1>4, Tags, CoreStep DEF SetMepc, OnlyCore, At, CoreSound

LEMMA SaveRegistersStep ==
    ASSUME SwitchInv, SaveRegisters PROVE SwitchInv'
<1>1. At("save") /\ Executing = threadcur /\ OnSave
    BY Where DEF SaveRegisters, Kernel
<1>2. core.sp.depth = 1 /\ core.s = left[threadcur].s
    BY <1>1 DEF OnSave
<1> DEFINE f == [stack[threadcur][1] EXCEPT !.s = core.s, !.t0 = core.mscratch]
<1>3. f \in Frames /\ f.mepc \in Addresses /\ f.ra \in Addresses /\ f.s = core.s
      /\ f.ra = stack[threadcur][1].ra /\ 1 \in 1 .. MaxFrames
    BY Shape, FirstFrame DEF Frames, Cores
<1>4. stack' = [stack EXCEPT ![threadcur][1] = f]
    BY <1>1, <1>2 DEF SaveRegisters, Executing
<1>5. core' \in Cores /\ At("save_mepc")' /\ core'.sp = core.sp /\ core'.ra = core.ra
      /\ core'.mepc = core.mepc /\ core'.mie = core.mie /\ core'.mpie = core.mpie
    BY Shape, PlacesTyped DEF SaveRegisters, Kernel, Goto, Cores, At, Labels
<1>6. stack'[threadcur][1] = f
    <2>1. threadcur \in Slots /\ 1 \in 0 .. MaxFrames
        BY Shape
    <2> HIDE DEF f
    <2> QED BY <1>3, <1>4, <2>1, OneFrame
<1> HIDE DEF f
<1>7. Executing' = threadcur' /\ OnSave'
    BY <1>1, <1>2, <1>3, <1>5, <1>6, Tags
    DEF SaveRegisters, At, table, OnSave, Executing
<1>8. ~At("load_sp") /\ ~At("load_sp")'
    BY <1>1, <1>5, Tags DEF At
<1> QED BY <1>3, <1>4, <1>5, <1>7, <1>8, FrameStep DEF SaveRegisters, CoreSound

LEMMA SaveMepcStep ==
    ASSUME SwitchInv, SaveMepc PROVE SwitchInv'
<1>1. At("save_mepc") /\ Executing = threadcur /\ OnSave
    BY Where DEF SaveMepc, Kernel
<1>2. /\ core.sp.depth = 1 /\ core.mepc = left[threadcur].pc /\ core.ra = Code("schedule")
      /\ Called(left[threadcur]) /\ stack[threadcur][1].ra = left[threadcur].ra
      /\ stack[threadcur][1].s = left[threadcur].s
    BY <1>1, Tags DEF OnSave, At
<1> DEFINE f == [stack[threadcur][1] EXCEPT !.mepc = core.mepc]
<1>3. f \in Frames /\ f.mepc \in Addresses /\ f.ra \in Addresses /\ f.s = stack[threadcur][1].s
      /\ f.ra = stack[threadcur][1].ra /\ f.mepc = core.mepc /\ 1 \in 1 .. MaxFrames
    BY Shape, FirstFrame DEF Frames, Cores
<1>4. stack' = [stack EXCEPT ![threadcur][1] = f]
    BY <1>1, <1>2 DEF SaveMepc, Executing
<1>5. core' \in Cores /\ At("save_mstatus")' /\ core'.sp = core.sp /\ core'.ra = core.ra
      /\ core'.mie = core.mie /\ core'.mpie = core.mpie
    BY Shape, PlacesTyped DEF SaveMepc, Kernel, Goto, Cores, At, Labels
<1>6. stack'[threadcur][1] = f
    <2>1. threadcur \in Slots /\ 1 \in 0 .. MaxFrames
        BY Shape
    <2> HIDE DEF f
    <2> QED BY <1>3, <1>4, <2>1, OneFrame
<1> HIDE DEF f
<1>7. Executing' = threadcur' /\ OnPoint'
    BY <1>1, <1>2, <1>3, <1>5, <1>6, Tags
    DEF SaveMepc, At, table, OnSave, OnPoint, Resumes, Registers, Same, Held, Called, Executing
<1>8. ~At("load_sp") /\ ~At("load_sp")'
    BY <1>1, <1>5, Tags DEF At
<1> QED BY <1>3, <1>4, <1>5, <1>7, <1>8, FrameStep DEF SaveMepc, CoreSound

LEMMA SaveMstatusStep ==
    ASSUME SwitchInv, SaveMstatus PROVE SwitchInv'
<1>1. At("save_mstatus") /\ Executing = threadcur /\ OnPoint
    BY Where DEF SaveMstatus, Kernel
<1>2. /\ core.sp.depth = 1 /\ core.ra = Code("schedule") /\ Called(left[threadcur])
      /\ Same(Held(stack[threadcur][1]), left[threadcur])
    BY <1>1, Tags DEF OnPoint, Resumes, Registers, At
<1> DEFINE f == [stack[threadcur][1] EXCEPT !.mpie = core.mpie]
<1>3. f \in Frames /\ f.mepc \in Addresses /\ f.ra \in Addresses
      /\ Held(f) = Held(stack[threadcur][1]) /\ f.mpie = core.mpie /\ 1 \in 1 .. MaxFrames
    BY Shape, FirstFrame DEF Frames, Cores, Held
<1>4. stack' = [stack EXCEPT ![threadcur][1] = f]
    BY <1>1, <1>2 DEF SaveMstatus, Executing
<1>5. core' \in Cores /\ At("schedule")' /\ core'.sp = core.sp
      /\ core'.mie = core.mie /\ core'.mpie = core.mpie
    BY <1>2, Shape, PlacesTyped DEF SaveMstatus, Kernel, Cores, At, Labels
<1>6. stack'[threadcur][1] = f
    <2>1. threadcur \in Slots /\ 1 \in 0 .. MaxFrames
        BY Shape
    <2> HIDE DEF f
    <2> QED BY <1>3, <1>4, <2>1, OneFrame
<1> HIDE DEF f
<1>7. Executing' = threadcur' /\ OnPoint'
    <2>1. /\ active'[threadcur'] /\ core'.mie /\ core'.mpie /\ ~At("load_mepc")'
          /\ Executing' = threadcur' /\ threadcur' = threadcur /\ left' = left
        BY <1>1, <1>5, Tags DEF SaveMstatus, table, OnPoint, At, Executing
    <2>2. stack'[threadcur][1].mpie /\ Same(Held(stack'[threadcur][1]), left[threadcur])
        BY <1>1, <1>2, <1>3, <1>6 DEF OnPoint
    <2> QED BY <1>2, <1>5, <2>1, <2>2 DEF At, OnPoint, Resumes, Registers
<1>8. ~At("load_sp") /\ ~At("load_sp")'
    BY <1>1, <1>5, Tags DEF At
<1> QED BY <1>3, <1>4, <1>5, <1>7, <1>8, FrameStep DEF SaveMstatus, CoreSound

LEMMA ChosenOnes ==
    ASSUME SwitchInv, active[threadcur], NEW n \in Candidates(threadcur)
    PROVE  n \in Created /\ active[n] /\ n \in Slots
BY Shape DEF Candidates

LEMMA ChooseNextStep ==
    ASSUME SwitchInv, ChooseNext PROVE SwitchInv'
<1>1. At("schedule") /\ Executing = threadcur /\ OnPoint
    BY Where DEF ChooseNext, Kernel
<1>2. /\ core.sp.depth = 1 /\ stack[threadcur][1].mpie /\ Called(left[threadcur])
      /\ Same(Held(stack[threadcur][1]), left[threadcur]) /\ active[threadcur]
    BY <1>1, Tags DEF OnPoint, Resumes, Registers, At
<1>3. PICK next \in Candidates(threadcur) :
          core' = [Goto("store_sp") EXCEPT !.s = Locals(threadcur, next)]
    BY DEF ChooseNext, Kernel
<1>4. next \in Created /\ active[next] /\ next \in Slots
    BY <1>2, ChosenOnes
<1>5. core' \in Cores /\ At("store_sp")' /\ core'.sp = core.sp
      /\ core'.s = Locals(threadcur, next)
    BY <1>3, <1>4, Shape, PlacesTyped DEF Goto, Cores, At, Labels
<1>6. Leads(stack[threadcur], 1, left[threadcur])
    BY <1>2, Shape DEF Leads, Resumes, Same, Held, Called
<1>7. Executing' = threadcur' /\ OnStore'
    BY <1>1, <1>2, <1>4, <1>5, <1>6, Tags
    DEF ChooseNext, OnlyCore, table, OnStore, At, Executing, Created
<1>8. ~At("load_sp")'
    BY <1>5, Tags DEF At
<1> QED BY <1>5, <1>7, <1>8, CoreStep DEF ChooseNext, OnlyCore, CoreSound

LEMMA StoreSpStep ==
    ASSUME SwitchInv, StoreSp PROVE SwitchInv'
<1>1. At("store_sp") /\ Executing = threadcur /\ OnStore
    BY Where DEF StoreSp, Kernel
<1>2. core.s[2] = threadcur /\ core.sp.depth \in 1 .. MaxFrames
    BY <1>1, Tags DEF OnStore, Leads
<1>3. core' \in Cores /\ At("store_cur")' /\ core'.sp = core.sp /\ core'.s = core.s
    BY Shape, PlacesTyped DEF StoreSp, Kernel, Goto, Cores, At, Labels
<1>4. sp_cur' = [sp_cur EXCEPT ![threadcur] = core.sp]
    BY <1>2 DEF StoreSp
<1>5. core.sp \in [of : Slots, depth : 1 .. MaxFrames]
    BY <1>2, Shape DEF Base
<1>6. TypeOK'
    BY <1>3, <1>4, <1>5, Shape DEF SwitchInv, TypeOK, Cores, StoreSp, table, Created
<1>7. sp_cur'[threadcur] = core.sp /\ \A i \in Created : i # threadcur => sp_cur'[i] = sp_cur[i]
    BY <1>4, Shape DEF SwitchInv, TypeOK
<1>8. ~At("load_sp") /\ ~At("load_sp")'
    BY <1>1, <1>3, Tags DEF At
<1>9. WaitersSound'
    BY <1>7, <1>8 DEF SwitchInv, WaitersSound, Waits, StoreSp, table, Created
<1>10. Executing' = threadcur' /\ OnStore'
    BY <1>1, <1>3, <1>7 DEF StoreSp, table, OnStore, At, Executing, Created
<1>11. SlotsSound'
    BY DEF SwitchInv, SlotsSound, StoreSp, table, Created
<1> QED BY <1>6, <1>9, <1>10, <1>11 DEF SwitchInv, CoreSound

LEMMA StoreCurStep ==
    ASSUME SwitchInv, StoreCur PROVE SwitchInv'
<1>1. /\ Executing = threadcur
      /\ \/ At("store_cur") /\ OnStore
         \/ At("end_store_cur") /\ OnEnd
    <2>1. At("store_cur") \/ At("end_store_cur")
        BY DEF StoreCur
    <2> QED BY <2>1, Where
<1>2. PICK n \in Created : active[n] /\ core.s = Locals(threadcur, n)
    BY <1>1, Tags DEF OnStore, OnEnd, At
<1>3. threadcur' = n /\ core.s[3] = n /\ n \in Slots
    BY <1>2, Tags, Shape DEF StoreCur
<1>4. core' \in Cores /\ At("load_sp")' /\ core'.sp = core.sp /\ core'.s = core.s
    BY Shape, PlacesTyped DEF StoreCur, Goto, Cores, At, Labels
<1>5. TypeOK'
    BY <1>2, <1>3, <1>4 DEF SwitchInv, TypeOK, Cores, StoreCur, table, Created
<1>6. active[threadcur] => Waits(threadcur)
    <2>1. CASE At("store_cur") /\ OnStore
        BY <1>1, <2>1 DEF OnStore, Waits, Executing
    <2>2. CASE At("end_store_cur") /\ OnEnd
        BY <2>2 DEF OnEnd
    <2> QED BY <1>1, <2>1, <2>2
<1>7. WaitersSound'
    BY <1>6 DEF SwitchInv, WaitersSound, Waits, StoreCur, table, Created
<1>8. CoreSound'
    BY <1>2, <1>3, <1>4 DEF CoreSound, OnHandOver, StoreCur, table, At
<1>9. SlotsSound'
    BY DEF SwitchInv, SlotsSound, StoreCur, table, Created
<1> QED BY <1>5, <1>7, <1>8, <1>9 DEF SwitchInv

LEMMA LoadSpStep ==
    ASSUME SwitchInv, LoadSp PROVE SwitchInv'
<1>1. At("load_sp") /\ OnHandOver
    BY Where DEF LoadSp, Kernel
<1>2. Waits(threadcur) /\ core.s[3] = threadcur /\ active[threadcur]
    BY <1>1, Shape DEF OnHandOver, SwitchInv, WaitersSound
<1>3. sp_cur[threadcur] \in StackPointers
    BY Shape DEF SwitchInv, TypeOK, StackPointers
<1>4. core' \in Cores /\ At("load_mepc")' /\ core'.sp = sp_cur[threadcur]
    BY <1>2, <1>3, Shape, PlacesTyped DEF LoadSp, Kernel, Goto, Cores, At, Labels
<1>5. ~At("load_registers")' /\ ~At("load_sp")'
    BY <1>4, Tags DEF At
<1>6. Executing' = threadcur' /\ OnLoad'
    BY <1>2, <1>4, <1>5 DEF LoadSp, OnlyCore, table, OnLoad, Waits, Executing, At
<1> QED BY <1>4, <1>5, <1>6, CoreStep DEF LoadSp, OnlyCore, CoreSound

LEMMA LoadMepcStep ==
    ASSUME SwitchInv, LoadMepc PROVE SwitchInv'
<1>1. At("load_mepc") /\ Executing = threadcur /\ OnLoad
    BY Where DEF LoadMepc, Kernel
<1>2. core.sp.depth \in 1 .. MaxFrames /\ Top.mepc \in Addresses
    BY <1>1, Shape DEF OnLoad, Leads, SwitchInv, SlotsSound, Top, Executing
<1>3. core' \in Cores /\ At("load_registers")' /\ core'.sp = core.sp /\ core'.mepc = Top.mepc
    BY <1>2, Shape, PlacesTyped DEF LoadMepc, Kernel, Goto, Cores, At, Labels
<1>4. ~At("load_sp")'
    BY <1>3, Tags DEF At
<1>5. Executing' = threadcur' /\ OnLoad'
    BY <1>1, <1>3 DEF LoadMepc, OnlyCore, table, OnLoad, Executing, At, Top
<1> QED BY <1>3, <1>4, <1>5, CoreStep DEF LoadMepc, OnlyCore, CoreSound

(* The core after mret, in the thread whose frame it loaded.                *)
LEMMA Loaded ==
    ASSUME NEW frames \in [0 .. MaxFrames -> Frames], NEW n, MaxFrames \in Nat,
           Leads(frames, n, left'[threadcur']),
           stack'[threadcur'] = [frames EXCEPT ![n] = Blank],
           Registers(core') = Held(frames[n]), core'.sp = Base(threadcur', n - 1),
           core'.mie = frames[n].mpie, core'.mpie, active'[threadcur']
    PROVE  CoreSound' /\ Executing' = threadcur' /\ ~At("load_sp")'
<1> DEFINE f == frames[n]
           away == left'[threadcur']
<1>1. /\ f.mpie /\ Resumes(Held(f), n - 1, stack'[threadcur'][1], away)
      /\ f.mepc = Code("load_mepc") => Leads(stack'[threadcur'], n - 1, away)
    BY PoppedLeads
<1>2. core'.sp.depth = n - 1 /\ core'.sp.of = threadcur' /\ core'.pc = f.mepc
    BY DEF Base, Registers, Held
<1>3. ~At("load_sp")'
    BY <1>1, <1>2, Tags DEF Resumes, Held, At
<1>4. CASE f.mepc = Code("load_mepc")
    <2>1. OnLoad'
        BY <1>1, <1>2, <1>4, Tags DEF OnLoad, At
    <2> QED BY <1>2, <1>3, <2>1 DEF CoreSound, Executing
<1>5. CASE f.mepc # Code("load_mepc")
    <2>1. OnPoint'
        BY <1>1, <1>2, <1>5 DEF OnPoint, At
    <2> QED BY <1>2, <1>3, <2>1 DEF CoreSound, Executing
<1> QED BY <1>4, <1>5

LEMMA LoadRegistersStep ==
    ASSUME SwitchInv, LoadRegisters PROVE SwitchInv'
<1> DEFINE d == core.sp.depth
           f == stack[threadcur][d]
<1>1. At("load_registers") /\ Executing = threadcur /\ OnLoad
    BY Where DEF LoadRegisters, Kernel
<1>2. /\ Leads(stack[threadcur], d, left[threadcur]) /\ d \in 1 .. MaxFrames
      /\ core.mepc = f.mepc /\ Top = f /\ active[threadcur]
    BY <1>1 DEF OnLoad, Leads, Top, Executing
<1>3. f \in Frames /\ f.mepc \in Addresses /\ f.ra \in Addresses /\ d \in 0 .. MaxFrames
    BY <1>2, Shape DEF SwitchInv, SlotsSound
<1>4. Blank \in Frames /\ Blank.mepc \in Addresses /\ Blank.ra \in Addresses
    BY PlacesTyped DEF Blank, Frames
<1>5. stack' = [stack EXCEPT ![threadcur][d] = Blank]
    BY <1>1 DEF LoadRegisters, Popped, Executing
<1>6. stack'[threadcur] = [stack[threadcur] EXCEPT ![d] = Blank]
    BY <1>3, <1>4, <1>5, Shape, OneFrame
<1>7. [core.sp EXCEPT !.depth = @ - 1] = Base(threadcur, d - 1)
      /\ Base(threadcur, d - 1) \in StackPointers
    <2>1. core.sp = [of |-> threadcur, depth |-> d]
        BY <1>1, Shape DEF Base
    <2>2. [core.sp EXCEPT !.depth = @ - 1] = [of |-> threadcur, depth |-> d - 1]
        BY <2>1
    <2> QED BY <1>2, <2>2, Shape DEF Base, StackPointers
<1>8. /\ core' \in Cores /\ Registers(core') = Held(f) /\ core'.sp = Base(threadcur, d - 1)
      /\ core'.mie = f.mpie /\ core'.mpie
    <2>1. core' = [core EXCEPT !.pc = f.mepc, !.ra = f.ra, !.t0 = f.t0, !.s = f.s,
                               !.sp = Base(threadcur, d - 1), !.mie = f.mpie, !.mpie = TRUE]
        BY <1>2, <1>7, Shape DEF LoadRegisters, Kernel, Cores
    <2> HIDE DEF f, d
    <2> QED BY <1>3, <1>7, <2>1, Shape, PlacesTyped DEF Cores, Registers, Held, Frames
<1>9. CoreSound' /\ ~At("load_sp")'
    BY <1>2, <1>6, <1>8, Shape, Loaded DEF LoadRegisters, table
<1>10. ~At("load_sp")
    BY <1>1, Tags DEF At
<1> HIDE DEF f, d
<1> QED BY <1>2, <1>4, <1>5, <1>8, <1>9, <1>10, FrameStep DEF LoadRegisters

LEMMA EndScheduleStep ==
    ASSUME SwitchInv, EndSchedule PROVE SwitchInv'
<1>1. At("end_schedule") /\ Executing = threadcur /\ OnEnd
    BY Where DEF EndSchedule, Kernel
<1>2. PICK next \in Candidates(threadcur) :
          core' = IF next = threadcur THEN Goto("hang")
                  ELSE [Goto("end_store_cur") EXCEPT !.s = Locals(threadcur, next)]
    BY DEF EndSchedule, Kernel
<1>3. core' \in Cores /\ Executing' = threadcur' /\ OnEnd' /\ ~At("load_sp")'
    <2>1. CASE next = threadcur
        <3>1. core' \in Cores /\ At("hang")' /\ core'.sp = core.sp
              /\ core'.mie = core.mie /\ core'.mpie = core.mpie
            BY <1>2, <2>1, Shape, PlacesTyped DEF Goto, Cores, At, Labels
        <3> QED BY <1>1, <3>1, Tags DEF At, EndSchedule, OnlyCore, table, OnEnd, Executing
    <2>2. CASE next # threadcur
        <3>1. next \in Created /\ active[next] /\ next \in Slots
            BY <2>2, Shape DEF Candidates
        <3>2. core' \in Cores /\ At("end_store_cur")' /\ core'.s = Locals(threadcur, next)
              /\ core'.sp = core.sp /\ core'.mie = core.mie /\ core'.mpie = core.mpie
            BY <1>2, <2>2, <3>1, Shape, PlacesTyped DEF Goto, Cores, At, Labels
        <3> QED BY <1>1, <2>2, <3>1, <3>2, Tags
                DEF At, EndSchedule, OnlyCore, table, OnEnd, Executing, Created
    <2> QED BY <2>1, <2>2
<1> QED BY <1>3, CoreStep DEF EndSchedule, OnlyCore, CoreSound

-----------------------------------------------------------------------------
(* The steps of a thread's code. *)

Departures == [pc : Addresses, ra : Addresses, t0 : Words, s : Words]

(* A step of the current thread's code that moves it on.                    *)
LEMMA CodeStep ==
    ASSUME SwitchInv, UNCHANGED <<table, threadcur, sp_cur, stack>>,
           NEW r \in Departures, left' = [left EXCEPT ![threadcur] = r],
           core' \in Cores, CoreSound', ~At("load_sp"), ~At("load_sp")'
    PROVE  SwitchInv'
<1>1. left' \in [Slots -> Departures] /\ \A i \in Slots : i # threadcur => left'[i] = left[i]
    BY Shape DEF SwitchInv, TypeOK, Departures
<1>2. TypeOK'
    BY <1>1 DEF SwitchInv, TypeOK, Cores, table, Created, Departures
<1>3. WaitersSound'
    BY <1>1, Shape DEF SwitchInv, WaitersSound, Waits, table, Created
<1>4. SlotsSound'
    BY <1>1, Shape DEF SwitchInv, SlotsSound, table, Created
<1> QED BY <1>2, <1>3, <1>4 DEF SwitchInv

LEMMA InCode ==
    ASSUME SwitchInv, InThread
    PROVE  /\ Executing = threadcur /\ active[threadcur] /\ core.mie /\ core.mpie
           /\ core.sp.depth = 0 /\ Same(Registers(core), left[threadcur])
           /\ ~At("load_sp")
<1>1. Executing = threadcur /\ OnPoint
    BY Where DEF InThread
<1> QED BY <1>1, Tags DEF InThread, OnPoint, Resumes, Registers, At

LEMMA BootstrapStep ==
    ASSUME SwitchInv, thread_bootstrap PROVE SwitchInv'
<1>1. /\ Executing = threadcur /\ active[threadcur] /\ core.mie /\ core.mpie
      /\ core.sp.depth = 0 /\ Same(Registers(core), left[threadcur]) /\ ~At("load_sp")
    BY InCode DEF InThread, thread_bootstrap
<1> DEFINE r == [left[threadcur] EXCEPT !.pc = App(threadcur, 0)]
<1>2. core' \in Cores /\ core'.pc = App(threadcur, 0)
      /\ core' = [core EXCEPT !.pc = App(threadcur, 0)]
    BY Shape, PlacesTyped DEF thread_bootstrap, Cores
<1>3. r \in Departures /\ left' = [left EXCEPT ![threadcur] = r]
    <2>1. App(threadcur, 0) \in Addresses
        BY Shape, PlacesTyped
    <2>2. left[threadcur] \in Departures
        BY Shape DEF SwitchInv, TypeOK, Departures
    <2> QED BY <1>1, <1>2, <2>1, <2>2 DEF Departures, thread_bootstrap
<1>4. left'[threadcur] = r
    BY <1>3, Shape DEF SwitchInv, TypeOK
<1>5. Same(Registers(core'), r)
    BY <1>1, <1>2, Shape DEF Same, Registers, Cores, SwitchInv, TypeOK
<1>6. ~At("load_sp")' /\ ~At("load_mepc")' /\ core'.pc[1] = "app"
    BY <1>2, Tags DEF At
<1> HIDE DEF r
<1>7. Executing' = threadcur' /\ OnPoint'
    BY <1>1, <1>2, <1>4, <1>5, <1>6, Shape
    DEF thread_bootstrap, table, OnPoint, Resumes, Registers, Executing, Cores
<1> QED BY <1>1, <1>2, <1>3, <1>6, <1>7, CodeStep DEF thread_bootstrap, CoreSound

LEMMA WorkStep ==
    ASSUME SwitchInv, Work PROVE SwitchInv'
<1>1. /\ Executing = threadcur /\ active[threadcur] /\ core.mie /\ core.mpie
      /\ core.sp.depth = 0 /\ ~At("load_sp")
    BY InCode DEF InThread, Work
<1> DEFINE w == App(core.pc[2], 1 - core.pc[3])
           r == Registers(core')
<1>2. w \in Addresses /\ w \in Words /\ w[1] = "app"
    <2>1. core.pc \in Addresses /\ core.pc[1] = "app"
        BY Shape DEF Work, Cores
    <2>2. PICK i \in Slots, k \in {0, 1} : core.pc = App(i, k)
        BY <2>1, AppPlace
    <2>3. w = App(i, 1 - k) /\ 1 - k \in {0, 1}
        BY <2>2, Tags
    <2> QED BY <2>3, PlacesTyped, Tags
<1>3. core' = [core EXCEPT !.pc = w, !.ra = w, !.t0 = w, !.s = w]
    BY DEF Work
<1> HIDE DEF w
<1>4. core' \in Cores /\ core'.pc = w /\ core'.sp = core.sp
      /\ core'.mie = core.mie /\ core'.mpie = core.mpie
    BY <1>2, <1>3, Shape DEF Cores
<1>5. r \in Departures /\ left' = [left EXCEPT ![threadcur] = r]
    BY <1>1, <1>4, PlacesTyped DEF Departures, Registers, Cores, Work
<1>6. Same(r, left'[threadcur])
    BY <1>5, Shape DEF SwitchInv, TypeOK, Same
<1>7. ~At("load_sp")' /\ ~At("load_mepc")' /\ r.pc[1] = "app"
    BY <1>2, <1>4, Tags DEF At, Registers
<1> HIDE DEF r
<1>8. Executing' = threadcur' /\ OnPoint'
    BY <1>1, <1>4, <1>6, <1>7 DEF r, Work, table, OnPoint, Resumes, Executing
<1> QED BY <1>1, <1>4, <1>5, <1>7, <1>8, CodeStep DEF Work, CoreSound

LEMMA CallSwitchStep ==
    ASSUME SwitchInv, CallSwitch PROVE SwitchInv'
<1>1. /\ Executing = threadcur /\ active[threadcur] /\ core.mie /\ core.mpie
      /\ core.sp.depth = 0 /\ ~At("load_sp")
    BY InCode DEF InThread, CallSwitch
<1> DEFINE w == App(core.pc[2], 1 - core.pc[3])
           r == [pc |-> w, ra |-> w, t0 |-> Any, s |-> core.s]
<1>2. w \in Addresses /\ w[1] = "app"
    <2>1. core.pc \in Addresses /\ core.pc[1] = "app"
        BY Shape DEF CallSwitch, Cores
    <2>2. PICK i \in Slots, k \in {0, 1} : core.pc = App(i, k)
        BY <2>1, AppPlace
    <2>3. w = App(i, 1 - k) /\ 1 - k \in {0, 1}
        BY <2>2, Tags
    <2> QED BY <2>3, PlacesTyped, Tags
<1>3. core' = [core EXCEPT !.pc = Code("swap"), !.ra = w] /\ left' = [left EXCEPT ![threadcur] = r]
    BY <1>1 DEF CallSwitch
<1> HIDE DEF w
<1>4. core' \in Cores /\ At("swap")' /\ core'.sp = core.sp /\ core'.ra = w /\ core'.s = core.s
      /\ core'.mie = core.mie /\ core'.mpie = core.mpie
    BY <1>2, <1>3, Shape, PlacesTyped DEF Cores, At, Labels
<1>5. r \in Departures /\ Called(r) /\ r.ra = w /\ r.s = core.s
    BY <1>2, Shape, PlacesTyped DEF Departures, Called, Cores
<1> HIDE DEF r
<1>6. left'[threadcur] = r
    BY <1>3, Shape DEF SwitchInv, TypeOK
<1>7. ~At("load_sp")' /\ ~At("load_mepc")'
    BY <1>4, Tags DEF At
<1>8. Executing' = threadcur' /\ OnPoint'
    BY <1>1, <1>4, <1>5, <1>6, <1>7
    DEF CallSwitch, table, OnPoint, Resumes, Registers, Executing, At
<1> QED BY <1>1, <1>3, <1>4, <1>5, <1>7, <1>8, CodeStep DEF CallSwitch, CoreSound

LEMMA ThreadReturnsStep ==
    ASSUME SwitchInv, ThreadReturns PROVE SwitchInv'
<1>1. /\ Executing = threadcur /\ active[threadcur] /\ core.mie /\ core.mpie
      /\ core.sp.depth = 0 /\ ~At("load_sp")
    BY InCode DEF InThread, ThreadReturns
<1>2. core' \in Cores /\ At("end_schedule")' /\ core'.sp = core.sp
      /\ core'.mie = core.mie /\ core'.mpie = core.mpie
    BY Shape, PlacesTyped DEF ThreadReturns, Goto, Cores, At, Labels
<1>3. active' = [active EXCEPT ![threadcur] = FALSE]
    BY <1>1 DEF ThreadReturns
<1>4. /\ active' \in [Slots -> BOOLEAN] /\ ~active'[threadcur]
      /\ \A i \in Slots : active'[i] => active[i] /\ i # threadcur
    BY <1>3, Shape DEF SwitchInv, TypeOK
<1>5. ~At("load_sp")'
    BY <1>2, Tags DEF At
<1>6. TypeOK'
    BY <1>2, <1>4 DEF SwitchInv, TypeOK, Cores, ThreadReturns, Created
<1>7. WaitersSound'
    BY <1>1, <1>4, <1>5, Shape DEF SwitchInv, WaitersSound, Waits, ThreadReturns, Created
<1>8. SlotsSound'
    BY <1>4 DEF SwitchInv, SlotsSound, ThreadReturns, Created
<1>9. CoreSound'
    BY <1>1, <1>2, <1>4, Tags DEF CoreSound, OnEnd, ThreadReturns, Executing, At
<1> QED BY <1>6, <1>7, <1>8, <1>9 DEF SwitchInv

LEMMA CreateStep ==
    ASSUME SwitchInv, thread_create PROVE SwitchInv'
<1>1. /\ Executing = threadcur /\ OnPoint
      /\ core.sp.depth = 0 /\ ~At("load_sp")
    BY InCode, Where DEF InThread, thread_create
<1> DEFINE n == threadcount
<1>2. /\ n \in Slots /\ n \notin Created /\ n # threadcur /\ n + 1 \in 1 .. MaxThreads
      /\ Created' = Created \cup {n} /\ 1 \in 1 .. MaxFrames /\ 1 \in 0 .. MaxFrames
      /\ 0 \in 0 .. MaxFrames
    BY Shape DEF thread_create, SwitchInv, TypeOK, Slots, Created
<1>3. /\ thread_context_init \in Frames /\ thread_context_init.mepc \in Addresses
      /\ thread_context_init.ra \in Addresses
    BY PlacesTyped DEF thread_context_init, Frames, Labels
<1>4. /\ stack' \in [Slots -> [0 .. MaxFrames -> Frames]]
      /\ stack'[n][1] = thread_context_init
      /\ \A e \in 0 .. MaxFrames : e # 1 => stack'[n][e] = stack[n][e]
      /\ \A j \in Slots : j # n => stack'[j] = stack[j]
    <2>1. stack' = [stack EXCEPT ![n][1] = thread_context_init]
        BY DEF thread_create
    <2>2. n \in Slots /\ 1 \in 0 .. MaxFrames /\ thread_context_init \in Frames
        BY <1>2, <1>3
    <2> HIDE DEF n
    <2> QED BY <2>1, <2>2, OneFrame
<1>5. Base(n, 1) \in [of : Slots, depth : 1 .. MaxFrames]
    BY <1>2 DEF Base
<1>6. /\ sp_cur' \in [Slots -> [of : Slots, depth : 1 .. MaxFrames]]
      /\ sp_cur'[n] = Base(n, 1) /\ \A j \in Slots : j # n => sp_cur'[j] = sp_cur[j]
      /\ active' \in [Slots -> BOOLEAN]
      /\ active'[n] /\ \A j \in Slots : j # n => active'[j] = active[j]
    BY <1>2, <1>5 DEF thread_create, SwitchInv, TypeOK
<1>7. left[n] = Fresh
    BY <1>2 DEF SwitchInv, SlotsSound
<1>8. TypeOK'
    BY <1>2, <1>4, <1>6 DEF SwitchInv, TypeOK, thread_create
<1>9. sp_cur'[n].of = n /\ Leads(stack'[n], sp_cur'[n].depth, left'[n])
    <2>1. Leads(stack'[n], 1, left[n])
        BY <1>2, <1>4, <1>7 DEF Leads, Resumes, thread_context_init, Held, Same, Fresh
    <2> QED BY <1>6, <2>1 DEF Base, thread_create
<1>10. WaitersSound'
    <2>1. \A i \in Created : i \in Slots /\ i # n
        BY <1>2, Shape
    <2> QED BY <1>1, <1>2, <1>4, <1>6, <1>9, <2>1
            DEF SwitchInv, WaitersSound, Waits, thread_create, At
<1>11. SlotsSound'
    <2>1. \A i \in Slots : stack'[i][0] = OwnData
        BY <1>2, <1>4 DEF SwitchInv, SlotsSound
    <2>2. \A i \in Slots : \A e \in 1 .. MaxFrames :
              stack'[i][e].mepc \in Addresses /\ stack'[i][e].ra \in Addresses
        <3>1. \A e \in 1 .. MaxFrames : e \in 0 .. MaxFrames
            BY Shape
        <3> QED BY <1>3, <1>4, <3>1 DEF SwitchInv, SlotsSound
    <2> QED BY <1>2, <1>6, <2>1, <2>2 DEF SwitchInv, SlotsSound, thread_create
<1>12. CoreSound'
    BY <1>1, <1>2, <1>4, <1>6, Shape
    DEF CoreSound, OnPoint, thread_create, Executing, At
<1> QED BY <1>8, <1>10, <1>11, <1>12 DEF SwitchInv

-----------------------------------------------------------------------------
(* The tick. *)

LEMMA TrapShape ==
    ASSUME SwitchInv
    PROVE  /\ TrapFrame \in Frames /\ Held(TrapFrame) = Registers(core)
           /\ TrapFrame.mepc = core.pc /\ TrapFrame.mpie = core.mie
           /\ TrapFrame.mepc \in Addresses /\ TrapFrame.ra \in Addresses
           /\ Blank \in Frames /\ Blank.mepc \in Addresses /\ Blank.ra \in Addresses
BY Shape, PlacesTyped DEF TrapFrame, Held, Registers, Frames, Cores, Blank

(* The core where a tick may come. *)
LEMMA TickPoint ==
    ASSUME SwitchInv, NoTickInWindows, thread_tick_handler
    PROVE  /\ Executing = threadcur /\ core.mie /\ core.sp.depth < MaxFrames
           /\ OnPoint \/ (At("load_mepc") /\ OnLoad) \/ OnEnd
           /\ ~At("load_sp") /\ ~At("load_registers")
<1>1. core.pc \notin Windows
    BY DEF thread_tick_handler, NoTickInWindows
<1>2. \A l \in {"save", "save_mepc", "store_sp", "store_cur", "load_sp", "load_registers"} : ~At(l)
    BY <1>1 DEF Windows, At
<1>3. /\ Executing = threadcur
      /\ OnPoint \/ (At("load_mepc") /\ OnLoad) \/ OnEnd
    BY <1>2 DEF SwitchInv, CoreSound, OnSave, OnStore, OnLoad, OnHandOver
<1> QED BY <1>2, <1>3 DEF thread_tick_handler

(* A thread the tick takes the core from has its place on its stack.        *)
LEMMA PushedLeads ==
    ASSUME SwitchInv, Executing = threadcur, core.mie, core.sp.depth < MaxFrames,
           OnPoint \/ (At("load_mepc") /\ OnLoad),
           NEW g, g = [stack[threadcur] EXCEPT ![core.sp.depth + 1] = TrapFrame]
    PROVE  Leads(g, core.sp.depth + 1, left[threadcur])
<1> DEFINE d == core.sp.depth
           frames == stack[threadcur]
           away == left[threadcur]
<1>1. /\ d \in 0 .. MaxFrames /\ MaxFrames \in Nat /\ d + 1 \in 1 .. MaxFrames
      /\ d + 1 \in 0 .. MaxFrames /\ frames \in [0 .. MaxFrames -> Frames]
    BY Shape
<1>2. g[d + 1] = TrapFrame /\ \A e \in 0 .. MaxFrames : e # d + 1 => g[e] = frames[e]
    BY <1>1
<1>3. CASE OnPoint
    <2>1. Resumes(Registers(core), d, frames[1], away) /\ ~At("load_mepc")
        BY <1>3 DEF OnPoint
    <2>2. d \in {0, 1}
        BY <2>1 DEF Resumes, Registers, At
    <2>3. Resumes(Registers(core), d, g[1], away)
        <3>1. CASE d = 0
            BY <2>1, <3>1 DEF Resumes
        <3>2. CASE d = 1
            BY <1>1, <1>2, <2>1, <3>2
        <3> QED BY <2>2, <3>1, <3>2
    <2>4. ASSUME NEW e \in 1 .. d + 1, e = d + 1 \/ g[e + 1].mepc = Code("load_mepc")
          PROVE  e = d + 1
        <3>1. ASSUME e # d + 1 PROVE FALSE
            <4>1. e + 1 = d + 1
                BY <2>2, <3>1
            <4> QED BY <1>2, <2>1, <2>4, <3>1, <4>1, TrapShape DEF At
        <3> QED BY <3>1
    <2>5. g[d + 1].mpie /\ Resumes(Held(g[d + 1]), (d + 1) - 1, g[1], away)
        <3>1. (d + 1) - 1 = d
            BY <1>1
        <3> QED BY <1>2, <2>3, <3>1, TrapShape
    <2> QED BY <1>1, <2>4, <2>5 DEF Leads
<1>4. CASE At("load_mepc") /\ OnLoad
    <2>1. Leads(frames, d, away) /\ d \in 1 .. MaxFrames
        BY <1>4 DEF OnLoad, Leads
    <2>2. g[1] = frames[1]
        BY <1>1, <1>2, <2>1
    <2>3. ASSUME NEW e \in 1 .. d + 1, e = d + 1 \/ g[e + 1].mepc = Code("load_mepc")
          PROVE  g[e].mpie /\ Resumes(Held(g[e]), e - 1, g[1], away)
        <3>1. CASE e = d + 1
            <4>1. Held(g[e]).pc = Code("load_mepc") /\ e - 1 >= 1
                BY <1>1, <1>2, <1>4, <2>1, <3>1, TrapShape DEF Held, At
            <4> QED BY <1>2, <3>1, <4>1, TrapShape DEF Resumes
        <3>2. CASE e # d + 1
            <4>1. e \in 1 .. d /\ g[e] = frames[e]
                BY <1>1, <1>2, <3>2
            <4>2. e = d \/ frames[e + 1].mepc = Code("load_mepc")
                BY <1>1, <1>2, <2>3, <3>2
            <4> QED BY <2>1, <2>2, <4>1, <4>2 DEF Leads
        <3> QED BY <3>1, <3>2
    <2> QED BY <1>1, <2>3 DEF Leads
<1> QED BY <1>3, <1>4

Pushed(frames, d) == [frames EXCEPT ![d] = TrapFrame]
Dropped(frames, d) == [frames EXCEPT ![d] = Blank]

(* The stacks when the tick has pushed a frame and popped the one at p.     *)
Exchanged(i, top, p) == Popped(p, [stack EXCEPT ![i][top] = TrapFrame])

LEMMA SameExchanged ==
    ASSUME SwitchInv, NEW i \in Slots, NEW top \in 1 .. MaxFrames,
           NEW after, after = Exchanged(i, top, Base(i, top))
    PROVE  /\ after \in [Slots -> [0 .. MaxFrames -> Frames]]
           /\ \A e \in 0 .. MaxFrames : e # top => after[i][e] = stack[i][e]
           /\ after[i][top] = Blank
           /\ \A j \in Slots : j # i => after[j] = stack[j]
<1>1. stack \in [Slots -> [0 .. MaxFrames -> Frames]] /\ top \in 0 .. MaxFrames
      /\ Blank \in Frames
    BY Shape, TrapShape
<1> DEFINE g == [stack[i] EXCEPT ![top] = Blank]
<1>2. g \in [0 .. MaxFrames -> Frames] /\ g[top] = Blank
      /\ \A e \in 0 .. MaxFrames : e # top => g[e] = stack[i][e]
    BY <1>1
<1>3. after = [stack EXCEPT ![i] = g]
    BY <1>1 DEF Exchanged, Popped, Base
<1> HIDE DEF g
<1>4. after \in [Slots -> [0 .. MaxFrames -> Frames]] /\ after[i] = g
      /\ \A j \in Slots : j # i => after[j] = stack[j]
    BY <1>1, <1>2, <1>3
<1> QED BY <1>2, <1>4

LEMMA OtherExchanged ==
    ASSUME SwitchInv, NEW i \in Slots, NEW top \in 1 .. MaxFrames,
           NEW p \in StackPointers, p.of # i,
           NEW after, after = Exchanged(i, top, p)
    PROVE  /\ after \in [Slots -> [0 .. MaxFrames -> Frames]]
           /\ after[i] = Pushed(stack[i], top)
           /\ after[p.of] = Dropped(stack[p.of], p.depth)
           /\ \A j \in Slots : j \notin {i, p.of} => after[j] = stack[j]
           /\ \A j \in Slots : \A e \in 0 .. MaxFrames :
                  \/ after[j][e] = stack[j][e]
                  \/ j = i /\ e = top /\ after[j][e] = TrapFrame
                  \/ e = p.depth /\ after[j][e] = Blank
<1> DEFINE g == [stack[i] EXCEPT ![top] = TrapFrame]
           h == [stack[p.of] EXCEPT ![p.depth] = Blank]
<1>1. /\ stack \in [Slots -> [0 .. MaxFrames -> Frames]] /\ top \in 0 .. MaxFrames
      /\ Blank \in Frames /\ TrapFrame \in Frames
      /\ p.of \in Slots /\ p.depth \in 0 .. MaxFrames
    BY Shape, TrapShape DEF StackPointers
<1>2. /\ g \in [0 .. MaxFrames -> Frames] /\ g[top] = TrapFrame
      /\ \A e \in 0 .. MaxFrames : e # top => g[e] = stack[i][e]
    BY <1>1
<1>3. /\ h \in [0 .. MaxFrames -> Frames] /\ h[p.depth] = Blank
      /\ \A e \in 0 .. MaxFrames : e # p.depth => h[e] = stack[p.of][e]
    BY <1>1
<1>4. after = [stack EXCEPT ![i] = g, ![p.of] = h]
    BY <1>1 DEF Exchanged, Popped
<1> HIDE DEF g, h
<1>5. /\ after \in [Slots -> [0 .. MaxFrames -> Frames]] /\ after[i] = g /\ after[p.of] = h
      /\ \A j \in Slots : j \notin {i, p.of} => after[j] = stack[j]
    BY <1>1, <1>2, <1>3, <1>4
<1>6. ASSUME NEW j \in Slots, NEW e \in 0 .. MaxFrames
      PROVE  \/ after[j][e] = stack[j][e]
             \/ j = i /\ e = top /\ after[j][e] = TrapFrame
             \/ e = p.depth /\ after[j][e] = Blank
    BY <1>2, <1>3, <1>5
<1> QED BY <1>5, <1>6 DEF g, h, Pushed, Dropped

(* The tick leaves the core to the thread it interrupted. *)
LEMMA TickReturns ==
    ASSUME SwitchInv, NoTickInWindows, thread_tick_handler,
           NEW d, d = core.sp.depth,
           sp_cur' = [sp_cur EXCEPT ![threadcur] = Base(threadcur, d + 1)],
           threadcur' = threadcur, UNCHANGED <<table, left>>,
           stack' = Exchanged(threadcur, d + 1, Base(threadcur, d + 1)),
           core' = [pc |-> core.pc, ra |-> core.ra, t0 |-> core.t0, s |-> core.s,
                    sp |-> Base(threadcur, d), mepc |-> core.pc, mscratch |-> Zero,
                    mie |-> core.mie, mpie |-> TRUE]
    PROVE  SwitchInv'
<1>1. /\ Executing = threadcur /\ core.mie /\ ~At("load_sp") /\ ~At("load_registers")
      /\ OnPoint \/ (At("load_mepc") /\ OnLoad) \/ OnEnd
    BY TickPoint
<1>2. /\ d \in 0 .. MaxFrames /\ d + 1 \in 1 .. MaxFrames /\ d + 1 \in 0 .. MaxFrames
      /\ threadcur \in Slots /\ Created \subseteq Slots /\ MaxFrames \in Nat
    BY Shape, TickPoint
<1>4. /\ stack' \in [Slots -> [0 .. MaxFrames -> Frames]]
      /\ \A e \in 0 .. MaxFrames : e # d + 1 => stack'[threadcur][e] = stack[threadcur][e]
      /\ stack'[threadcur][d + 1] = Blank
      /\ \A j \in Slots : j # threadcur => stack'[j] = stack[j]
    BY <1>2, SameExchanged
<1>5. core' \in Cores /\ Registers(core') = Registers(core) /\ core'.sp = core.sp
      /\ core'.pc = core.pc /\ core'.s = core.s /\ core'.mie /\ core'.mpie
    BY <1>1, Shape, PlacesTyped DEF Cores, Registers, Base, StackPointers
<1>6. Base(threadcur, d + 1) \in [of : Slots, depth : 1 .. MaxFrames]
    BY <1>2 DEF Base
<1>7. /\ sp_cur' \in [Slots -> [of : Slots, depth : 1 .. MaxFrames]]
      /\ \A j \in Slots : j # threadcur => sp_cur'[j] = sp_cur[j]
    BY <1>2, <1>6 DEF SwitchInv, TypeOK
<1>8. TypeOK'
    BY <1>4, <1>5, <1>7 DEF SwitchInv, TypeOK, Cores, table, Created
<1>9. WaitersSound'
    BY <1>1, <1>2, <1>4, <1>5, <1>7 DEF SwitchInv, WaitersSound, Waits, table, Created, At
<1>10. SlotsSound'
    <2>1. \A i \in Slots : stack'[i][0] = OwnData
        <3>1. 0 \in 0 .. MaxFrames /\ 0 # d + 1
            BY <1>2
        <3> QED BY <1>4, <3>1 DEF SwitchInv, SlotsSound
    <2>2. \A i \in Slots : \A e \in 1 .. MaxFrames :
              stack'[i][e].mepc \in Addresses /\ stack'[i][e].ra \in Addresses
        <3>1. \A e \in 1 .. MaxFrames : e \in 0 .. MaxFrames
            BY <1>2
        <3> QED BY <1>4, <3>1, TrapShape DEF SwitchInv, SlotsSound
    <2> QED BY <2>1, <2>2 DEF SwitchInv, SlotsSound, table, Created
<1>11. CoreSound'
    <2>1. CASE OnPoint
        <3>1. Resumes(Registers(core), d, stack[threadcur][1], left[threadcur])
            BY <2>1 DEF OnPoint
        <3>2. Resumes(Registers(core), d, stack'[threadcur][1], left[threadcur])
            <4>1. CASE d = 0
                BY <3>1, <4>1 DEF Resumes
            <4>2. CASE d # 0
                <5>1. 1 \in 0 .. MaxFrames /\ 1 # d + 1
                    BY <1>2, <4>2
                <5> QED BY <1>4, <3>1, <5>1
            <4> QED BY <4>1, <4>2
        <3>3. OnPoint'
            BY <1>5, <2>1, <3>2 DEF OnPoint, table, At
        <3> QED BY <1>1, <1>5, <3>3 DEF CoreSound, Executing
    <2>2. CASE At("load_mepc") /\ OnLoad
        <3>1. Leads(stack[threadcur], d, left[threadcur]) /\ d \in 1 .. MaxFrames
            BY <2>2 DEF OnLoad, Leads
        <3>2. \A e \in 1 .. d : stack'[threadcur][e] = stack[threadcur][e]
            <4>1. \A e \in 1 .. d : e \in 0 .. MaxFrames /\ e # d + 1
                BY <1>2
            <4> QED BY <1>4, <4>1, Zenon
        <3>3. Leads(stack'[threadcur], d, left[threadcur])
            <4>1. \A e \in 1 .. d : e # d => e + 1 \in 1 .. d
                BY <3>1
            <4>2. 1 \in 1 .. d
                BY <3>1
            <4> QED BY <3>1, <3>2, <4>1, <4>2 DEF Leads
        <3>4. OnLoad'
            BY <1>1, <1>5, <2>2, <3>3 DEF OnLoad, table, At
        <3> QED BY <1>1, <1>5, <3>4 DEF CoreSound, Executing
    <2>3. CASE OnEnd
        <3>1. OnEnd'
            BY <1>5, <2>3 DEF OnEnd, table, At, Created
        <3> QED BY <1>1, <1>5, <3>1 DEF CoreSound, Executing
    <2> QED BY <1>1, <2>1, <2>2, <2>3
<1> QED BY <1>8, <1>9, <1>10, <1>11 DEF SwitchInv

(* The tick gives the core to another thread.                               *)
LEMMA TickPreempts ==
    ASSUME SwitchInv, NoTickInWindows, thread_tick_handler,
           NEW d, d = core.sp.depth,
           NEW next, next \in Created, active[next], next # threadcur,
           NEW n, n = sp_cur[next].depth, NEW f, f = stack[next][n],
           sp_cur' = [sp_cur EXCEPT ![threadcur] = Base(threadcur, d + 1)],
           threadcur' = next, UNCHANGED <<table, left>>,
           stack' = Exchanged(threadcur, d + 1, sp_cur[next]),
           core' = [pc |-> f.mepc, ra |-> f.ra, t0 |-> f.t0, s |-> f.s,
                    sp |-> Base(next, n - 1), mepc |-> f.mepc, mscratch |-> Zero,
                    mie |-> f.mpie, mpie |-> TRUE]
    PROVE  SwitchInv'
<1>1. /\ Executing = threadcur /\ core.mie /\ ~At("load_sp")
      /\ OnPoint \/ (At("load_mepc") /\ OnLoad) \/ OnEnd
    BY TickPoint
<1>2. /\ d \in 0 .. MaxFrames /\ d + 1 \in 1 .. MaxFrames /\ d + 1 \in 0 .. MaxFrames
      /\ threadcur \in Slots /\ next \in Slots /\ Created \subseteq Slots /\ MaxFrames \in Nat
    BY Shape, TickPoint
<1>3. sp_cur[next].of = next /\ Leads(stack[next], n, left[next]) /\ n \in 1 .. MaxFrames
      /\ n \in 0 .. MaxFrames
    BY <1>2 DEF SwitchInv, WaitersSound, Waits, Leads
<1>4. /\ stack' \in [Slots -> [0 .. MaxFrames -> Frames]]
      /\ stack'[threadcur] = [stack[threadcur] EXCEPT ![d + 1] = TrapFrame]
      /\ stack'[next] = [stack[next] EXCEPT ![n] = Blank]
      /\ \A j \in Slots : j \notin {threadcur, next} => stack'[j] = stack[j]
      /\ \A j \in Slots : \A e \in 0 .. MaxFrames :
             \/ stack'[j][e] = stack[j][e]
             \/ e = d + 1 /\ stack'[j][e] = TrapFrame
             \/ e = n /\ stack'[j][e] = Blank
    <2>1. sp_cur[next] \in StackPointers /\ sp_cur[next].of # threadcur
        BY <1>2, <1>3 DEF SwitchInv, TypeOK, StackPointers
    <2> DEFINE p == sp_cur[next]
    <2>2. /\ stack' \in [Slots -> [0 .. MaxFrames -> Frames]]
          /\ stack'[threadcur] = Pushed(stack[threadcur], d + 1)
          /\ stack'[p.of] = Dropped(stack[p.of], p.depth)
          /\ \A j \in Slots : j \notin {threadcur, p.of} => stack'[j] = stack[j]
          /\ \A j \in Slots : \A e \in 0 .. MaxFrames :
                 \/ stack'[j][e] = stack[j][e]
                 \/ j = threadcur /\ e = d + 1 /\ stack'[j][e] = TrapFrame
                 \/ e = p.depth /\ stack'[j][e] = Blank
        <3> HIDE DEF p
        <3>1. p \in StackPointers /\ p.of # threadcur /\ stack' = Exchanged(threadcur, d + 1, p)
            BY <2>1 DEF p
        <3> QED BY <1>2, <3>1, OtherExchanged
    <2> QED BY <1>3, <2>2 DEF Pushed, Dropped
<1>5. /\ f \in Frames /\ f.mepc \in Addresses /\ f.ra \in Addresses
    BY <1>2, <1>3, Shape DEF SwitchInv, SlotsSound
<1>6. /\ core' \in Cores /\ Registers(core') = Held(f) /\ core'.sp = Base(next, n - 1)
      /\ core'.mie = f.mpie /\ core'.mpie
    <2>1. Base(next, n - 1) \in StackPointers
        BY <1>2, <1>3 DEF Base, StackPointers
    <2> HIDE DEF Base
    <2> QED BY <1>5, <2>1, PlacesTyped DEF Cores, Registers, Held, Frames
<1>7. CoreSound' /\ ~At("load_sp")'
    <2>1. Leads(stack[next], n, left'[threadcur']) /\ active'[threadcur']
        BY <1>3 DEF table
    <2>2. stack[next] \in [0 .. MaxFrames -> Frames] /\ MaxFrames \in Nat
        BY <1>2, Shape
    <2>3. stack'[threadcur'] = [stack[next] EXCEPT ![n] = Blank]
        BY <1>4
    <2> QED BY <1>6, <2>1, <2>2, <2>3, Loaded
<1>8. Base(threadcur, d + 1) \in [of : Slots, depth : 1 .. MaxFrames]
    BY <1>2 DEF Base
<1>9. /\ sp_cur' \in [Slots -> [of : Slots, depth : 1 .. MaxFrames]]
      /\ sp_cur'[threadcur] = Base(threadcur, d + 1)
      /\ \A j \in Slots : j # threadcur => sp_cur'[j] = sp_cur[j]
    BY <1>2, <1>8 DEF SwitchInv, TypeOK
<1>10. TypeOK'
    BY <1>4, <1>6, <1>9 DEF SwitchInv, TypeOK, Cores, table, Created
<1>11. active[threadcur] => Leads(stack'[threadcur], d + 1, left[threadcur])
    <2>1. ASSUME active[threadcur] PROVE OnPoint \/ (At("load_mepc") /\ OnLoad)
        BY <1>1, <2>1 DEF OnEnd
    <2> QED BY <1>1, <1>4, <2>1, TickPoint, PushedLeads
<1>12. WaitersSound'
    <2>1. ASSUME NEW i \in Created, active[i], i # next
          PROVE  sp_cur'[i].of = i /\ Leads(stack'[i], sp_cur'[i].depth, left[i])
        <3>1. CASE i = threadcur
            BY <1>9, <1>11, <2>1, <3>1 DEF Base
        <3>2. CASE i # threadcur
            BY <1>1, <1>2, <1>4, <1>9, <2>1, <3>2 DEF SwitchInv, WaitersSound, Waits
        <3> QED BY <3>1, <3>2
    <2> QED BY <1>7, <2>1 DEF WaitersSound, Waits, table, Created
<1>13. SlotsSound'
    <2>1. \A i \in Slots : \A e \in 0 .. MaxFrames :
              \/ stack'[i][e] = stack[i][e]
              \/ e # 0 /\ stack'[i][e] \in {TrapFrame, Blank}
        <3>1. n # 0 /\ d + 1 # 0
            BY <1>2, <1>3
        <3> QED BY <1>4, <3>1
    <2>2. \A i \in Slots : stack'[i][0] = OwnData
        <3>1. 0 \in 0 .. MaxFrames
            BY <1>2
        <3> QED BY <2>1, <3>1 DEF SwitchInv, SlotsSound
    <2>3. \A i \in Slots : \A e \in 1 .. MaxFrames :
              stack'[i][e].mepc \in Addresses /\ stack'[i][e].ra \in Addresses
        <3>1. \A e \in 1 .. MaxFrames : e \in 0 .. MaxFrames
            BY <1>2
        <3> QED BY <2>1, <3>1, TrapShape DEF SwitchInv, SlotsSound
    <2> QED BY <2>2, <2>3 DEF SwitchInv, SlotsSound, table, Created
<1> QED BY <1>7, <1>10, <1>12, <1>13 DEF SwitchInv

LEMMA TickStep ==
    ASSUME SwitchInv, NoTickInWindows, thread_tick_handler
    PROVE  SwitchInv'
<1> DEFINE d == core.sp.depth
           sp == Base(threadcur, d + 1)
           pushed == [stack EXCEPT ![threadcur][d + 1] = TrapFrame]
           load(n) == IF n = threadcur THEN sp ELSE sp_cur[n]
           f(n) == pushed[load(n).of][load(n).depth]
<1>1. Executing = threadcur /\ core.sp.of = threadcur
    BY TickPoint DEF Executing
<1>2. /\ d \in 0 .. MaxFrames /\ d + 1 \in 1 .. MaxFrames /\ d + 1 \in 0 .. MaxFrames
      /\ threadcur \in Slots
    BY Shape, TickPoint
<1>3. PICK next \in Candidates(threadcur) :
          /\ sp_cur' = [sp_cur EXCEPT ![threadcur] = sp]
          /\ threadcur' = next
          /\ stack' = Exchanged(threadcur, d + 1, load(next))
          /\ core' = [pc |-> f(next).mepc, ra |-> f(next).ra, t0 |-> f(next).t0, s |-> f(next).s,
                      sp |-> Base(load(next).of, load(next).depth - 1),
                      mepc |-> f(next).mepc, mscratch |-> Zero,
                      mie |-> f(next).mpie, mpie |-> TRUE]
    BY <1>1 DEF thread_tick_handler, Base, Exchanged
<1>4. UNCHANGED <<table, left>>
    BY DEF thread_tick_handler
<1>5. pushed[threadcur][d + 1] = TrapFrame /\ \A j \in Slots : j # threadcur => pushed[j] = stack[j]
    BY <1>2, Shape, TrapShape
<1>6. CASE next = threadcur
    <2>1. load(next) = sp /\ sp.of = threadcur /\ sp.depth = d + 1 /\ (d + 1) - 1 = d
        BY <1>2, <1>6 DEF Base
    <2>2. f(next) = TrapFrame
        BY <1>5, <2>1
    <2> HIDE DEF f, load
    <2>3. core' = [pc |-> core.pc, ra |-> core.ra, t0 |-> core.t0, s |-> core.s,
                   sp |-> Base(threadcur, d), mepc |-> core.pc, mscratch |-> Zero,
                   mie |-> core.mie, mpie |-> TRUE]
        <3>1. /\ f(next).mepc = core.pc /\ f(next).ra = core.ra /\ f(next).t0 = core.t0
              /\ f(next).s = core.s /\ f(next).mpie = core.mie
            BY <2>2 DEF TrapFrame
        <3>2. load(next).of = threadcur /\ load(next).depth - 1 = d
            BY <2>1
        <3> HIDE DEF d, sp, pushed
        <3> QED BY <1>3, <3>1, <3>2
    <2> QED BY <1>3, <1>4, <1>6, <2>1, <2>3, TickReturns
<1>7. CASE next # threadcur
    <2>1. next \in Created /\ active[next] /\ next \in Slots
        BY <1>7, Shape DEF Candidates
    <2>2. sp_cur[next].of = next
        BY <1>7, <2>1 DEF SwitchInv, WaitersSound, Waits
    <2>3. load(next) = sp_cur[next] /\ f(next) = stack[next][sp_cur[next].depth]
        BY <1>5, <1>7, <2>1, <2>2
    <2> HIDE DEF f, load
    <2>4. stack' = Exchanged(threadcur, d + 1, sp_cur[next])
        BY <1>3, <2>3
    <2> QED BY <1>3, <1>4, <1>7, <2>1, <2>2, <2>3, <2>4, TickPreempts
<1> QED BY <1>6, <1>7


-----------------------------------------------------------------------------
(* The invariant and what it says. *)

LEMMA SwitchInit ==
    Init => SwitchInv
<1> SUFFICES ASSUME Init PROVE SwitchInv
    OBVIOUS
<1>1. /\ 0 \in Slots /\ 0 \in Created /\ Created \subseteq Slots /\ threadcount \in 1 .. MaxThreads
      /\ 1 \in 1 .. MaxFrames /\ 1 \in 0 .. MaxFrames /\ MaxFrames \in Nat
    BY ContextAssumption DEF Init, Slots, Created
<1>2. /\ OwnData \in Frames /\ Blank \in Frames /\ thread_context_init \in Frames
      /\ {Blank, thread_context_init} \subseteq {f \in Frames : f.mepc \in Addresses /\ f.ra \in Addresses}
    BY PlacesTyped DEF OwnData, Blank, thread_context_init, Frames, Labels
<1>3. \A i \in Slots : /\ stack[i][0] = OwnData
                       /\ i < threadcount => stack[i][1] = thread_context_init
                       /\ \A d \in 1 .. MaxFrames : stack[i][d] \in {Blank, thread_context_init}
    BY <1>1 DEF Init
<1>4. \A i \in Created : Waits(i)
    <2> SUFFICES ASSUME NEW i \in Created PROVE Waits(i)
        OBVIOUS
    <2>1. sp_cur[i] = Base(i, 1) /\ stack[i][1] = thread_context_init /\ left[i] = Fresh
        BY <1>1, <1>3 DEF Init, Created
    <2> QED BY <1>1, <2>1
            DEF Waits, Leads, Resumes, Base, thread_context_init, Held, Same, Fresh
<1>5. TypeOK
    <2>1. core \in Cores
        BY <1>1, PlacesTyped DEF Init, Cores, Base, StackPointers, Labels
    <2>2. stack \in [Slots -> [0 .. MaxFrames -> Frames]]
        BY <1>2 DEF Init
    <2>3. sp_cur \in [Slots -> [of : Slots, depth : 1 .. MaxFrames]]
        BY <1>1 DEF Init, Base
    <2>4. left \in [Slots -> Departures]
        BY PlacesTyped DEF Init, Fresh, Departures, Labels
    <2>5. active \in [Slots -> BOOLEAN] /\ threadcur \in Created
        BY <1>1 DEF Init
    <2> QED BY <1>1, <2>1, <2>2, <2>3, <2>4, <2>5 DEF TypeOK, Cores, Departures
<1>6. CoreSound
    <2>1. Waits(0) /\ core.sp = Base(0, 1) /\ threadcur = 0 /\ active[0] /\ At("load_mepc")
          /\ sp_cur[0] = Base(0, 1)
        <3>1. Waits(0)
            BY <1>1, <1>4
        <3>2. core.sp = Base(0, 1) /\ threadcur = 0 /\ At("load_mepc")
            BY DEF Init, At
        <3>3. active[0] /\ sp_cur[0] = Base(0, 1)
            <4>1. 0 < threadcount
                BY <1>1, ContextAssumption
            <4>2. active[0] = (0 < threadcount) /\ sp_cur[0] = Base(0, 1)
                BY <1>1 DEF Init
            <4> QED BY <4>1, <4>2
        <3> QED BY <3>1, <3>2, <3>3
    <2>2. ~At("load_registers")
        BY <2>1, Tags DEF At
    <2> QED BY <2>1, <2>2 DEF CoreSound, OnLoad, Waits, Base, Executing
<1>7. WaitersSound
    BY <1>4 DEF WaitersSound
<1>8. SlotsSound
    <2>1. \A i \in Slots : \A d \in 1 .. MaxFrames :
              stack[i][d].mepc \in Addresses /\ stack[i][d].ra \in Addresses
        BY <1>2, <1>3
    <2>2. \A i \in Slots \ Created : ~active[i] /\ left[i] = Fresh
        <3>1. \A i \in Slots \ Created : ~(i < threadcount)
            BY <1>1, ContextAssumption DEF Created, Slots
        <3>2. \A i \in Slots : active[i] = (i < threadcount) /\ left[i] = Fresh
            BY DEF Init
        <3> QED BY <3>1, <3>2
    <2> QED BY <1>3, <2>1, <2>2 DEF SlotsSound
<1> QED BY <1>5, <1>6, <1>7, <1>8 DEF SwitchInv

LEMMA SwitchNext ==
    SwitchInv /\ NoTickInWindows /\ [Next]_vars => SwitchInv'
<1> SUFFICES ASSUME SwitchInv, NoTickInWindows, [Next]_vars PROVE SwitchInv'
    OBVIOUS
<1>1. CASE KernelStep
    BY <1>1, SwapScratchStep, AllocFrameStep, SetMepcStep, SaveRegistersStep, SaveMepcStep,
       SaveMstatusStep, ChooseNextStep, StoreSpStep, StoreCurStep, LoadSpStep, LoadMepcStep,
       LoadRegistersStep, EndScheduleStep DEF KernelStep
<1>2. CASE UNCHANGED vars
    <2>1. UNCHANGED <<core, table, threadcur, sp_cur, stack, left>>
        BY <1>2 DEF vars, table
    <2>2. core' \in Cores /\ (At("load_sp")' => At("load_sp"))
        BY <2>1, Shape DEF At
    <2>3. CoreSound'
        BY <2>1 DEF SwitchInv, CoreSound, OnPoint, OnSave, OnStore, OnLoad, OnEnd, OnHandOver,
                    At, Registers, Executing, Top, table, Created
    <2> QED BY <2>1, <2>2, <2>3, CoreStep
<1> QED BY <1>1, <1>2, BootstrapStep, WorkStep, CreateStep, CallSwitchStep, ThreadReturnsStep,
           TickStep DEF Next

(* Whatever the steps of a switch and the ticks between them, the state of  *)
(* the switch is one from which every thread can be resumed as it left: the *)
(* argument the three theorems below rest on.                               *)
LEMMA SwitchInvariant ==
    ASSUME NoTickInWindows PROVE Spec => []SwitchInv
<1>1. NoTickInWindows
    OBVIOUS
<1>2. SwitchInv /\ [Next]_vars => SwitchInv'
    BY <1>1, SwitchNext
<1> QED BY SwitchInit, <1>2, PTL DEF Spec

(* Registers, frames and stack pointers keep their types: every frame that  *)
(* is pushed is popped once, so that sp never goes below a thread's own     *)
(* data, and a switch of its own takes a single frame (context.s 95-205).   *)
THEOREM SwitchTyped ==
    ASSUME NoTickInWindows PROVE Spec => []TypeOK
<1>1. SwitchInv => TypeOK
    BY DEF SwitchInv
<1> QED BY <1>1, SwitchInvariant, PTL

(* A thread runs on with the registers, the stack and the interrupts it     *)
(* left, after any number of switches and ticks (context.s 212-213).        *)
THEOREM ThreadsRunAsLeft ==
    ASSUME NoTickInWindows PROVE Spec => []RunsAsLeft
<1>1. SwitchInv => RunsAsLeft
    <2> SUFFICES ASSUME SwitchInv, InThread PROVE RunsAsLeft
        BY DEF RunsAsLeft
    <2>1. stack[threadcur][0] = OwnData
        BY Shape DEF SwitchInv, SlotsSound
    <2> QED BY <2>1, InCode DEF RunsAsLeft, AsLeft, Same
<1> QED BY <1>1, SwitchInvariant, PTL

(* The frame of a waiting thread is its own and holds what it left          *)
(* (kthreads.c 217 and 229).                                                *)
THEOREM WaitingFramesHold ==
    ASSUME NoTickInWindows PROVE Spec => []FramesHold
<1>1. SwitchInv => FramesHold
    <2> SUFFICES ASSUME SwitchInv, NEW i \in Created, active[i], i # threadcur
                 PROVE  LET f == stack[i][sp_cur[i].depth]
                        IN /\ sp_cur[i].of = i
                           /\ f.mepc[1] = "app" \/ f.mepc = Code("thread_bootstrap") =>
                                  /\ sp_cur[i].depth = 1
                                  /\ AsLeft([pc |-> f.mepc, ra |-> f.ra, t0 |-> f.t0, s |-> f.s], i)
        BY DEF FramesHold
    <2> DEFINE n == sp_cur[i].depth
               f == stack[i][n]
    <2>1. sp_cur[i].of = i /\ n \in 1 .. MaxFrames /\ Resumes(Held(f), n - 1, stack[i][1], left[i])
        BY DEF SwitchInv, WaitersSound, Waits, Leads
    <2>2. ASSUME f.mepc[1] = "app" \/ f.mepc = Code("thread_bootstrap")
          PROVE  n = 1 /\ Same(Held(f), left[i])
        BY <2>1, <2>2, Tags DEF Resumes, Held
    <2> HIDE DEF n
    <2> QED BY <2>1, <2>2 DEF AsLeft, Same, Held, n
<1> QED BY <1>1, SwitchInvariant, PTL
=============================================================================
