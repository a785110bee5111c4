--------------------------- MODULE ConnectionProofs ---------------------------
(***************************************************************************)
(* What the runs check of CommandProcessor and of DeviceLink on small      *)
(* instances, proved for any number of connections, users, devices,        *)
(* backends and waiting commands, and for any arguments, values, buffer    *)
(* and numbers of messages, measurements and faults.                       *)
(***************************************************************************)
EXTENDS CommandProcessor, DeviceLink, FiniteSetTheorems, SequenceTheorems,
        WellFoundedInduction, NaturalsInduction, TLAPS

(* Where the commands of p wait. *)
Waiting(p) == {i \in DOMAIN stack : stack[i].proc = p}

(***************************************************************************)
(* The commands.  A processor counts its own; what is posted to delete it  *)
(* was posted below all of them; the one whose data are read on is not yet *)
(* about to be deleted in this loop for a command it may still start.      *)
(***************************************************************************)
Counted == \A p \in Procs : proc[p].work = Cardinality(Waiting(p))

Leaving ==
  \A p \in Procs :
    /\ proc[p].need => proc[p].st = "left"
    /\ proc[p].del # None =>
         proc[p].st = "left" /\ \A i \in Waiting(p) : proc[p].del < i
    /\ busy = p => proc[p].st = "left" /\ (proc[p].del # None => proc[p].del <= Depth)

Served ==
  \A i \in DOMAIN stack :
    Alive(stack[i].proc) /\ stack[i].by = proc[stack[i].proc].uid

Working == Counted /\ Leaving /\ Served
-----------------------------------------------------------------------------
(***************************************************************************)
(* The devices.                                                            *)
(***************************************************************************)
DevOf(b) == backend[b].dev

(* A backend that sends its messages to a processor is in its list. *)
Hearing ==
  \A b \in Backends :
    /\ backend[b].cb # None => backend[b].heard = backend[b].cb
    /\ backend[b].heard # None =>
         /\ DevOf(b) \in Devs
         /\ DevOf(b) \notin spoiled => proc[backend[b].heard].vdevs[DevOf(b)] = b

(* What is in a list lives, and tells that processor of its end. *)
Listing ==
  \A p \in Procs :
    /\ proc[p].st = "free" => \A d \in Devs : proc[p].vdevs[d] = None
    /\ \A d \in Devs : proc[p].vdevs[d] # None =>
         LET b == proc[p].vdevs[d]
         IN  backend[b].live /\ backend[b].heard = p /\ DevOf(b) = d

(* What the registry has. *)
Registry ==
  \A d \in Devs :
    /\ object[d] \in Backends => backend[object[d]].live /\ DevOf(object[d]) = d
    /\ virt[d] # None =>
         /\ backend[virt[d]].live /\ DevOf(virt[d]) = d
         /\ d \notin spoiled => object[d] = virt[d] /\ backend[virt[d]].cb # None

(* The backends that commands wait for. *)
Identifying ==
  \A i \in DOMAIN stack :
    LET b == stack[i].be
    IN  /\ stack[i].phase # "exec" => b \in Backends
        /\ stack[i].phase = "exec" => b = None
        /\ \A j \in DOMAIN stack : b # None /\ stack[j].be = b => j = i
        /\ stack[i].phase \in {"identify", "answered", "failed"} =>
             /\ backend[b].live /\ DevOf(b) \in Devs
             /\ \A d \in Devs : virt[d] # b /\ object[d] # b
        /\ stack[i].phase = "identify" => backend[b].cb # None
        /\ stack[i].phase = "answered" /\ DevOf(b) \notin spoiled => backend[b].cb # None
        /\ stack[i].phase = "describe" /\ backend[b].live =>
             DevOf(b) \in Devs /\ object[DevOf(b)] = b /\ backend[b].cb # None

Permitted ==
  \A b \in Backends : backend[b].cb # None /\ DevOf(b) \notin spoiled
                        => backend[b].by = proc[backend[b].cb].uid

Held == Hearing /\ Listing /\ Registry /\ Identifying /\ Permitted
Inv == TypeOK /\ Working /\ Held
-----------------------------------------------------------------------------
(***************************************************************************)
(* Sequences and numbers of elements.                                      *)
(***************************************************************************)
LEMMA StackIs ==
  ASSUME TypeOK
  PROVE  /\ Depth \in Nat /\ DOMAIN stack = 1..Depth
         /\ \A i \in 1..Depth : stack[i] \in Frame
         /\ \A f \in Frames : \E i \in 1..Depth : f = stack[i]
         /\ \A i \in 1..Depth : stack[i] \in Frames
<1>1. /\ Depth \in Nat /\ DOMAIN stack = 1..Depth
      /\ \A i \in 1..Depth : stack[i] \in Frame
  BY LenProperties, ElementOfSeq DEF TypeOK, Depth
<1>. QED
  BY <1>1 DEF Frames, ToSet

LEMMA TopIs ==
  ASSUME TypeOK, stack # <<>>
  PROVE  /\ Depth \in Nat \ {0} /\ Top = stack[Depth] /\ Top \in Frame
         /\ Front(stack) \in Seq(Frame) /\ Len(Front(stack)) = Depth - 1
         /\ DOMAIN Front(stack) = 1..(Depth - 1)
         /\ \A i \in 1..(Depth - 1) : Front(stack)[i] = stack[i]
<1>1. Depth \in Nat \ {0}
  BY EmptySeq, StackIs DEF TypeOK, Depth
<1>2. Top = stack[Depth] /\ Top \in Frame
  BY <1>1, StackIs DEF Top, Last, Depth
<1>3. Front(stack) = SubSeq(stack, 1, Depth - 1)
  BY DEF Front, Depth
<1>4. \A i \in 1..(Depth - 1) : stack[i] \in Frame
  BY <1>1, StackIs
<1>5. /\ Front(stack) \in Seq(Frame) /\ Len(Front(stack)) = Depth - 1
      /\ \A i \in 1..(Depth - 1) : Front(stack)[i] = stack[i]
  BY <1>1, <1>3, <1>4, SubSeqProperties
<1>6. DOMAIN Front(stack) = 1..(Depth - 1)
  BY <1>5, LenProperties
<1>. QED
  BY <1>1, <1>2, <1>5, <1>6

LEMMA WaitingFinite ==
  ASSUME TypeOK, NEW p
  PROVE  IsFiniteSet(Waiting(p)) /\ Cardinality(Waiting(p)) \in 0..Depth
<1>1. Waiting(p) \in SUBSET (1..Depth)
  BY StackIs DEF Waiting
<1>2. IsFiniteSet(1..Depth) /\ Cardinality(1..Depth) = Depth
  BY StackIs, FS_Interval
<1>3. IsFiniteSet(Waiting(p)) /\ Cardinality(Waiting(p)) <= Depth
  BY <1>1, <1>2, FS_Subset
<1>4. Cardinality(Waiting(p)) \in Nat
  BY <1>3, FS_CardinalityType
<1>. QED
  BY <1>3, <1>4, StackIs

LEMMA NoneWaits ==
  ASSUME TypeOK, Counted, NEW p \in Procs
  PROVE  proc[p].work = 0 <=> Waiting(p) = {}
BY WaitingFinite, FS_EmptySet DEF Counted

LEMMA Fields ==
  ASSUME TypeOK, NEW p \in Procs
  PROVE  /\ proc[p].work \in Nat
         /\ proc[p].del # None => proc[p].del \in Nat
BY ConstantsAssumption DEF TypeOK, ProcRecord
-----------------------------------------------------------------------------
(***************************************************************************)
(* The commands: a step that starts none and ends none, one that starts    *)
(* one, and one that ends the innermost.                                   *)
(***************************************************************************)
Steady ==
  /\ DOMAIN stack' = DOMAIN stack /\ Depth' = Depth
  /\ \A i \in DOMAIN stack : stack'[i].proc = stack[i].proc /\ stack'[i].by = stack[i].by
  /\ busy' \in {busy, None}
  /\ \A p \in Procs :
       /\ proc'[p].work = proc[p].work /\ proc'[p].need = proc[p].need
       /\ proc'[p].del = proc[p].del
       /\ proc[p].st = "left" => proc'[p].st = "left"
       /\ proc[p].st # "free" => proc'[p].st # "free"
       /\ proc'[p].uid = proc[p].uid \/ proc[p].work = 0

LEMMA SteadyCommands ==
  ASSUME TypeOK, Working, Steady
  PROVE  Working'
<1>1. \A p : Waiting(p)' = Waiting(p)
  BY DEF Steady, Waiting
<1>2. Counted'
  BY <1>1 DEF Working, Counted, Steady
<1>3. Leaving'
  BY <1>1, ConstantsAssumption DEF Working, Leaving, Steady
<1>4. Served'
  <2> SUFFICES ASSUME NEW i \in DOMAIN stack
               PROVE  /\ proc'[stack[i].proc].st # "free"
                      /\ stack[i].by = proc'[stack[i].proc].uid
    BY DEF Served, Steady, Alive
  <2>1. stack[i].proc \in Procs /\ i \in Waiting(stack[i].proc)
    BY StackIs DEF Frame, Waiting
  <2>2. proc[stack[i].proc].work # 0
    BY <2>1, NoneWaits DEF Working
  <2>. QED
    BY <2>1, <2>2 DEF Working, Served, Steady, Alive
<1>. QED
  BY <1>2, <1>3, <1>4 DEF Working

Starts(p) ==
  /\ Hears(p)
  /\ stack' \in Seq(Frame) /\ Len(stack') = Depth + 1
  /\ \A i \in 1..Depth : stack'[i] = stack[i]
  /\ stack'[Depth + 1].proc = p /\ stack'[Depth + 1].by = proc[p].uid
  /\ busy' = None
  /\ proc'[p].work = proc[p].work + 1
  /\ \A q \in Procs :
       /\ q # p => proc'[q].work = proc[q].work
       /\ proc'[q].need = proc[q].need /\ proc'[q].del = proc[q].del
       /\ proc'[q].st = proc[q].st /\ proc'[q].uid = proc[q].uid

LEMMA StartsCommands ==
  ASSUME TypeOK, Working, NEW p \in Procs, Starts(p)
  PROVE  Working'
<1>1. DOMAIN stack' = 1..(Depth + 1) /\ Depth' = Depth + 1 /\ Depth \in Nat
  BY StackIs, LenProperties DEF Starts, Depth
<1>2. Waiting(p)' = Waiting(p) \cup {Depth + 1} /\ Depth + 1 \notin Waiting(p)
  BY <1>1, StackIs DEF Starts, Waiting
<1>3. \A q : q # p => Waiting(q)' = Waiting(q)
  BY <1>1, StackIs DEF Starts, Waiting
<1>4. Counted'
  <2>1. Cardinality(Waiting(p) \cup {Depth + 1}) = Cardinality(Waiting(p)) + 1
    BY <1>2, WaitingFinite, FS_AddElement
  <2>2. proc'[p].work = Cardinality(Waiting(p)')
    BY <1>2, <2>1 DEF Working, Counted, Starts
  <2>3. \A q \in Procs : q # p => proc'[q].work = Cardinality(Waiting(q)')
    BY <1>3 DEF Working, Counted, Starts
  <2>. QED
    BY <2>2, <2>3 DEF Counted
<1>5. proc[p].st # "free" /\ (proc[p].del # None => proc[p].del <= Depth)
  BY DEF Working, Leaving, Starts, Hears
<1>6. Leaving'
  <2>1. \A q \in Procs : proc[q].del # None /\ q # p =>
          proc[q].st = "left" /\ \A i \in Waiting(q)' : proc[q].del < i
    BY <1>3 DEF Working, Leaving
  <2>2. proc[p].del # None =>
          proc[p].st = "left" /\ \A i \in Waiting(p)' : proc[p].del < i
    BY <1>1, <1>2, <1>5, Fields DEF Working, Leaving
  <2>. QED
    BY <2>1, <2>2, ConstantsAssumption DEF Working, Leaving, Starts
<1>7. Served'
  BY <1>1, <1>5, StackIs DEF Working, Served, Starts, Alive, Frame
<1>. QED
  BY <1>4, <1>6, <1>7 DEF Working

LEMMA EndsCommands ==
  ASSUME TypeOK, Working, stack # <<>>, busy = None,
         NEW prs \in [Procs -> ProcRecord], Ends(prs), NEW p \in Procs, p = Top.proc,
         \A q \in Procs : /\ prs[q].st = proc[q].st /\ prs[q].uid = proc[q].uid
                          /\ prs[q].work = proc[q].work /\ prs[q].need = proc[q].need
                          /\ prs[q].del = proc[q].del
  PROVE  Working'
<1>1. /\ Depth \in Nat \ {0} /\ Depth' = Depth - 1 /\ DOMAIN stack' = 1..(Depth - 1)
      /\ p = stack[Depth].proc
      /\ \A i \in 1..(Depth - 1) : stack'[i] = stack[i]
  BY TopIs DEF Ends, Depth, Frame
<1>2. /\ \A q \in Procs : q # p => proc'[q] = prs[q]
      /\ proc'[p] = Ended(prs[p])
  BY <1>1 DEF Ends, Ended
<1>3. /\ proc'[p].st = proc[p].st /\ proc'[p].uid = proc[p].uid
      /\ proc'[p].work = proc[p].work - 1 /\ proc'[p].need = proc[p].need
      /\ proc'[p].del = IF proc[p].work = 1 /\ proc[p].need /\ proc[p].del = None
                          THEN Depth - 1 ELSE proc[p].del
  <2>1. prs[p] \in ProcRecord
    BY <1>1
  <2>. QED
    BY <1>1, <1>2, <2>1 DEF Ended, ProcRecord
<1>4. Waiting(p)' = Waiting(p) \ {Depth} /\ Depth \in Waiting(p)
  BY <1>1, StackIs DEF Waiting
<1>5. \A q : q # p => Waiting(q)' = Waiting(q)
  BY <1>1, StackIs DEF Waiting
<1>6. Cardinality(Waiting(p)') = proc[p].work - 1 /\ IsFiniteSet(Waiting(p)')
  BY <1>1, <1>4, WaitingFinite, FS_RemoveElement DEF Working, Counted
<1>7. Counted'
  <2>1. \A q \in Procs : q # p => proc'[q].work = Cardinality(Waiting(q)')
    BY <1>2, <1>5 DEF Working, Counted
  <2>. QED
    BY <1>3, <1>6, <2>1 DEF Counted
<1>8. proc[p].work = 1 => Waiting(p)' = {}
  BY <1>6, FS_EmptySet
<1>9. Leaving'
  <2>1. ASSUME NEW q \in Procs, q # p
        PROVE  /\ proc'[q].need => proc'[q].st = "left"
               /\ proc'[q].del # None =>
                    proc'[q].st = "left" /\ \A i \in Waiting(q)' : proc'[q].del < i
               /\ busy' # q
    BY <1>1, <1>2, <1>5, <2>1, ConstantsAssumption DEF Working, Leaving, Ends
  <2>2. /\ proc'[p].need => proc'[p].st = "left"
        /\ proc'[p].del # None =>
             proc'[p].st = "left" /\ \A i \in Waiting(p)' : proc'[p].del < i
    BY <1>1, <1>3, <1>4, <1>8 DEF Working, Leaving
  <2>3. busy' = p => proc'[p].st = "left"
    BY <1>1, <1>3, ConstantsAssumption DEF Ends
  <2>4. proc'[p].del # None => proc'[p].del <= Depth - 1
    <3>1. proc[p].del # None => proc[p].del < Depth
      BY <1>1, <1>4 DEF Working, Leaving
    <3>. QED
      BY <1>1, <1>3, <3>1, Fields
  <2>. QED
    BY <1>1, <2>1, <2>2, <2>3, <2>4 DEF Leaving
<1>10. Served'
  <2>1. \A q \in Procs : proc'[q].st = proc[q].st /\ proc'[q].uid = proc[q].uid
    BY <1>2, <1>3
  <2>. QED
    BY <1>1, <2>1, StackIs DEF Working, Served, Alive, Frame
<1>. QED
  BY <1>7, <1>9, <1>10 DEF Working
-----------------------------------------------------------------------------
(***************************************************************************)
(* The devices: a step in which the backends of "gone" are destroyed,      *)
(* those of "muted" lose their client, and the processor q, if it is one,  *)
(* drops its list.  Most steps of the server are such a step, with nothing *)
(* in either.                                                              *)
(***************************************************************************)
Losing(gone, muted, q) ==
  /\ gone \subseteq Backends /\ muted \subseteq Backends \ gone
  /\ \A b \in gone : backend'[b] = FreeBackend
  /\ \A b \in muted :
       /\ backend'[b].live = backend[b].live /\ backend'[b].dev = backend[b].dev
       /\ backend'[b].by = backend[b].by /\ backend'[b].cb = None
       /\ backend'[b].heard = IF backend[b].heard = q THEN None ELSE backend[b].heard
       /\ \A d \in Devs : object[d] = b => backend[b].cb = None
  /\ \A b \in Backends \ (gone \cup muted) : backend'[b] = backend[b]
  /\ \A d \in Devs : q \in Procs /\ proc[q].vdevs[d] # None => proc[q].vdevs[d] \in gone \cup muted
  /\ \A p \in Procs :
       /\ \A d \in Devs : proc'[p].vdevs[d] =
            IF p = q \/ \E b \in gone : DevOf(b) = d /\ backend[b].heard = p
              THEN None ELSE proc[p].vdevs[d]
       /\ p = q \/ proc'[p].uid = proc[p].uid \/ \A d \in Devs : proc[p].vdevs[d] = None
       /\ proc'[p].st = "free" => p = q \/ proc[p].st = "free"
  /\ \A d \in Devs :
       /\ virt'[d] = IF virt[d] \in gone THEN None ELSE virt[d]
       /\ IF object[d] \in gone THEN object'[d] \notin Backends ELSE object'[d] = object[d]
  /\ \A b \in Backends \ gone : DevOf(b) \in spoiled => DevOf(b) \in spoiled'
  /\ \A i \in DOMAIN stack' :
       /\ i \in DOMAIN stack /\ stack'[i].be = stack[i].be
       /\ stack'[i].phase = IF stack[i].phase = "identify" /\ stack[i].be \in muted
                              THEN "failed" ELSE stack[i].phase
       /\ stack[i].be \in gone => stack[i].phase = "describe"
       /\ stack[i].phase = "answered" /\ stack[i].be \in muted =>
            DevOf(stack[i].be) \in spoiled'

LEMMA NoneIsNone ==
  /\ None \notin Procs /\ None \notin Backends /\ None \notin Users
  /\ "unknown" \notin Backends /\ "other" \notin Backends
  /\ None # "unknown" /\ None # "other"
BY ConstantsAssumption

LEMMA DevTypes ==
  ASSUME TypeOK
  PROVE  /\ \A b \in Backends : /\ backend[b].cb \in Procs \cup {None}
                                /\ backend[b].heard \in Procs \cup {None}
         /\ \A p \in Procs, d \in Devs : proc[p].vdevs[d] \in Backends \cup {None}
         /\ \A d \in Devs : virt[d] \in Backends \cup {None}
BY DEF TypeOK, BackendRecord, ProcRecord

LEMMA LosingBackends ==
  ASSUME NEW gone, NEW muted, NEW q, Losing(gone, muted, q), q \notin Procs => q = None,
         NEW b \in Backends, b \notin gone
  PROVE  /\ backend'[b].live = backend[b].live /\ backend'[b].dev = backend[b].dev
         /\ backend'[b].by = backend[b].by
         /\ backend'[b].cb # None =>
              b \notin muted /\ backend'[b] = backend[b]
         /\ backend'[b].heard # None =>
              backend'[b].heard = backend[b].heard /\ (b \in muted => backend[b].heard # q)
BY DEF Losing

LEMMA LosingHearing ==
  ASSUME TypeOK, Held, NEW gone, NEW muted, NEW q, Losing(gone, muted, q),
         q \in Procs \cup {None}
  PROVE  Hearing' /\ Permitted'
<1>1. \A b \in gone : backend'[b].cb = None /\ backend'[b].heard = None
  BY DEF Losing, FreeBackend
<1>2. ASSUME NEW b \in Backends, b \notin gone, backend'[b].heard # None
      PROVE  /\ backend[b].heard \in Procs /\ backend[b].heard = backend'[b].heard
             /\ DevOf(b) \in Devs
             /\ DevOf(b) \notin spoiled' =>
                  /\ backend[b].heard # q
                  /\ proc[backend[b].heard].vdevs[DevOf(b)] = b
                  /\ proc'[backend[b].heard].vdevs[DevOf(b)] = b
  <2> DEFINE p == backend[b].heard
             d == DevOf(b)
  <2>1. p \in Procs /\ p = backend'[b].heard /\ d \in Devs
    BY <1>2, LosingBackends, NoneIsNone, DevTypes DEF Held, Hearing
  <2>2. ASSUME d \notin spoiled'
        PROVE  p # q /\ proc[p].vdevs[d] = b /\ proc'[p].vdevs[d] = b
    <3>1. d \notin spoiled
      BY <1>2, <2>2 DEF Losing
    <3>2. proc[p].vdevs[d] = b
      BY <1>2, <2>1, <3>1, NoneIsNone DEF Held, Hearing
    <3>3. p # q
      <4> SUFFICES ASSUME p = q PROVE FALSE
        OBVIOUS
      <4>1. b \in muted
        BY <1>2, <2>1, <3>2, NoneIsNone DEF Losing
      <4>. QED
        BY <1>2, <4>1, LosingBackends
    <3>4. ~ \E c \in gone : DevOf(c) = d /\ backend[c].heard = p
      <4> SUFFICES ASSUME NEW c \in gone, DevOf(c) = d, backend[c].heard = p PROVE FALSE
        OBVIOUS
      <4>1. proc[p].vdevs[d] = c
        BY <2>1, <3>1, NoneIsNone DEF Held, Hearing, Losing
      <4>. QED
        BY <1>2, <3>2, <4>1
    <3>. QED
      BY <2>1, <3>2, <3>3, <3>4 DEF Losing
  <2>. QED
    BY <2>1, <2>2
<1>3. \A b \in Backends : b \notin gone => backend'[b].dev = DevOf(b)
  BY LosingBackends DEF DevOf
<1>4. \A b \in Backends : backend'[b].cb # None =>
        b \notin gone /\ b \notin muted /\ backend'[b] = backend[b]
                      /\ backend'[b].heard = backend'[b].cb
  BY <1>1, LosingBackends DEF Held, Hearing
<1>5. Hearing'
  BY <1>1, <1>2, <1>3, <1>4 DEF Hearing, DevOf
<1>6. Permitted'
  <2> SUFFICES ASSUME NEW b \in Backends, backend'[b].cb # None, backend'[b].dev \notin spoiled'
               PROVE  backend'[b].by = proc'[backend'[b].cb].uid
    BY DEF Permitted, DevOf
  <2> DEFINE p == backend[b].heard
  <2>1. /\ b \notin gone /\ backend'[b] = backend[b] /\ backend[b].cb = p
        /\ p \in Procs /\ p # q /\ proc[p].vdevs[DevOf(b)] = b /\ DevOf(b) \in Devs
        /\ DevOf(b) \notin spoiled'
    BY <1>2, <1>3, <1>4
  <2>2. proc'[p].uid = proc[p].uid
    BY <2>1, NoneIsNone DEF Losing
  <2>3. DevOf(b) \notin spoiled
    BY <2>1 DEF Losing
  <2>. QED
    BY <2>1, <2>2, <2>3, NoneIsNone DEF Held, Permitted
<1>. QED
  BY <1>5, <1>6

LEMMA LosingListing ==
  ASSUME TypeOK, Held, NEW gone, NEW muted, NEW q, Losing(gone, muted, q),
         q \in Procs \cup {None}
  PROVE  Listing'
<1> SUFFICES ASSUME NEW p \in Procs
             PROVE  /\ proc'[p].st = "free" => \A d \in Devs : proc'[p].vdevs[d] = None
                    /\ \A d \in Devs : proc'[p].vdevs[d] # None =>
                         LET b == proc'[p].vdevs[d]
                         IN  backend'[b].live /\ backend'[b].heard = p /\ backend'[b].dev = d
  BY DEF Listing, DevOf
<1>1. proc'[p].st = "free" => \A d \in Devs : proc'[p].vdevs[d] = None
  BY DEF Losing, Held, Listing
<1>2. ASSUME NEW d \in Devs, proc'[p].vdevs[d] # None
      PROVE  LET b == proc'[p].vdevs[d]
             IN  backend'[b].live /\ backend'[b].heard = p /\ backend'[b].dev = d
  <2> DEFINE b == proc[p].vdevs[d]
  <2>1. /\ p # q /\ proc'[p].vdevs[d] = b /\ b # None /\ b \in Backends
        /\ ~ \E c \in gone : DevOf(c) = d /\ backend[c].heard = p
    BY <1>2, DevTypes DEF Losing
  <2>2. backend[b].live /\ backend[b].heard = p /\ DevOf(b) = d
    BY <2>1 DEF Held, Listing
  <2>3. b \notin gone
    BY <2>1, <2>2
  <2>4. backend'[b].heard = p
    BY <2>1, <2>2, <2>3 DEF Losing
  <2>. QED
    BY <2>1, <2>2, <2>3, <2>4, LosingBackends DEF DevOf
<1>. QED
  BY <1>1, <1>2

LEMMA LosingRegistry ==
  ASSUME TypeOK, Held, NEW gone, NEW muted, NEW q, Losing(gone, muted, q),
         q \in Procs \cup {None}
  PROVE  Registry'
<1> SUFFICES ASSUME NEW d \in Devs
             PROVE  /\ object'[d] \in Backends =>
                         backend'[object'[d]].live /\ backend'[object'[d]].dev = d
                    /\ virt'[d] # None =>
                         /\ backend'[virt'[d]].live /\ backend'[virt'[d]].dev = d
                         /\ d \notin spoiled' =>
                              object'[d] = virt'[d] /\ backend'[virt'[d]].cb # None
  BY DEF Registry, DevOf
<1>1. ASSUME object'[d] \in Backends
      PROVE  backend'[object'[d]].live /\ backend'[object'[d]].dev = d
  <2>1. object'[d] = object[d] /\ object[d] \notin gone
    BY <1>1 DEF Losing
  <2>. QED
    BY <1>1, <2>1, LosingBackends DEF Held, Registry, DevOf, Losing
<1>2. ASSUME virt'[d] # None
      PROVE  /\ backend'[virt'[d]].live /\ backend'[virt'[d]].dev = d
             /\ d \notin spoiled' =>
                  object'[d] = virt'[d] /\ backend'[virt'[d]].cb # None
  <2> DEFINE b == virt[d]
  <2>1. virt'[d] = b /\ b # None /\ b \in Backends /\ b \notin gone
    BY <1>2, DevTypes DEF Losing
  <2>2. backend[b].live /\ DevOf(b) = d
    BY <2>1 DEF Held, Registry
  <2>3. backend'[b].live /\ backend'[b].dev = d
    BY <2>1, <2>2, LosingBackends DEF DevOf, Losing
  <2>4. ASSUME d \notin spoiled' PROVE object'[d] = b /\ backend'[b].cb # None
    <3>1. d \notin spoiled
      BY <2>1, <2>2, <2>4 DEF Losing
    <3>2. object[d] = b /\ backend[b].cb # None
      BY <2>1, <3>1 DEF Held, Registry
    <3>3. b \notin muted
      BY <3>2 DEF Losing
    <3>. QED
      BY <2>1, <3>2, <3>3 DEF Losing
  <2>. QED
    BY <2>1, <2>3, <2>4
<1>. QED
  BY <1>1, <1>2

LEMMA LosingIdentifying ==
  ASSUME TypeOK, Held, NEW gone, NEW muted, NEW q, Losing(gone, muted, q),
         q \in Procs \cup {None}
  PROVE  Identifying'
<1> SUFFICES ASSUME NEW i \in DOMAIN stack'
    PROVE  LET b == stack'[i].be
           IN  /\ stack'[i].phase # "exec" => b \in Backends
               /\ stack'[i].phase = "exec" => b = None
               /\ \A j \in DOMAIN stack' : b # None /\ stack'[j].be = b => j = i
               /\ stack'[i].phase \in {"identify", "answered", "failed"} =>
                    /\ backend'[b].live /\ backend'[b].dev \in Devs
                    /\ \A d \in Devs : virt'[d] # b /\ object'[d] # b
               /\ stack'[i].phase = "identify" => backend'[b].cb # None
               /\ stack'[i].phase = "answered" /\ backend'[b].dev \notin spoiled' =>
                    backend'[b].cb # None
               /\ stack'[i].phase = "describe" /\ backend'[b].live =>
                    backend'[b].dev \in Devs /\ object'[backend'[b].dev] = b
                    /\ backend'[b].cb # None
  BY DEF Identifying, DevOf
<1> DEFINE b == stack[i].be
<1>1. /\ i \in DOMAIN stack /\ stack'[i].be = b
      /\ stack'[i].phase = IF stack[i].phase = "identify" /\ b \in muted
                             THEN "failed" ELSE stack[i].phase
      /\ b \in gone => stack[i].phase = "describe"
      /\ stack[i].phase = "answered" /\ b \in muted => DevOf(b) \in spoiled'
  BY DEF Losing
<1>2. /\ stack'[i].phase # "exec" => b \in Backends
      /\ stack'[i].phase = "exec" => b = None
  BY <1>1 DEF Held, Identifying
<1>3. \A j \in DOMAIN stack' : b # None /\ stack'[j].be = b => j = i
  BY <1>1 DEF Held, Identifying, Losing
<1>4. ASSUME stack'[i].phase \in {"identify", "answered", "failed"}
      PROVE  /\ b \in Backends /\ b \notin gone
             /\ backend'[b].live /\ backend'[b].dev \in Devs /\ backend'[b].dev = DevOf(b)
             /\ \A d \in Devs : virt'[d] # b /\ object'[d] # b
  <2>1. stack[i].phase \in {"identify", "answered", "failed"}
    BY <1>1, <1>4
  <2>2. /\ backend[b].live /\ DevOf(b) \in Devs
        /\ \A d \in Devs : virt[d] # b /\ object[d] # b
    BY <1>1, <2>1 DEF Held, Identifying
  <2>3. b \in Backends /\ b \notin gone
    BY <1>1, <1>2, <1>4, <2>1
  <2>. QED
    BY <2>2, <2>3, LosingBackends, NoneIsNone DEF Losing, DevOf
<1>5. ASSUME stack'[i].phase = "identify" PROVE backend'[b].cb # None
  <2>1. b \in Backends /\ b \notin gone
    BY <1>4, <1>5
  <2>2. stack[i].phase = "identify" /\ b \notin muted
    BY <1>1, <1>5
  <2>. QED
    BY <1>1, <2>1, <2>2 DEF Held, Identifying, Losing
<1>6. ASSUME stack'[i].phase = "answered", backend'[b].dev \notin spoiled'
      PROVE  backend'[b].cb # None
  <2>1. /\ b \in Backends /\ b \notin gone /\ backend'[b].dev = DevOf(b)
        /\ stack[i].phase = "answered"
    BY <1>1, <1>4, <1>6
  <2>2. b \notin muted /\ DevOf(b) \notin spoiled
    BY <1>1, <1>6, <2>1 DEF Losing
  <2>. QED
    BY <1>1, <2>1, <2>2 DEF Held, Identifying, Losing
<1>7. ASSUME stack'[i].phase = "describe", backend'[b].live
      PROVE  backend'[b].dev \in Devs /\ object'[backend'[b].dev] = b /\ backend'[b].cb # None
  <2>1. b \in Backends /\ b \notin gone
    BY <1>2, <1>7 DEF Losing, FreeBackend
  <2>2. stack[i].phase = "describe" /\ backend[b].live /\ backend'[b].dev = DevOf(b)
    BY <1>1, <1>7, <2>1, LosingBackends DEF DevOf
  <2>3. DevOf(b) \in Devs /\ object[DevOf(b)] = b /\ backend[b].cb # None
    BY <1>1, <2>2 DEF Held, Identifying
  <2>4. b \notin muted
    BY <2>3 DEF Losing
  <2>. QED
    BY <2>1, <2>2, <2>3, <2>4 DEF Losing
<1>. QED
  BY <1>1, <1>2, <1>3, <1>4, <1>5, <1>6, <1>7

LEMMA LosingHeld ==
  ASSUME TypeOK, Held, NEW gone, NEW muted, NEW q, Losing(gone, muted, q),
         q \in Procs \cup {None}
  PROVE  Held'
BY LosingHearing, LosingListing, LosingRegistry, LosingIdentifying DEF Held
-----------------------------------------------------------------------------
(***************************************************************************)
(* Steps that lose no backend.                                             *)
(***************************************************************************)
Quiet ==
  /\ UNCHANGED <<backend, virt, object, spoiled>>
  /\ \A i \in DOMAIN stack' : i \in DOMAIN stack /\ stack'[i] = stack[i]
  /\ \A p \in Procs :
       /\ proc'[p].vdevs = proc[p].vdevs
       /\ proc'[p].uid = proc[p].uid \/ \A d \in Devs : proc[p].vdevs[d] = None
       /\ proc'[p].st = "free" => proc[p].st = "free"

LEMMA QuietHeld ==
  ASSUME TypeOK, Held, Quiet
  PROVE  Held'
<1>1. Losing({}, {}, None)
  BY NoneIsNone DEF Quiet, Losing
<1>. QED
  BY <1>1, LosingHeld

(* Only the processors change, none of them in what its commands have. *)
LEMMA QuietInv ==
  ASSUME Inv, Quiet, Steady, UNCHANGED stack, proc' \in [Procs -> ProcRecord],
         busy' \in {busy, None}
  PROVE  Inv'
<1>1. TypeOK'
  BY DEF Inv, TypeOK, Quiet, Depth
<1>. QED
  BY <1>1, QuietHeld, SteadyCommands DEF Inv

LEMMA ConnectInv ==
  ASSUME Inv, NEW p \in Procs, Connect(p)
  PROVE  Inv'
<1> USE DEF Inv
<1>1. PICK u \in Users \cup {None} :
        proc' = [proc EXCEPT ![p] = [FreeProc EXCEPT !.st = "open", !.uid = u,
                                                     !.sync = maxSyncCount]]
  BY DEF Connect
<1>2. /\ proc'[p] = [st |-> "open", uid |-> u, vdevs |-> NoDevice, subs |-> {},
                     work |-> 0, need |-> FALSE, del |-> None, sync |-> maxSyncCount]
      /\ \A r \in Procs : r # p => proc'[r] = proc[r]
  BY <1>1 DEF TypeOK, FreeProc
<1>3. proc' \in [Procs -> ProcRecord]
  <2>1. proc'[p] \in ProcRecord
    BY <1>2, ConstantsAssumption DEF ProcRecord, NoDevice
  <2>. QED
    BY <1>1, <2>1 DEF TypeOK
<1>4. proc[p].st = "free" /\ Waiting(p) = {}
  BY StackIs DEF Connect, UnusedProc, Alive, Waiting
<1>5. /\ proc[p].work = 0 /\ proc[p].del = None /\ proc[p].need = FALSE
      /\ proc[p].vdevs = NoDevice
  <2>1. proc[p] \in ProcRecord
    BY DEF TypeOK
  <2>2. proc[p].vdevs \in [Devs -> Backends \cup {None}] /\ proc[p].need \in BOOLEAN
    BY <2>1 DEF ProcRecord
  <2>3. \A d \in Devs : proc[p].vdevs[d] = None
    BY <1>4 DEF Held, Listing
  <2>4. proc[p].vdevs = NoDevice
    BY <2>2, <2>3 DEF NoDevice
  <2>. QED
    BY <1>4, <2>2, <2>4, NoneWaits DEF Working, Leaving
<1>6. Quiet
  <2>1. \A d \in Devs : proc[p].vdevs[d] = None
    BY <1>5 DEF NoDevice
  <2>2. \A q \in Procs : proc'[q].vdevs = proc[q].vdevs
    BY <1>2, <1>5
  <2>3. \A q \in Procs : q # p => proc'[q].uid = proc[q].uid
    BY <1>2
  <2>4. \A q \in Procs : proc'[q].st = "free" => proc[q].st = "free"
    BY <1>2
  <2>5. UNCHANGED <<backend, virt, object, stack, spoiled>>
    BY DEF Connect
  <2>. QED
    BY <2>1, <2>2, <2>3, <2>4, <2>5 DEF Quiet
<1>7. Steady
  <2>1. \A q \in Procs : q = p \/ proc'[q] = proc[q]
    BY <1>2
  <2>2. UNCHANGED <<stack, busy>>
    BY DEF Connect
  <2>3. /\ proc'[p].work = proc[p].work /\ proc'[p].del = proc[p].del
        /\ proc'[p].need = proc[p].need
    <3>1. proc'[p].work = 0 /\ proc'[p].del = None
      BY <1>2
    <3>2. proc'[p].need = FALSE
      BY <1>2
    <3>. QED
      BY <1>5, <3>1, <3>2
  <2>4. proc'[p].st = "open"
    BY <1>2
  <2>. QED
    BY <1>4, <1>5, <2>1, <2>2, <2>3, <2>4 DEF Steady, Depth
<1>. QED
  BY <1>3, <1>6, <1>7, QuietInv DEF Connect

(* One processor changes. *)
LEMMA OneProcInv ==
  ASSUME Inv, NEW p \in Procs, NEW r \in ProcRecord, proc' = [proc EXCEPT ![p] = r],
         UNCHANGED <<backend, virt, object, stack, busy, spoiled>>,
         r.vdevs = proc[p].vdevs, r.work = proc[p].work, r.need = proc[p].need,
         r.del = proc[p].del, proc[p].st = "left" => r.st = "left",
         r.st = "free" <=> proc[p].st = "free",
         r.uid = proc[p].uid \/ (proc[p].vdevs = NoDevice /\ proc[p].work = 0)
  PROVE  Inv'
<1>1. proc' \in [Procs -> ProcRecord] /\ proc'[p] = r
      /\ \A q \in Procs : q # p => proc'[q] = proc[q]
  BY DEF Inv, TypeOK
<1>2. Quiet
  BY <1>1 DEF Quiet, NoDevice
<1>3. Steady
  BY <1>1 DEF Steady, Depth
<1>. QED
  BY <1>1, <1>2, <1>3, QuietInv

LEMMA ConnectionLostInv ==
  ASSUME Inv, NEW p \in Procs, ConnectionLost(p)
  PROVE  Inv'
<1> DEFINE r == [proc[p] EXCEPT !.st = "closed"]
<1>1. proc[p] \in ProcRecord /\ proc[p].st = "open"
  BY DEF Inv, TypeOK, ConnectionLost
<1>2. r \in ProcRecord /\ r.st = "closed" /\ r.vdevs = proc[p].vdevs /\ r.work = proc[p].work
      /\ r.need = proc[p].need /\ r.del = proc[p].del /\ r.uid = proc[p].uid
  BY <1>1 DEF ProcRecord
<1>3. proc' = [proc EXCEPT ![p] = r]
  BY DEF ConnectionLost
<1>. QED
  BY <1>1, <1>2, <1>3, OneProcInv DEF ConnectionLost

LEMMA SyncrInv ==
  ASSUME Inv, NEW p \in Procs, Syncr(p)
  PROVE  Inv'
<1> DEFINE r == [proc[p] EXCEPT !.sync = maxSyncCount]
<1>1. proc[p] \in ProcRecord
  BY DEF Inv, TypeOK
<1>2. r \in ProcRecord /\ r.st = proc[p].st /\ r.vdevs = proc[p].vdevs /\ r.work = proc[p].work
      /\ r.need = proc[p].need /\ r.del = proc[p].del /\ r.uid = proc[p].uid
  BY <1>1, ConstantsAssumption DEF ProcRecord
<1>3. proc' = [proc EXCEPT ![p] = r]
  BY DEF Syncr
<1>. QED
  BY <1>2, <1>3, OneProcInv DEF Syncr

LEMMA AuthenticateInv ==
  ASSUME Inv, NEW p \in Procs, Authenticate(p)
  PROVE  Inv'
<1>1. PICK u \in Users : proc' = [proc EXCEPT ![p].uid = u]
  BY DEF Authenticate
<1> DEFINE r == [proc[p] EXCEPT !.uid = u]
<1>2. proc[p] \in ProcRecord
  BY DEF Inv, TypeOK
<1>3. r \in ProcRecord /\ r.st = proc[p].st /\ r.vdevs = proc[p].vdevs /\ r.work = proc[p].work
      /\ r.need = proc[p].need /\ r.del = proc[p].del
  BY <1>2 DEF ProcRecord
<1>4. proc' = [proc EXCEPT ![p] = r]
  BY <1>1
<1>5. proc[p].vdevs = NoDevice /\ proc[p].work = 0
  BY DEF Authenticate, MayChangeUser
<1>. QED
  BY <1>3, <1>4, <1>5, OneProcInv DEF Authenticate

LEMMA SubscribeInv ==
  ASSUME Inv, NEW p \in Procs, Subscribe(p) \/ Unsubscribe(p)
  PROVE  Inv'
<1>1. PICK s \in Storages : \/ proc' = [proc EXCEPT ![p].subs = @ \cup {s}]
                            \/ proc' = [proc EXCEPT ![p].subs = @ \ {s}]
  <2>1. CASE Subscribe(p)
    BY <2>1 DEF Subscribe
  <2>2. CASE Unsubscribe(p)
    BY <2>2 DEF Unsubscribe, Inv, TypeOK, ProcRecord
  <2>. QED
    BY <2>1, <2>2
<1>2. proc[p] \in ProcRecord
  BY DEF Inv, TypeOK
<1>3. PICK S \in SUBSET Storages : proc' = [proc EXCEPT ![p].subs = S]
  <2>1. proc[p].subs \in SUBSET Storages
    BY <1>2 DEF ProcRecord
  <2>2. proc[p].subs \cup {s} \in SUBSET Storages /\ proc[p].subs \ {s} \in SUBSET Storages
    BY <2>1
  <2>. QED
    BY <1>1, <2>2
<1> DEFINE r == [proc[p] EXCEPT !.subs = S]
<1>4. r \in ProcRecord /\ r.st = proc[p].st /\ r.vdevs = proc[p].vdevs /\ r.work = proc[p].work
      /\ r.need = proc[p].need /\ r.del = proc[p].del /\ r.uid = proc[p].uid
  BY <1>2 DEF ProcRecord
<1>5. proc' = [proc EXCEPT ![p] = r]
  BY <1>3
<1>. QED
  BY <1>4, <1>5, OneProcInv DEF Subscribe, Unsubscribe

LEMMA StorageRemovedInv ==
  ASSUME Inv, StorageRemoved
  PROVE  Inv'
<1>1. PICK s \in Storages : proc' = [p \in Procs |-> [proc[p] EXCEPT !.subs = @ \ {s}]]
  BY DEF StorageRemoved
<1>2. ASSUME NEW p \in Procs
      PROVE  /\ proc'[p] \in ProcRecord
             /\ proc'[p].st = proc[p].st /\ proc'[p].vdevs = proc[p].vdevs
             /\ proc'[p].work = proc[p].work /\ proc'[p].need = proc[p].need
             /\ proc'[p].del = proc[p].del /\ proc'[p].uid = proc[p].uid
  <2>1. proc[p] \in ProcRecord
    BY DEF Inv, TypeOK
  <2>2. proc'[p] = [proc[p] EXCEPT !.subs = @ \ {s}]
    BY <1>1
  <2>. QED
    BY <2>1, <2>2 DEF ProcRecord
<1>3. proc' \in [Procs -> ProcRecord]
  BY <1>1, <1>2
<1>4. Quiet
  BY <1>2 DEF Quiet, StorageRemoved
<1>5. Steady
  BY <1>2 DEF Steady, StorageRemoved, Depth
<1>. QED
  BY <1>3, <1>4, <1>5, QuietInv DEF StorageRemoved

LEMMA EndOfDataInv ==
  ASSUME Inv, EndOfData
  PROVE  Inv'
<1>1. Quiet
  BY DEF Quiet, EndOfData
<1>2. Steady
  BY DEF Steady, EndOfData, Depth
<1>. QED
  BY <1>1, <1>2, QuietInv DEF EndOfData, Inv, TypeOK

LEMMA CloseClientInv ==
  ASSUME Inv, NEW p \in Procs, CloseClient(p), busy = None
  PROVE  Inv'
<1> USE DEF Inv
<1>1. proc[p] \in ProcRecord /\ proc[p].st = "closed" /\ proc[p].del = None
  BY DEF TypeOK, CloseClient, Working, Leaving
<1>2. Depth \in Nat /\ Depth <= MaxDepth /\ Depth' = Depth
  BY StackIs DEF TypeOK, CloseClient, Depth
<1>3. /\ proc'[p] = Scheduled(proc[p])
      /\ \A q \in Procs : q # p => proc'[q] = proc[q]
  BY DEF CloseClient, TypeOK
<1>4. /\ proc'[p] \in ProcRecord
      /\ proc'[p].st = "left" /\ proc'[p].uid = proc[p].uid
      /\ proc'[p].vdevs = proc[p].vdevs /\ proc'[p].work = proc[p].work
      /\ proc'[p].del # None => proc[p].work = 0
  <2>1. Scheduled(proc[p]) =
          IF proc[p].work = 0 THEN [proc[p] EXCEPT !.st = "left", !.del = Depth]
                              ELSE [proc[p] EXCEPT !.st = "left", !.need = TRUE]
    BY <1>1 DEF Scheduled
  <2>2. Depth \in 0..MaxDepth
    BY <1>2, ConstantsAssumption
  <2> DEFINE r == [proc[p] EXCEPT !.st = "left", !.del = Depth]
             s == [proc[p] EXCEPT !.st = "left", !.need = TRUE]
  <2>3. /\ r \in ProcRecord /\ r.st = "left" /\ r.uid = proc[p].uid
        /\ r.vdevs = proc[p].vdevs /\ r.work = proc[p].work
    BY <1>1, <2>2 DEF ProcRecord
  <2>4. /\ s \in ProcRecord /\ s.st = "left" /\ s.uid = proc[p].uid
        /\ s.vdevs = proc[p].vdevs /\ s.work = proc[p].work /\ s.del = proc[p].del
    BY <1>1 DEF ProcRecord
  <2>5. proc'[p] = IF proc[p].work = 0 THEN r ELSE s
    BY <1>3, <2>1
  <2>. QED
    BY <1>1, <2>3, <2>4, <2>5
<1>5. TypeOK'
  BY <1>4 DEF TypeOK, CloseClient, Depth
<1>6. Quiet
  BY <1>3, <1>4 DEF Quiet, CloseClient
<1>7. \A q : Waiting(q)' = Waiting(q)
  BY DEF CloseClient, Waiting
<1>8. Counted'
  <2>1. \A q \in Procs : proc'[q].work = proc[q].work
    BY <1>3, <1>4
  <2>. QED
    BY <1>7, <2>1 DEF Working, Counted
<1>9. Leaving'
  <2>1. proc'[p].del # None => Waiting(p)' = {}
    BY <1>4, <1>7, NoneWaits DEF Working
  <2>2. busy' \notin Procs
    BY NoneIsNone DEF CloseClient
  <2>. QED
    BY <1>3, <1>4, <1>7, <2>1, <2>2 DEF Working, Leaving
<1>10. Served'
  <2>1. \A q \in Procs : /\ proc'[q].uid = proc[q].uid
                         /\ proc[q].st # "free" => proc'[q].st # "free"
    BY <1>3, <1>4
  <2>. QED
    BY <2>1, StackIs DEF Working, Served, CloseClient, Alive, Frame
<1>. QED
  BY <1>5, <1>6, <1>8, <1>9, <1>10, QuietHeld DEF Working
-----------------------------------------------------------------------------
(***************************************************************************)
(* Steps that lose backends.                                               *)
(***************************************************************************)
LEMMA ForgetIs ==
  ASSUME NEW prs \in [Procs -> ProcRecord], NEW bs
  PROVE  /\ Forget(prs, bs) \in [Procs -> ProcRecord]
         /\ \A p \in Procs :
              /\ Forget(prs, bs)[p].st = prs[p].st /\ Forget(prs, bs)[p].uid = prs[p].uid
              /\ Forget(prs, bs)[p].work = prs[p].work
              /\ Forget(prs, bs)[p].need = prs[p].need
              /\ Forget(prs, bs)[p].del = prs[p].del
              /\ \A d \in Devs : Forget(prs, bs)[p].vdevs[d] =
                   IF \E b \in bs : DevOf(b) = d /\ backend[b].heard = p
                     THEN None ELSE prs[p].vdevs[d]
<1> DEFINE lost(p) == [d \in Devs |-> IF \E b \in bs : DevOf(b) = d /\ backend[b].heard = p
                                        THEN None ELSE prs[p].vdevs[d]]
<1>1. ASSUME NEW p \in Procs
      PROVE  /\ prs[p] \in ProcRecord /\ lost(p) \in [Devs -> Backends \cup {None}]
             /\ Forget(prs, bs)[p] = [prs[p] EXCEPT !.vdevs = lost(p)]
  <2>1. prs[p] \in ProcRecord
    OBVIOUS
  <2>2. lost(p) \in [Devs -> Backends \cup {None}]
    BY <2>1 DEF ProcRecord
  <2>. QED
    BY <2>1, <2>2 DEF Forget, DevOf
<1>2. ASSUME NEW p \in Procs, NEW v \in [Devs -> Backends \cup {None}], NEW r \in ProcRecord
      PROVE  LET s == [r EXCEPT !.vdevs = v]
             IN  /\ s \in ProcRecord /\ s.vdevs = v /\ s.st = r.st /\ s.uid = r.uid
                 /\ s.work = r.work /\ s.need = r.need /\ s.del = r.del
  BY DEF ProcRecord
<1> HIDE DEF lost
<1>3. ASSUME NEW p \in Procs
      PROVE  LET s == Forget(prs, bs)[p]
             IN  /\ s \in ProcRecord /\ s.vdevs = lost(p) /\ s.st = prs[p].st
                 /\ s.uid = prs[p].uid /\ s.work = prs[p].work /\ s.need = prs[p].need
                 /\ s.del = prs[p].del
  <2>1. PICK v \in [Devs -> Backends \cup {None}] : v = lost(p)
    BY <1>1
  <2>2. PICK r \in ProcRecord : r = prs[p]
    BY <1>1
  <2>3. Forget(prs, bs)[p] = [r EXCEPT !.vdevs = v]
    BY <1>1, <2>1, <2>2
  <2>. QED
    BY <2>1, <2>2, <2>3, <1>2
<1>4. Forget(prs, bs) \in [Procs -> ProcRecord]
  BY <1>3 DEF Forget
<1>. QED
  BY <1>3, <1>4 DEF lost

LEMMA SameLength ==
  ASSUME NEW S, NEW n \in Nat, NEW f \in [1..n -> S]
  PROVE  f \in Seq(S) /\ Len(f) = n
OBVIOUS

LEMMA FreeBackendIs == FreeBackend \in BackendRecord
BY DEF FreeBackend, BackendRecord

(* Backends are lost, those of the processor q if it is one; no command    *)
(* ends, and the processors are prs but for their lists.                   *)
Disconnects(prs, q) ==
  /\ TypeOK'
  /\ \E gone, muted : Losing(gone, muted, q)
  /\ DOMAIN stack' = DOMAIN stack /\ Depth' = Depth
  /\ \A i \in DOMAIN stack : stack'[i].proc = stack[i].proc /\ stack'[i].by = stack[i].by
  /\ busy' = busy
  /\ \A p \in Procs :
       /\ proc'[p].st = prs[p].st /\ proc'[p].uid = prs[p].uid
       /\ proc'[p].work = prs[p].work /\ proc'[p].need = prs[p].need
       /\ proc'[p].del = prs[p].del

(* What forceDisconnect() does to bs: the device of the registry goes with *)
(* its backend, the others lose their client.                              *)
LEMMA ForceDisconnectedIs ==
  ASSUME TypeOK, Held, NEW bs \in SUBSET Backends, NEW deaf,
         NEW prs \in [Procs -> ProcRecord], NEW q,
         ForceDisconnected(bs, deaf, prs),
         \/ q \in Procs /\ deaf = bs /\ bs = Registered(q)
         \/ q = None /\ deaf = {},
         \A p \in Procs : p # q => prs[p] = proc[p],
         q \in Procs => \A d \in Devs : prs[q].vdevs[d] = None
  PROVE  Disconnects(prs, q)
<1> DEFINE gone == {b \in bs : \E d \in Devs : object[d] = b /\ backend[b].cb # None}
           muted == bs \ gone
           replied == {f.be : f \in {g \in Frames : g.phase = "answered"}}
<1>1. /\ proc' = Forget(prs, gone \ deaf)
      /\ backend' = [b \in Backends |->
           CASE b \in gone -> FreeBackend
             [] b \in muted -> [backend[b] EXCEPT !.cb = None,
                                   !.heard = IF b \in deaf THEN None ELSE @]
             [] OTHER -> backend[b]]
      /\ virt' = [d \in Devs |-> IF virt[d] \in gone THEN None ELSE virt[d]]
      /\ object' = [d \in Devs |-> IF object[d] \in gone THEN None ELSE object[d]]
      /\ stack' = [i \in DOMAIN stack |->
           IF stack[i].phase = "identify" /\ stack[i].be \in muted
             THEN [stack[i] EXCEPT !.phase = "failed"] ELSE stack[i]]
      /\ UNCHANGED busy
      /\ spoiled' = {d \in spoiled \cup {backend[b].dev : b \in muted \cap replied} :
                       \E b \in Backends \ gone : backend[b].dev = d}
  BY Zenon DEF ForceDisconnected
<1>2. gone \subseteq Backends /\ muted \subseteq Backends \ gone /\ gone \subseteq bs
  OBVIOUS
<1>3. \A b \in muted, d \in Devs : object[d] = b => backend[b].cb = None
  OBVIOUS
<1>4. \A b \in bs : q \in Procs => b \in deaf /\ backend[b].heard = q
  <2> SUFFICES ASSUME NEW b \in bs, q \in Procs PROVE b \in deaf /\ backend[b].heard = q
    OBVIOUS
  <2>1. b \in deaf /\ b \in Registered(q)
    BY NoneIsNone
  <2>2. PICK d \in Devs : proc[q].vdevs[d] = b /\ b # None
    BY <2>1 DEF Registered, Range, TypeOK, ProcRecord
  <2>. QED
    BY <2>1, <2>2 DEF Held, Listing
<1>5. /\ \A b \in gone : backend'[b] = FreeBackend
      /\ \A b \in Backends \ (gone \cup muted) : backend'[b] = backend[b]
  BY <1>1, <1>2
<1>6. \A b \in muted :
        /\ backend'[b] \in BackendRecord
        /\ backend'[b].live = backend[b].live /\ backend'[b].dev = backend[b].dev
        /\ backend'[b].by = backend[b].by /\ backend'[b].cb = None
        /\ backend'[b].heard = IF backend[b].heard = q THEN None ELSE backend[b].heard
  <2> SUFFICES ASSUME NEW b \in muted
        PROVE  /\ backend'[b] \in BackendRecord
               /\ backend'[b].live = backend[b].live /\ backend'[b].dev = backend[b].dev
               /\ backend'[b].by = backend[b].by /\ backend'[b].cb = None
               /\ backend'[b].heard = IF backend[b].heard = q THEN None ELSE backend[b].heard
    OBVIOUS
  <2>1. backend[b] \in BackendRecord
    BY <1>2 DEF TypeOK
  <2>2. backend'[b] = [backend[b] EXCEPT !.cb = None, !.heard = IF b \in deaf THEN None ELSE @]
    BY <1>1, <1>2
  <2>3. (IF b \in deaf THEN None ELSE backend[b].heard)
          = IF backend[b].heard = q THEN None ELSE backend[b].heard
    BY <1>4, NoneIsNone
  <2>. QED
    BY <2>1, <2>2, <2>3 DEF BackendRecord
<1>6a. /\ proc' \in [Procs -> ProcRecord]
       /\ \A p \in Procs :
            /\ proc'[p].st = prs[p].st /\ proc'[p].uid = prs[p].uid
            /\ proc'[p].work = prs[p].work /\ proc'[p].need = prs[p].need
            /\ proc'[p].del = prs[p].del
            /\ \A d \in Devs : proc'[p].vdevs[d] =
                 IF \E b \in gone \ deaf : DevOf(b) = d /\ backend[b].heard = p
                   THEN None ELSE prs[p].vdevs[d]
  <2> HIDE DEF gone
  <2>1. PICK l : l = gone \ deaf
    OBVIOUS
  <2>2. PICK F : F = Forget(prs, l)
    OBVIOUS
  <2>3. proc' = F
    BY <1>1, <2>1, <2>2
  <2>4. /\ F \in [Procs -> ProcRecord]
        /\ \A p \in Procs :
              /\ F[p].st = prs[p].st /\ F[p].uid = prs[p].uid
              /\ F[p].work = prs[p].work /\ F[p].need = prs[p].need
              /\ F[p].del = prs[p].del
              /\ \A d \in Devs : F[p].vdevs[d] =
                   IF \E b \in l : DevOf(b) = d /\ backend[b].heard = p
                     THEN None ELSE prs[p].vdevs[d]
    BY <2>2, ForgetIs
  <2>. QED
    BY <2>1, <2>3, <2>4
<1>7. \A p \in Procs, d \in Devs : proc'[p].vdevs[d] =
        IF p = q \/ \E b \in gone : DevOf(b) = d /\ backend[b].heard = p
          THEN None ELSE proc[p].vdevs[d]
  <2> SUFFICES ASSUME NEW p \in Procs, NEW d \in Devs
               PROVE  proc'[p].vdevs[d] =
                        IF p = q \/ \E b \in gone : DevOf(b) = d /\ backend[b].heard = p
                          THEN None ELSE proc[p].vdevs[d]
    OBVIOUS
  <2>1. proc'[p].vdevs[d] = IF \E b \in gone \ deaf : DevOf(b) = d /\ backend[b].heard = p
                              THEN None ELSE prs[p].vdevs[d]
    BY <1>6a
  <2>. QED
    BY <2>1, <1>2, <1>4, NoneIsNone
<1>8. \A p \in Procs :
        /\ proc'[p].st = prs[p].st /\ proc'[p].uid = prs[p].uid
        /\ proc'[p].work = prs[p].work /\ proc'[p].need = prs[p].need
        /\ proc'[p].del = prs[p].del
  BY <1>6a
<1>9. \A d \in Devs : q \in Procs /\ proc[q].vdevs[d] # None => proc[q].vdevs[d] \in gone \cup muted
  BY NoneIsNone DEF Registered, Range, TypeOK, ProcRecord
<1>10. \A b \in Backends \ gone : DevOf(b) \in spoiled => DevOf(b) \in spoiled'
  BY <1>1 DEF DevOf
<1>11. /\ DOMAIN stack' = DOMAIN stack /\ Depth' = Depth /\ stack' \in Seq(Frame)
       /\ \A i \in DOMAIN stack :
            /\ stack'[i].proc = stack[i].proc /\ stack'[i].by = stack[i].by
            /\ stack'[i].be = stack[i].be
            /\ stack'[i].phase = IF stack[i].phase = "identify" /\ stack[i].be \in muted
                                   THEN "failed" ELSE stack[i].phase
  <2>1. Depth \in Nat /\ DOMAIN stack = 1..Depth
    BY StackIs
  <2>2. ASSUME NEW i \in 1..Depth
        PROVE  /\ stack'[i] \in Frame
               /\ stack'[i].proc = stack[i].proc /\ stack'[i].by = stack[i].by
               /\ stack'[i].be = stack[i].be
               /\ stack'[i].phase = IF stack[i].phase = "identify" /\ stack[i].be \in muted
                                      THEN "failed" ELSE stack[i].phase
    <3>1. stack[i] \in Frame
      BY StackIs
    <3>2. stack'[i] = IF stack[i].phase = "identify" /\ stack[i].be \in muted
                        THEN [stack[i] EXCEPT !.phase = "failed"] ELSE stack[i]
      BY <1>1, <2>1
    <3>. QED
      BY <3>1, <3>2 DEF Frame
  <2>3. stack' \in [1..Depth -> Frame]
    BY <1>1, <2>1, <2>2
  <2>4. stack' \in Seq(Frame) /\ Len(stack') = Depth
    BY <2>1, <2>3, SameLength
  <2>. QED
    BY <2>1, <2>2, <2>3, <2>4 DEF Depth
<1>12. \A i \in DOMAIN stack :
         /\ stack[i].be \in gone => stack[i].phase = "describe"
         /\ stack[i].phase = "answered" /\ stack[i].be \in muted =>
              DevOf(stack[i].be) \in spoiled'
  <2> SUFFICES ASSUME NEW i \in DOMAIN stack
               PROVE  /\ stack[i].be \in gone => stack[i].phase = "describe"
                      /\ stack[i].phase = "answered" /\ stack[i].be \in muted =>
                           DevOf(stack[i].be) \in spoiled'
    OBVIOUS
  <2>1. stack[i] \in Frame /\ stack[i] \in Frames
    BY StackIs
  <2>2. stack[i].be \in gone => stack[i].phase = "describe"
    <3>1. stack[i].phase \in {"exec", "identify", "answered", "describe", "failed"}
      BY <2>1 DEF Frame
    <3>. QED
      BY <1>2, <3>1, NoneIsNone DEF Held, Identifying
  <2>3. ASSUME stack[i].phase = "answered", stack[i].be \in muted
        PROVE  DevOf(stack[i].be) \in spoiled'
    <3>1. stack[i].be \in replied
      BY <2>1, <2>3
    <3>. QED
      BY <1>1, <1>2, <2>3, <3>1 DEF DevOf
  <2>. QED
    BY <2>2, <2>3
<1>13. TypeOK'
  <2>1. proc' \in [Procs -> ProcRecord]
    BY <1>6a
  <2>2. backend' \in [Backends -> BackendRecord]
    <3>1. \A b \in Backends : backend'[b] \in BackendRecord
      BY <1>2, <1>5, <1>6, FreeBackendIs DEF TypeOK
    <3>. QED
      BY <1>1, <3>1
  <2>3. /\ virt' \in [Devs -> Backends \cup {None}]
        /\ object' \in [Devs -> Backends \cup {None, "unknown", "other"}]
    BY <1>1 DEF TypeOK
  <2>4. spoiled' \subseteq Devs
    <3>1. ASSUME NEW b \in replied PROVE backend[b].dev \in Devs
      <4>1. PICK i \in DOMAIN stack : stack[i].phase = "answered" /\ stack[i].be = b
        BY StackIs
      <4>. QED
        BY <4>1 DEF Held, Identifying, DevOf
    <3>2. \A d \in spoiled' : d \in spoiled \/ \E b \in muted \cap replied : d = backend[b].dev
      <4> HIDE DEF gone, muted, replied
      <4>. QED
        BY <1>1
    <3>. QED
      BY <3>1, <3>2 DEF TypeOK
  <2>. QED
    BY <1>1, <1>11, <2>1, <2>2, <2>3, <2>4 DEF TypeOK
<1>14. Losing(gone, muted, q)
  <2>1. \A p \in Procs : /\ p = q \/ proc'[p].uid = proc[p].uid
                         /\ proc'[p].st = "free" => p = q \/ proc[p].st = "free"
    BY <1>8
  <2>2. \A d \in Devs :
          /\ virt'[d] = IF virt[d] \in gone THEN None ELSE virt[d]
          /\ IF object[d] \in gone THEN object'[d] \notin Backends ELSE object'[d] = object[d]
    BY <1>1, NoneIsNone
  <2> HIDE DEF gone, muted, replied
  <2>. QED
    BY <1>2, <1>3, <1>5, <1>6, <1>7, <1>9, <1>10, <1>11, <1>12, <2>1, <2>2 DEF Losing
<1>15. \E g, m : Losing(g, m, q)
  BY <1>14
<1>. QED
  BY <1>1, <1>8, <1>11, <1>13, <1>15 DEF Disconnects
(* The destructor and the timer of p disconnect all that p has. *)
LEMMA DropsListIs ==
  ASSUME TypeOK, Held, NEW p \in Procs, NEW bs \in SUBSET Backends, bs = Registered(p),
         NEW prs \in [Procs -> ProcRecord], ForceDisconnected(bs, bs, prs),
         \A q \in Procs : q # p => prs[q] = proc[q],
         \A d \in Devs : prs[p].vdevs[d] = None
  PROVE  Disconnects(prs, p)
BY ForceDisconnectedIs


(* No processor changes but in its list. *)
LEMMA DisconnectVDevInv ==
  ASSUME Inv, NEW p \in Procs, NEW d \in Devs, DisconnectVDev(p, d)
  PROVE  Inv'
<1> USE DEF Inv
<1>1. PICK bs \in SUBSET Backends : bs = {proc[p].vdevs[d]}
  BY DevTypes DEF DisconnectVDev
<1>2. PICK deaf : deaf = {}
  OBVIOUS
<1>3. ForceDisconnected(bs, deaf, proc)
  BY <1>1, <1>2 DEF DisconnectVDev
<1>4. proc \in [Procs -> ProcRecord]
  BY DEF TypeOK
<1>5. Disconnects(proc, None)
  BY <1>2, <1>3, <1>4, NoneIsNone, ForceDisconnectedIs
<1>6. Steady
  BY <1>5 DEF Steady, Disconnects
<1>. QED
  BY <1>5, <1>6, SteadyCommands, LosingHeld DEF Disconnects

LEMMA SyncTimerInv ==
  ASSUME Inv, NEW p \in Procs, SyncTimer(p)
  PROVE  Inv'
<1> USE DEF Inv
<1>1. proc[p] \in ProcRecord /\ proc[p].st # "free"
  BY DEF TypeOK, SyncTimer, Alive
<1>2. CASE proc[p].sync > 1
  <2> DEFINE r == [proc[p] EXCEPT !.sync = @ - 1]
  <2>1. proc' = [proc EXCEPT ![p] = r] /\ UNCHANGED <<backend, virt, object, stack, busy, spoiled>>
    BY <1>2 DEF SyncTimer
  <2>2. proc[p].sync - 1 \in 0..maxSyncCount
    BY <1>1, <1>2, ConstantsAssumption DEF ProcRecord
  <2>3. r \in ProcRecord /\ r.st = proc[p].st /\ r.vdevs = proc[p].vdevs
        /\ r.work = proc[p].work /\ r.need = proc[p].need /\ r.del = proc[p].del
        /\ r.uid = proc[p].uid
    BY <1>1, <2>2 DEF ProcRecord
  <2>. QED
    BY <2>1, <2>3, OneProcInv
<1>3. CASE ~(proc[p].sync > 1)
  <2> DEFINE r == [proc[p] EXCEPT !.sync = 0, !.vdevs = NoDevice,
                                  !.st = IF @ = "open" THEN "closed" ELSE @]
             prs == [proc EXCEPT ![p].sync = 0, ![p].vdevs = NoDevice,
                                 ![p].st = IF @ = "open" THEN "closed" ELSE @]
             bs == Registered(p)
  <2>1. ForceDisconnected(bs, bs, prs)
    BY <1>3 DEF SyncTimer
  <2>2. r \in ProcRecord /\ r.vdevs = NoDevice /\ r.uid = proc[p].uid
        /\ r.work = proc[p].work /\ r.need = proc[p].need /\ r.del = proc[p].del
        /\ r.st = IF proc[p].st = "open" THEN "closed" ELSE proc[p].st
    <3>1. 0 \in 0..maxSyncCount
      BY ConstantsAssumption
    <3>2. PICK v \in [Devs -> Backends \cup {None}] : v = NoDevice
      BY DEF NoDevice
    <3>3. PICK st \in {"closed", "left"} : st = IF proc[p].st = "open" THEN "closed" ELSE proc[p].st
      BY <1>1 DEF ProcRecord
    <3>4. r = [proc[p] EXCEPT !.sync = 0, !.vdevs = v, !.st = st]
      BY <1>1, <3>2, <3>3 DEF ProcRecord
    <3>. QED
      BY <1>1, <3>1, <3>2, <3>3, <3>4 DEF ProcRecord
  <2>3. prs \in [Procs -> ProcRecord] /\ prs[p] = r
        /\ \A q \in Procs : q # p => prs[q] = proc[q]
    <3>1. prs = [proc EXCEPT ![p] = r]
      BY DEF TypeOK
    <3>. QED
      BY <3>1, <2>2 DEF TypeOK
  <2>4. \A d \in Devs : prs[p].vdevs[d] = None
    BY <2>2, <2>3 DEF NoDevice
  <2>5. bs \in SUBSET Backends
    BY DevTypes, <1>1 DEF Registered, Range, ProcRecord
  <2>6. Disconnects(prs, p)
    <3>1. PICK all, rs : all = bs /\ rs = prs
      OBVIOUS
    <3>2. /\ all \in SUBSET Backends /\ all = Registered(p) /\ rs \in [Procs -> ProcRecord]
          /\ ForceDisconnected(all, all, rs)
          /\ \A q \in Procs : q # p => rs[q] = proc[q]
          /\ \A d \in Devs : rs[p].vdevs[d] = None
      BY <2>1, <2>3, <2>4, <2>5, <3>1
    <3>3. Disconnects(rs, p)
      BY <3>2, DropsListIs
    <3>. QED
      BY <3>1, <3>3
  <2> HIDE DEF r, prs, bs
  <2>7. Steady
    BY <1>1, <2>2, <2>3, <2>6 DEF Steady, Disconnects
  <2>. QED
    BY <2>6, <2>7, SteadyCommands, LosingHeld DEF Disconnects
<1>. QED
  BY <1>2, <1>3

LEMMA DeleteInv ==
  ASSUME Inv, NEW p \in Procs, Delete(p), busy \notin Procs
  PROVE  Inv'
<1> USE DEF Inv
<1> DEFINE prs == [proc EXCEPT ![p] = FreeProc]
           bs == Registered(p)
<1>1. ForceDisconnected(bs, bs, prs) /\ proc[p].del # None /\ Depth <= proc[p].del
  BY DEF Delete
<1>2. FreeProc \in ProcRecord
  BY ConstantsAssumption DEF ProcRecord, FreeProc, NoDevice
<1>3. prs \in [Procs -> ProcRecord] /\ prs[p] = FreeProc
      /\ \A q \in Procs : q # p => prs[q] = proc[q]
  BY <1>2 DEF TypeOK
<1>4. \A d \in Devs : prs[p].vdevs[d] = None
  BY <1>3 DEF NoDevice, FreeProc
<1>5. bs \in SUBSET Backends
  BY DevTypes DEF Registered, Range, TypeOK, ProcRecord
<1>6. Disconnects(prs, p)
  <2>1. PICK all, rs : all = bs /\ rs = prs
    OBVIOUS
  <2>2. /\ all \in SUBSET Backends /\ all = Registered(p) /\ rs \in [Procs -> ProcRecord]
        /\ ForceDisconnected(all, all, rs)
        /\ \A q \in Procs : q # p => rs[q] = proc[q]
        /\ \A d \in Devs : rs[p].vdevs[d] = None
    BY <1>1, <1>3, <1>4, <1>5, <2>1
  <2>3. Disconnects(rs, p)
    BY <2>2, DropsListIs
  <2>. QED
    BY <2>1, <2>3
<1> HIDE DEF prs, bs
<1>7. /\ TypeOK' /\ busy' = busy
      /\ DOMAIN stack' = DOMAIN stack /\ Depth' = Depth
      /\ \A i \in DOMAIN stack : stack'[i].proc = stack[i].proc /\ stack'[i].by = stack[i].by
      /\ Held'
  BY <1>6, LosingHeld DEF Disconnects
<1>8. /\ proc'[p].st = "free" /\ proc'[p].work = 0 /\ proc'[p].del = None
      /\ ~proc'[p].need
      /\ \A q \in Procs : q # p =>
           /\ proc'[q].st = proc[q].st /\ proc'[q].uid = proc[q].uid
           /\ proc'[q].work = proc[q].work /\ proc'[q].need = proc[q].need
           /\ proc'[q].del = proc[q].del
  BY <1>3, <1>6 DEF FreeProc, Disconnects
<1>9. Waiting(p) = {}
  <2> SUFFICES ASSUME NEW i \in Waiting(p) PROVE FALSE
    OBVIOUS
  <2>1. proc[p].del < i
    BY <1>1 DEF Working, Leaving
  <2>. QED
    BY <1>1, <2>1, StackIs, Fields DEF Waiting
<1>10. \A q : Waiting(q)' = Waiting(q)
  BY <1>7 DEF Waiting
<1>11. Counted'
  <2>1. \A q \in Procs : proc'[q].work = proc[q].work
    BY <1>8, <1>9, NoneWaits DEF Working
  <2>. QED
    BY <1>10, <2>1 DEF Working, Counted
<1>12. Leaving'
  BY <1>7, <1>8, <1>10, NoneIsNone DEF Working, Leaving
<1>13. Served'
  <2> SUFFICES ASSUME NEW i \in DOMAIN stack
               PROVE  proc'[stack[i].proc].st # "free" /\ stack[i].by = proc'[stack[i].proc].uid
    BY <1>7 DEF Served, Alive
  <2>1. stack[i].proc \in Procs /\ stack[i].proc # p
    BY <1>9, StackIs DEF Frame, Waiting
  <2>. QED
    BY <1>8, <2>1 DEF Working, Served, Alive
<1>. QED
  BY <1>7, <1>11, <1>12, <1>13 DEF Working
-----------------------------------------------------------------------------
(***************************************************************************)
(* Working begin.                                                         *)
(***************************************************************************)
LEMMA StackGrows ==
  ASSUME TypeOK, NEW f \in Frame, stack' = Append(stack, f), Depth < MaxDepth
  PROVE  /\ stack' \in Seq(Frame) /\ Len(stack') = Depth + 1 /\ Len(stack') <= MaxDepth
         /\ DOMAIN stack' = 1..(Depth + 1) /\ stack'[Depth + 1] = f
         /\ \A i \in 1..Depth : stack'[i] = stack[i]
<1>1. stack \in Seq(Frame) /\ Depth \in Nat
  BY StackIs DEF TypeOK
<1>2. /\ stack' \in Seq(Frame) /\ Len(stack') = Depth + 1 /\ stack'[Depth + 1] = f
      /\ \A i \in 1..Depth : stack'[i] = stack[i]
  BY <1>1, AppendProperties DEF Depth
<1>. QED
  BY <1>1, <1>2, LenProperties, ConstantsAssumption

LEMMA MoreWork ==
  ASSUME TypeOK, Counted, NEW p \in Procs, Depth < MaxDepth
  PROVE  proc[p].work + 1 \in 0..MaxDepth
BY StackIs, WaitingFinite, ConstantsAssumption DEF Counted

LEMMA ExecCommandInv ==
  ASSUME Inv, NEW p \in Procs, ExecCommand(p)
  PROVE  Inv'
<1> USE DEF Inv
<1> DEFINE f == [proc |-> p, by |-> proc[p].uid, be |-> None, phase |-> "exec"]
           r == [proc[p] EXCEPT !.work = @ + 1]
<1>1. /\ Hears(p) /\ Depth < MaxDepth /\ stack' = Append(stack, f) /\ busy' = None
      /\ proc' = [proc EXCEPT ![p] = r] /\ UNCHANGED <<backend, virt, object, spoiled>>
  BY DEF ExecCommand, Command, Waits
<1>2. f \in Frame /\ f.proc = p /\ f.by = proc[p].uid /\ f.be = None /\ f.phase = "exec"
  <2>1. proc[p].uid \in Users
    BY DEF TypeOK, ProcRecord, ExecCommand, Command
  <2>. QED
    BY <2>1 DEF Frame
<1> HIDE DEF f
<1>3. /\ stack' \in Seq(Frame) /\ Len(stack') = Depth + 1 /\ Len(stack') <= MaxDepth
      /\ DOMAIN stack' = 1..(Depth + 1) /\ stack'[Depth + 1] = f
      /\ \A i \in 1..Depth : stack'[i] = stack[i]
  BY <1>1, <1>2, StackGrows
<1>4. /\ r \in ProcRecord /\ r.vdevs = proc[p].vdevs /\ r.work = proc[p].work + 1
      /\ r.need = proc[p].need /\ r.del = proc[p].del /\ r.uid = proc[p].uid
      /\ r.st = proc[p].st
  <2>1. proc[p] \in ProcRecord /\ proc[p].work + 1 \in 0..MaxDepth
    BY <1>1, MoreWork DEF TypeOK, Working
  <2>. QED
    BY <2>1 DEF ProcRecord
<1> HIDE DEF r
<1>5. proc'[p] = r /\ \A q \in Procs : q # p => proc'[q] = proc[q]
  BY <1>1 DEF TypeOK
<1>6. TypeOK'
  BY <1>1, <1>3, <1>4 DEF TypeOK, Depth
<1>7. Starts(p)
  BY <1>1, <1>2, <1>3, <1>4, <1>5 DEF Starts
<1>8. \A q \in Procs : /\ proc'[q].vdevs = proc[q].vdevs /\ proc'[q].uid = proc[q].uid
                       /\ proc'[q].st = proc[q].st
  BY <1>4, <1>5
<1>9. Hearing' /\ Permitted'
  BY <1>1, <1>8, DevTypes, NoneIsNone DEF Held, Hearing, Permitted, DevOf
<1>10. Listing'
  BY <1>1, <1>8 DEF Held, Listing, DevOf
<1>11. Registry'
  BY <1>1 DEF Held, Registry, DevOf
<1>12. Identifying'
  <2>1. \A i \in DOMAIN stack' : i # Depth + 1 => i \in DOMAIN stack /\ stack'[i] = stack[i]
    BY <1>3, StackIs
  <2>2. stack'[Depth + 1].be = None /\ stack'[Depth + 1].phase = "exec"
    BY <1>2, <1>3
  <2>. QED
    BY <1>1, <2>1, <2>2 DEF Held, Identifying, DevOf
<1>. QED
  BY <1>6, <1>7, <1>9, <1>10, <1>11, <1>12, StartsCommands DEF Held
LEMMA UnusedIs ==
  ASSUME TypeOK, NEW b \in Backends, UnusedBackend(b)
  PROVE  /\ \A d \in Devs : virt[d] # b /\ object[d] # b
         /\ \A p \in Procs, d \in Devs : proc[p].vdevs[d] # b
         /\ \A i \in DOMAIN stack : stack[i].be # b
<1>1. DOMAIN virt = Devs /\ DOMAIN object = Devs
  BY DEF TypeOK
<1>2. \A p \in Procs : DOMAIN proc[p].vdevs = Devs
  BY DEF TypeOK, ProcRecord
<1>3. b \notin Range(virt) /\ b \notin Range(object) /\ \A p \in Procs : b \notin Range(proc[p].vdevs)
  BY DEF UnusedBackend
<1>4. \A i \in DOMAIN stack : stack[i].be # b
  BY StackIs DEF UnusedBackend
<1>. QED
  BY <1>1, <1>2, <1>3, <1>4 DEF Range

(* The registry has the identifier: the new backend is deleted. *)
LEMMA RefusedInv ==
  ASSUME Inv, NEW p \in Procs, NEW d \in Devs, RegisterVDev(p, d), virt[d] # None
  PROVE  Inv'
<1> USE DEF Inv
<1>1. /\ proc' = [proc EXCEPT ![p].vdevs[d] = None]
      /\ UNCHANGED <<backend, virt, object, stack, busy>>
      /\ spoiled' = IF proc[p].vdevs[d] = None THEN spoiled ELSE spoiled \cup {d}
  BY DEF RegisterVDev
<1>2. PICK v : v = [proc[p].vdevs EXCEPT ![d] = None]
  OBVIOUS
<1>3. /\ proc[p] \in ProcRecord /\ v \in [Devs -> Backends \cup {None}]
      /\ \A e \in Devs : v[e] = IF e = d THEN None ELSE proc[p].vdevs[e]
  BY <1>2 DEF TypeOK, ProcRecord
<1> DEFINE r == [proc[p] EXCEPT !.vdevs = v]
<1>4. /\ r \in ProcRecord /\ r.vdevs = v /\ r.work = proc[p].work
      /\ r.need = proc[p].need /\ r.del = proc[p].del /\ r.uid = proc[p].uid
      /\ r.st = proc[p].st
  BY <1>3 DEF ProcRecord
<1>5. proc' = [proc EXCEPT ![p] = r]
  BY <1>1, <1>2
<1> HIDE DEF r
<1>6. proc'[p] = r /\ \A q \in Procs : q # p => proc'[q] = proc[q]
  BY <1>5 DEF TypeOK
<1>7. TypeOK'
  BY <1>1, <1>4, <1>5 DEF TypeOK, Depth
<1>8. Steady
  BY <1>1, <1>4, <1>6 DEF Steady, Depth
<1>9. \A q \in Procs :
        /\ proc'[q].uid = proc[q].uid /\ proc'[q].st = proc[q].st
        /\ \A e \in Devs : proc'[q].vdevs[e] =
             IF q = p /\ e = d THEN None ELSE proc[q].vdevs[e]
  BY <1>3, <1>4, <1>6
<1>10. spoiled \subseteq spoiled' /\ (proc[p].vdevs[d] # None => d \in spoiled')
  BY <1>1
<1>11. Hearing' /\ Permitted'
  <2>1. ASSUME NEW b \in Backends, backend[b].heard # None, DevOf(b) \notin spoiled'
        PROVE  proc'[backend[b].heard].vdevs[DevOf(b)] = b
    <3>1. backend[b].heard \in Procs /\ DevOf(b) \in Devs
      BY <2>1, DevTypes DEF Held, Hearing
    <3>2. proc[backend[b].heard].vdevs[DevOf(b)] = b
      BY <1>10, <2>1 DEF Held, Hearing
    <3>. QED
      BY <1>9, <1>10, <2>1, <3>1, <3>2, NoneIsNone
  <2>. QED
    BY <1>1, <1>9, <1>10, <2>1, DevTypes DEF Held, Hearing, Permitted, DevOf
<1>12. Listing'
  BY <1>1, <1>9 DEF Held, Listing, DevOf
<1>13. Registry' /\ Identifying'
  BY <1>1, <1>10 DEF Held, Registry, Identifying, DevOf
<1>. QED
  BY <1>7, <1>8, <1>11, <1>12, <1>13, SteadyCommands DEF Held

LEMMA RegisteredInv ==
  ASSUME Inv, NEW p \in Procs, NEW d \in Devs, RegisterVDev(p, d), virt[d] = None
  PROVE  Inv'
<1> USE DEF Inv
<1>1. PICK b \in Backends :
        /\ UnusedBackend(b)
        /\ proc' = [proc EXCEPT ![p].vdevs[d] = b, ![p].work = @ + 1]
        /\ backend' = [backend EXCEPT ![b] =
             [live |-> TRUE, dev |-> d, cb |-> p, heard |-> p, by |-> proc[p].uid]]
        /\ Waits(p, "identify", b)
  BY DEF RegisterVDev
<1>2. /\ Hears(p) /\ proc[p].uid # None /\ Depth < MaxDepth
      /\ UNCHANGED <<virt, object>>
      /\ spoiled' = IF proc[p].vdevs[d] = None THEN spoiled ELSE spoiled \cup {d}
  BY DEF RegisterVDev, Command
<1> DEFINE f == [proc |-> p, by |-> proc[p].uid, be |-> b, phase |-> "identify"]
           n == [live |-> TRUE, dev |-> d, cb |-> p, heard |-> p, by |-> proc[p].uid]
<1>3. proc[p] \in ProcRecord /\ proc[p].uid \in Users
  BY <1>2 DEF TypeOK, ProcRecord
<1>4. f \in Frame /\ f.proc = p /\ f.by = proc[p].uid /\ f.be = b /\ f.phase = "identify"
  BY <1>3 DEF Frame
<1>5. /\ n \in BackendRecord /\ n.live /\ n.dev = d /\ n.cb = p /\ n.heard = p
      /\ n.by = proc[p].uid
  BY <1>3 DEF BackendRecord
<1>6. stack' = Append(stack, f) /\ busy' = None
  BY <1>1 DEF Waits
<1>7. backend'[b] = n /\ \A c \in Backends : c # b => backend'[c] = backend[c]
  BY <1>1 DEF TypeOK
<1> HIDE DEF f, n
<1>8. /\ stack' \in Seq(Frame) /\ Len(stack') = Depth + 1 /\ Len(stack') <= MaxDepth
      /\ DOMAIN stack' = 1..(Depth + 1) /\ stack'[Depth + 1] = f
      /\ \A i \in 1..Depth : stack'[i] = stack[i]
  BY <1>2, <1>4, <1>6, StackGrows
<1>9. PICK v : v = [proc[p].vdevs EXCEPT ![d] = b]
  OBVIOUS
<1>10. /\ v \in [Devs -> Backends \cup {None}]
       /\ \A e \in Devs : v[e] = IF e = d THEN b ELSE proc[p].vdevs[e]
  BY <1>3, <1>9 DEF ProcRecord
<1> DEFINE r == [proc[p] EXCEPT !.vdevs = v, !.work = @ + 1]
<1>11. /\ r \in ProcRecord /\ r.vdevs = v /\ r.work = proc[p].work + 1
       /\ r.need = proc[p].need /\ r.del = proc[p].del /\ r.uid = proc[p].uid
       /\ r.st = proc[p].st
  <2>1. proc[p].work + 1 \in 0..MaxDepth
    BY <1>2, MoreWork DEF Working
  <2>. QED
    BY <1>3, <1>10, <2>1 DEF ProcRecord
<1>12. proc' = [proc EXCEPT ![p] = r]
  BY <1>1, <1>9
<1> HIDE DEF r
<1>13. proc'[p] = r /\ \A q \in Procs : q # p => proc'[q] = proc[q]
  BY <1>12 DEF TypeOK
<1>14. TypeOK'
  <2>1. backend' \in [Backends -> BackendRecord]
    BY <1>1, <1>5, <1>7 DEF TypeOK
  <2>2. proc' \in [Procs -> ProcRecord]
    BY <1>11, <1>12 DEF TypeOK
  <2>. QED
    BY <1>2, <1>6, <1>8, <2>1, <2>2 DEF TypeOK, Depth
<1>15. Starts(p)
  BY <1>2, <1>4, <1>6, <1>8, <1>11, <1>13 DEF Starts
<1>16. \A q \in Procs :
         /\ proc'[q].uid = proc[q].uid /\ proc'[q].st = proc[q].st
         /\ \A e \in Devs : proc'[q].vdevs[e] =
              IF q = p /\ e = d THEN b ELSE proc[q].vdevs[e]
  BY <1>10, <1>11, <1>13
<1>17. spoiled \subseteq spoiled' /\ (proc[p].vdevs[d] # None => d \in spoiled')
  BY <1>2
<1>18. /\ \A e \in Devs : virt[e] # b /\ object[e] # b
       /\ \A q \in Procs, e \in Devs : proc[q].vdevs[e] # b
       /\ \A i \in DOMAIN stack : stack[i].be # b
  BY <1>1, UnusedIs
<1>19. Hearing' /\ Permitted'
  <2>1. ASSUME NEW c \in Backends, c # b, backend[c].heard # None, DevOf(c) \notin spoiled'
        PROVE  proc'[backend[c].heard].vdevs[DevOf(c)] = c
    <3>1. backend[c].heard \in Procs /\ DevOf(c) \in Devs
      BY <2>1, DevTypes DEF Held, Hearing
    <3>2. proc[backend[c].heard].vdevs[DevOf(c)] = c
      BY <1>17, <2>1 DEF Held, Hearing
    <3>. QED
      BY <1>16, <1>17, <2>1, <3>1, <3>2, NoneIsNone
  <2>2. proc'[p].vdevs[d] = b /\ proc'[p].uid = proc[p].uid
    BY <1>16
  <2>3. Hearing'
    BY <1>5, <1>7, <1>17, <2>1, <2>2 DEF Held, Hearing, DevOf
  <2>4. ASSUME NEW c \in Backends, c # b, backend[c].cb # None, DevOf(c) \notin spoiled'
        PROVE  backend[c].by = proc'[backend[c].cb].uid
    BY <1>16, <1>17, <2>4, DevTypes DEF Held, Permitted
  <2>5. Permitted'
    BY <1>5, <1>7, <2>2, <2>4 DEF Permitted, DevOf
  <2>. QED
    BY <2>3, <2>5
<1>20. Listing'
  <2>1. proc[p].st # "free"
    BY <1>2 DEF Hears, Working, Leaving
  <2>2. ASSUME NEW q \in Procs, NEW e \in Devs, proc'[q].vdevs[e] # None
        PROVE  LET c == proc'[q].vdevs[e]
               IN  backend'[c].live /\ backend'[c].heard = q /\ backend'[c].dev = e
    <3>1. CASE q = p /\ e = d
      BY <1>5, <1>7, <1>16, <3>1
    <3>2. CASE ~(q = p /\ e = d)
      <4>1. proc'[q].vdevs[e] = proc[q].vdevs[e] /\ proc[q].vdevs[e] \in Backends \ {b}
        BY <1>16, <1>18, <2>2, <3>2, DevTypes
      <4>. QED
        BY <1>7, <2>2, <4>1 DEF Held, Listing, DevOf
    <3>. QED
      BY <3>1, <3>2
  <2>3. ASSUME NEW q \in Procs, proc'[q].st = "free", NEW e \in Devs
        PROVE  proc'[q].vdevs[e] = None
    BY <1>16, <2>1, <2>3 DEF Held, Listing
  <2>. QED
    BY <2>2, <2>3 DEF Listing, DevOf
<1>21. Registry'
  BY <1>2, <1>7, <1>17, <1>18, DevTypes DEF Held, Registry, DevOf
<1>22. Identifying'
  <2>1. \A i \in DOMAIN stack' : i # Depth + 1 => i \in DOMAIN stack /\ stack'[i] = stack[i]
    BY <1>8, StackIs
  <2>2. /\ stack'[Depth + 1].be = b /\ stack'[Depth + 1].phase = "identify"
        /\ backend'[b].live /\ backend'[b].dev = d /\ backend'[b].cb # None
    BY <1>4, <1>5, <1>7, <1>8, NoneIsNone
  <2>3. ASSUME NEW i \in DOMAIN stack
        PROVE  /\ stack[i].be # b
               /\ stack[i].phase # "exec" => backend'[stack[i].be] = backend[stack[i].be]
    BY <1>7, <1>18 DEF Held, Identifying
  <2>4. ASSUME NEW i \in DOMAIN stack', i # Depth + 1
        PROVE  LET c == stack'[i].be
               IN  /\ stack'[i].phase # "exec" => c \in Backends
                   /\ stack'[i].phase = "exec" => c = None
                   /\ \A j \in DOMAIN stack' : c # None /\ stack'[j].be = c => j = i
                   /\ stack'[i].phase \in {"identify", "answered", "failed"} =>
                        /\ backend'[c].live /\ backend'[c].dev \in Devs
                        /\ \A e \in Devs : virt'[e] # c /\ object'[e] # c
                   /\ stack'[i].phase = "identify" => backend'[c].cb # None
                   /\ stack'[i].phase = "answered" /\ backend'[c].dev \notin spoiled' =>
                        backend'[c].cb # None
                   /\ stack'[i].phase = "describe" /\ backend'[c].live =>
                        backend'[c].dev \in Devs /\ object'[backend'[c].dev] = c
                        /\ backend'[c].cb # None
    <3>1. i \in DOMAIN stack /\ stack'[i] = stack[i] /\ stack[i].be # b
      BY <2>1, <2>3, <2>4
    <3>2. \A j \in DOMAIN stack' : stack[i].be # None /\ stack'[j].be = stack[i].be => j = i
      BY <2>1, <2>2, <3>1 DEF Held, Identifying
    <3>. QED
      BY <1>2, <1>17, <2>3, <3>1, <3>2 DEF Held, Identifying, DevOf
  <2>5. \A j \in DOMAIN stack' : stack'[j].be = b => j = Depth + 1
    BY <2>1, <2>3
  <2>. QED
    BY <1>2, <1>18, <2>2, <2>4, <2>5 DEF Identifying, DevOf
<1>. QED
  BY <1>14, <1>15, <1>19, <1>20, <1>21, <1>22, StartsCommands DEF Held
-----------------------------------------------------------------------------
(***************************************************************************)
(* Working go on and end.                                                 *)
(***************************************************************************)
LEMMA EndsIs ==
  ASSUME TypeOK, Counted, stack # <<>>, NEW prs \in [Procs -> ProcRecord], Ends(prs),
         \A p \in Procs : prs[p].work = proc[p].work
  PROVE  /\ stack' \in Seq(Frame) /\ Depth' <= MaxDepth
         /\ \A i \in DOMAIN stack' : i \in DOMAIN stack /\ i # Depth /\ stack'[i] = stack[i]
         /\ busy' \in Procs \cup {None}
         /\ proc' \in [Procs -> ProcRecord]
         /\ \A p \in Procs : /\ proc'[p].vdevs = prs[p].vdevs /\ proc'[p].uid = prs[p].uid
                             /\ proc'[p].st = prs[p].st
<1>1. PICK t \in Procs : t = Top.proc
  BY TopIs DEF Frame
<1>2. /\ Depth \in Nat \ {0} /\ Depth <= MaxDepth /\ DOMAIN stack = 1..Depth
      /\ t = stack[Depth].proc /\ stack' = Front(stack)
      /\ busy' = IF proc[t].st = "left" THEN t ELSE None
      /\ proc' = [prs EXCEPT ![t] = Ended(@)]
  BY <1>1, TopIs, StackIs DEF Ends, TypeOK
<1>3. /\ stack' \in Seq(Frame) /\ Depth' <= MaxDepth
      /\ \A i \in DOMAIN stack' : i \in DOMAIN stack /\ i # Depth /\ stack'[i] = stack[i]
  BY <1>2, TopIs, ConstantsAssumption DEF Depth
<1>4. Depth \in Waiting(t)
  BY <1>2 DEF Waiting
<1>5. prs[t].work - 1 \in 0..MaxDepth
  <2>1. proc[t].work # 0
    BY <1>4, NoneWaits
  <2>2. proc[t].work \in 0..MaxDepth
    BY DEF TypeOK, ProcRecord
  <2>. QED
    BY <2>1, <2>2, ConstantsAssumption
<1> DEFINE r == Ended(prs[t])
<1>6. r \in ProcRecord /\ r.vdevs = prs[t].vdevs /\ r.uid = prs[t].uid /\ r.st = prs[t].st
  <2>1. PICK del \in 0..MaxDepth \cup {None} :
          del = IF prs[t].work = 1 /\ prs[t].need /\ prs[t].del = None
                  THEN Depth - 1 ELSE prs[t].del
    <3>1. Depth - 1 \in 0..MaxDepth
      BY <1>2, ConstantsAssumption
    <3>2. prs[t].del \in 0..MaxDepth \cup {None}
      BY DEF ProcRecord
    <3>. QED
      BY <3>1, <3>2, Zenon
  <2>2. prs[t] \in ProcRecord
    OBVIOUS
  <2>3. r = [prs[t] EXCEPT !.work = @ - 1, !.del = del]
    BY <2>1, <2>2 DEF Ended, ProcRecord
  <2>. QED
    BY <1>5, <2>2, <2>3 DEF ProcRecord
<1>7. proc' \in [Procs -> ProcRecord] /\ proc'[t] = r /\ \A p \in Procs : p # t => proc'[p] = prs[p]
  BY <1>2, <1>6
<1>. QED
  BY <1>2, <1>3, <1>6, <1>7

(* A command ends and no backend is lost. *)
LEMMA EndsQuietly ==
  ASSUME Inv, stack # <<>>, busy = None, Ends(proc)
  PROVE  /\ Working'
         /\ stack' \in Seq(Frame) /\ Depth' <= MaxDepth
         /\ \A i \in DOMAIN stack' : i \in DOMAIN stack /\ i # Depth /\ stack'[i] = stack[i]
         /\ busy' \in Procs \cup {None} /\ proc' \in [Procs -> ProcRecord]
         /\ \A p \in Procs : /\ proc'[p].vdevs = proc[p].vdevs /\ proc'[p].uid = proc[p].uid
                             /\ proc'[p].st = proc[p].st
<1>1. proc \in [Procs -> ProcRecord]
  BY DEF Inv, TypeOK
<1>2. PICK t \in Procs : t = Top.proc
  BY TopIs DEF Inv, Frame
<1>3. Working'
  BY <1>1, <1>2, EndsCommands DEF Inv
<1>. QED
  BY <1>1, <1>3, EndsIs DEF Inv, Working

LEMMA ExecEndsInv ==
  ASSUME Inv, busy = None, ExecEnds
  PROVE  Inv'
<1>1. stack # <<>> /\ Ends(proc) /\ UNCHANGED <<backend, virt, object, spoiled>>
  BY DEF ExecEnds, Phase
<1>2. TypeOK'
  BY <1>1, EndsQuietly DEF Inv, TypeOK
<1>3. Quiet
  BY <1>1, EndsQuietly DEF Quiet
<1>. QED
  BY <1>1, <1>2, <1>3, EndsQuietly, QuietHeld DEF Inv

(* The identification failed, or another connection is preferred. *)
LEMMA DestroyedInv ==
  ASSUME Inv, busy = None, stack # <<>>, Top.phase \in {"identify", "answered", "failed"},
         NEW b, b = Top.be, Destroyed({b}), Ends(Forget(proc, {b}))
  PROVE  Inv'
<1> USE DEF Inv
<1>1. PICK t \in Procs : t = Top.proc
  BY TopIs DEF Frame
<1>2. /\ Depth \in DOMAIN stack /\ b \in Backends /\ b = stack[Depth].be
      /\ \A d \in Devs : virt[d] # b /\ object[d] # b
      /\ \A i \in DOMAIN stack : stack[i].be = b => i = Depth
  <2>1. Depth \in DOMAIN stack /\ b = stack[Depth].be /\ Top = stack[Depth]
    BY TopIs, StackIs
  <2>2. b \in Backends
    BY <2>1 DEF Held, Identifying
  <2>. QED
    BY <2>1, <2>2, NoneIsNone DEF Held, Identifying
<1>3. PICK bs, F : bs = {b} /\ F = Forget(proc, bs)
  OBVIOUS
<1>4. proc \in [Procs -> ProcRecord]
  BY DEF TypeOK
<1>5. /\ F \in [Procs -> ProcRecord]
      /\ \A p \in Procs :
           /\ F[p].st = proc[p].st /\ F[p].uid = proc[p].uid
           /\ F[p].work = proc[p].work /\ F[p].need = proc[p].need
           /\ F[p].del = proc[p].del
           /\ \A d \in Devs : F[p].vdevs[d] =
                IF \E c \in bs : DevOf(c) = d /\ backend[c].heard = p
                  THEN None ELSE proc[p].vdevs[d]
  BY <1>3, <1>4, ForgetIs
<1>6. Ends(F)
  BY <1>3
<1>7. Working'
  BY <1>1, <1>5, <1>6, EndsCommands
<1>8. /\ stack' \in Seq(Frame) /\ Depth' <= MaxDepth
      /\ \A i \in DOMAIN stack' : i \in DOMAIN stack /\ i # Depth /\ stack'[i] = stack[i]
      /\ busy' \in Procs \cup {None}
      /\ proc' \in [Procs -> ProcRecord]
      /\ \A p \in Procs : /\ proc'[p].vdevs = F[p].vdevs /\ proc'[p].uid = F[p].uid
                          /\ proc'[p].st = F[p].st
  BY <1>5, <1>6, EndsIs DEF Working
<1>9. /\ backend' = [c \in Backends |-> IF c = b THEN FreeBackend ELSE backend[c]]
      /\ virt' = virt /\ object' = object
      /\ spoiled' = {d \in spoiled : \E c \in Backends \ {b} : backend[c].dev = d}
  BY <1>2 DEF Destroyed, TypeOK
<1>10. TypeOK'
  <2>1. backend' \in [Backends -> BackendRecord]
    BY <1>9, FreeBackendIs DEF TypeOK
  <2>. QED
    BY <1>8, <1>9, <2>1 DEF TypeOK
<1>11. Losing({b}, {}, None)
  <2>1. \A p \in Procs, d \in Devs : proc'[p].vdevs[d] =
          IF p = None \/ \E c \in {b} : DevOf(c) = d /\ backend[c].heard = p
            THEN None ELSE proc[p].vdevs[d]
    <3>1. \A p \in Procs, d \in Devs : proc'[p].vdevs[d] =
            IF \E c \in bs : DevOf(c) = d /\ backend[c].heard = p
              THEN None ELSE proc[p].vdevs[d]
      BY <1>5, <1>8
    <3>. QED
      BY <1>3, <3>1, NoneIsNone
  <2>2. \A p \in Procs : proc'[p].uid = proc[p].uid /\ proc'[p].st = proc[p].st
    BY <1>5, <1>8
  <2>3. \A c \in Backends \ {b} : DevOf(c) \in spoiled => DevOf(c) \in spoiled'
    BY <1>9 DEF DevOf
  <2>. QED
    BY <1>2, <1>8, <1>9, <2>1, <2>2, <2>3, NoneIsNone DEF Losing
<1>. QED
  BY <1>7, <1>10, <1>11, LosingHeld

LEMMA NotIdentifiedInv ==
  ASSUME Inv, busy = None, NotIdentified
  PROVE  Inv'
BY DestroyedInv DEF NotIdentified, Phase

LEMMA AnsweredInv ==
  ASSUME Inv, Answered
  PROVE  Inv'
<1> USE DEF Inv
<1>1. /\ stack # <<>> /\ Top.phase = "identify"
      /\ stack' = [stack EXCEPT ![Depth].phase = "answered"]
      /\ UNCHANGED <<proc, backend, virt, object, busy, spoiled>>
  BY DEF Answered, Phase
<1>2. Depth \in 1..Depth /\ DOMAIN stack = 1..Depth /\ Top = stack[Depth]
      /\ stack[Depth] \in Frame
  BY <1>1, TopIs, StackIs
<1> DEFINE f == [stack[Depth] EXCEPT !.phase = "answered"]
<1>3. f \in Frame /\ f.proc = stack[Depth].proc /\ f.by = stack[Depth].by
      /\ f.be = stack[Depth].be /\ f.phase = "answered"
  BY <1>2 DEF Frame
<1>4. stack' = [stack EXCEPT ![Depth] = f]
  BY <1>1, <1>2
<1> HIDE DEF f
<1>5. /\ stack' \in Seq(Frame) /\ Depth' = Depth
  BY <1>2, <1>3, <1>4, ExceptSeq DEF TypeOK, Depth
<1>6. DOMAIN stack' = DOMAIN stack /\ stack'[Depth] = f
      /\ \A i \in DOMAIN stack : i # Depth => stack'[i] = stack[i]
  BY <1>2, <1>4
<1>7. TypeOK'
  BY <1>1, <1>5 DEF TypeOK
<1>8. Steady
  BY <1>1, <1>3, <1>5, <1>6 DEF Steady
<1>9. Hearing' /\ Permitted' /\ Listing' /\ Registry'
  BY <1>1 DEF Held, Hearing, Permitted, Listing, Registry, DevOf
<1>10. Identifying'
  <2>1. \A i \in DOMAIN stack : /\ stack'[i].be = stack[i].be
                                /\ i # Depth => stack'[i].phase = stack[i].phase
    BY <1>3, <1>6
  <2>2. stack[Depth].phase = "identify" /\ stack'[Depth].phase = "answered"
    BY <1>1, <1>2, <1>3, <1>6
  <2>. QED
    BY <1>1, <1>6, <2>1, <2>2 DEF Held, Identifying, DevOf
<1>. QED
  BY <1>7, <1>8, <1>9, <1>10, SteadyCommands DEF Held
(* What is known of the innermost command once its device has answered. *)
LEMMA TopAnswered ==
  ASSUME Inv, stack # <<>>, Top.phase \in {"answered", "describe"}
  PROVE  /\ Depth \in DOMAIN stack /\ Depth \in 1..Depth /\ DOMAIN stack = 1..Depth
         /\ Top = stack[Depth] /\ Top \in Frame /\ Top.be \in Backends
         /\ Top.phase = "answered" =>
              /\ backend[Top.be].live /\ DevOf(Top.be) \in Devs
              /\ \A d \in Devs : virt[d] # Top.be /\ object[d] # Top.be
              /\ DevOf(Top.be) \notin spoiled => backend[Top.be].cb # None
         /\ Top.phase = "describe" /\ backend[Top.be].live =>
              /\ DevOf(Top.be) \in Devs /\ object[DevOf(Top.be)] = Top.be
              /\ backend[Top.be].cb # None
         /\ \A i \in DOMAIN stack : i # Depth => stack[i].be # Top.be
<1>1. Depth \in DOMAIN stack /\ DOMAIN stack = 1..Depth /\ Top = stack[Depth] /\ Top \in Frame
  BY TopIs, StackIs DEF Inv
<1>2. Top.be \in Backends
  BY <1>1 DEF Inv, Held, Identifying
<1>. QED
  BY <1>1, <1>2, NoneIsNone DEF Inv, Held, Identifying

(* The device is new or gets connected: it is asked for its description. *)
LEMMA ToDescribeInv ==
  ASSUME Inv, stack # <<>>, Top.phase = "answered", NEW b, b = Top.be, NEW d, d = DevOf(b),
         object[d] \in {"unknown", None}, backend[b].cb # None,
         object' = [object EXCEPT ![d] = b],
         stack' = [stack EXCEPT ![Depth].phase = "describe"],
         UNCHANGED <<proc, backend, virt, busy, spoiled>>
  PROVE  Inv'
<1> USE DEF Inv
<1>1. /\ Depth \in DOMAIN stack /\ Depth \in 1..Depth /\ DOMAIN stack = 1..Depth
      /\ Top = stack[Depth] /\ Top \in Frame /\ b \in Backends /\ backend[b].live /\ d \in Devs
      /\ b = stack[Depth].be
      /\ \A i \in DOMAIN stack : i # Depth => stack[i].be # b
  BY TopAnswered
<1> DEFINE f == [stack[Depth] EXCEPT !.phase = "describe"]
<1>2. f \in Frame /\ f.proc = stack[Depth].proc /\ f.by = stack[Depth].by
      /\ f.be = b /\ f.phase = "describe"
  BY <1>1 DEF Frame
<1>3. stack' = [stack EXCEPT ![Depth] = f]
  BY <1>1
<1> HIDE DEF f
<1>4. stack' \in Seq(Frame) /\ Depth' = Depth
  BY <1>1, <1>2, <1>3, ExceptSeq DEF TypeOK, Depth
<1>5. DOMAIN stack' = DOMAIN stack /\ stack'[Depth] = f
      /\ \A i \in DOMAIN stack : i # Depth => stack'[i] = stack[i]
  BY <1>1, <1>3
<1>6. object'[d] = b /\ \A e \in Devs : e # d => object'[e] = object[e]
  BY <1>1 DEF TypeOK
<1>7. TypeOK'
  BY <1>1, <1>4 DEF TypeOK
<1>8. Steady
  BY <1>1, <1>2, <1>4, <1>5 DEF Steady
<1>9. Hearing' /\ Permitted' /\ Listing'
  BY DEF Held, Hearing, Permitted, Listing, DevOf
<1>10. Registry'
  BY <1>1, <1>6, DevTypes, NoneIsNone DEF Held, Registry, DevOf
<1>11. Identifying'
  <2>1. \A i \in DOMAIN stack : /\ stack'[i].be = stack[i].be
                                /\ i # Depth => stack'[i].phase = stack[i].phase
    BY <1>1, <1>2, <1>5
  <2>2. stack'[Depth].phase = "describe" /\ stack'[Depth].be = b
    BY <1>2, <1>5
  <2>3. ASSUME NEW i \in DOMAIN stack, i # Depth,
               stack[i].phase \in {"identify", "answered", "failed"}
        PROVE  \A e \in Devs : object'[e] # stack[i].be
    BY <1>1, <1>6, <2>3 DEF Held, Identifying
  <2>4. ASSUME NEW i \in DOMAIN stack, i # Depth, stack[i].phase = "describe",
               backend[stack[i].be].live
        PROVE  object'[DevOf(stack[i].be)] = stack[i].be
    <3>1. DevOf(stack[i].be) \in Devs /\ object[DevOf(stack[i].be)] = stack[i].be
          /\ stack[i].be \in Backends
      BY <2>4 DEF Held, Identifying
    <3>. QED
      BY <1>6, <3>1, NoneIsNone
  <2>. QED
    BY <1>1, <1>5, <1>6, <2>1, <2>2, <2>3, <2>4 DEF Held, Identifying, DevOf
<1>. QED
  BY <1>7, <1>8, <1>9, <1>10, <1>11, SteadyCommands DEF Held

(* The device is listed with the backend of the innermost command. *)
LEMMA ListedInv ==
  ASSUME Inv, busy = None, stack # <<>>, NEW b, b = Top.be, NEW d, d = DevOf(b),
         \/ Top.phase = "answered" /\ object[d] \notin Backends
         \/ Top.phase = "describe" /\ backend[b].live,
         object' = [object EXCEPT ![d] = b], Listed(b), Ends(proc)
  PROVE  Inv'
<1> USE DEF Inv
<1>1. /\ b \in Backends /\ backend[b].live /\ d \in Devs
      /\ d \notin spoiled => backend[b].cb # None
      /\ \A i \in DOMAIN stack : i # Depth => stack[i].be # b
      /\ object[d] \in {b} \/ object[d] \notin Backends
  BY TopAnswered
<1>2. UNCHANGED <<backend, spoiled>> /\ virt' = [virt EXCEPT ![d] = b]
  BY DEF Listed, DevOf
<1>3. /\ Working'
      /\ stack' \in Seq(Frame) /\ Depth' <= MaxDepth
      /\ \A i \in DOMAIN stack' : i \in DOMAIN stack /\ i # Depth /\ stack'[i] = stack[i]
      /\ busy' \in Procs \cup {None} /\ proc' \in [Procs -> ProcRecord]
      /\ \A p \in Procs : /\ proc'[p].vdevs = proc[p].vdevs /\ proc'[p].uid = proc[p].uid
                          /\ proc'[p].st = proc[p].st
  BY EndsQuietly
<1>4. /\ object'[d] = b /\ \A e \in Devs : e # d => object'[e] = object[e]
      /\ virt'[d] = b /\ \A e \in Devs : e # d => virt'[e] = virt[e]
  BY <1>1, <1>2 DEF TypeOK
<1>5. TypeOK'
  BY <1>1, <1>2, <1>3 DEF TypeOK
<1>6. Hearing' /\ Permitted' /\ Listing'
  BY <1>2, <1>3, DevTypes, NoneIsNone DEF Held, Hearing, Permitted, Listing, DevOf
<1>7. Registry'
  BY <1>1, <1>2, <1>4 DEF Held, Registry, DevOf
<1>8. Identifying'
  <2>1. \A i \in DOMAIN stack' : /\ i \in DOMAIN stack /\ stack'[i] = stack[i]
                                 /\ stack[i].be # b
    BY <1>1, <1>3
  <2>2. ASSUME NEW i \in DOMAIN stack',
               stack[i].phase \in {"identify", "answered", "failed"}
        PROVE  \A e \in Devs : virt'[e] # stack[i].be /\ object'[e] # stack[i].be
    BY <1>4, <2>1, <2>2 DEF Held, Identifying
  <2>3. ASSUME NEW i \in DOMAIN stack', stack[i].phase = "describe", backend[stack[i].be].live
        PROVE  object'[DevOf(stack[i].be)] = stack[i].be
    <3>1. /\ DevOf(stack[i].be) \in Devs /\ object[DevOf(stack[i].be)] = stack[i].be
          /\ stack[i].be \in Backends /\ stack[i].be # b
      BY <2>1, <2>3 DEF Held, Identifying
    <3>. QED
      BY <1>1, <1>4, <3>1
  <2>. QED
    BY <1>2, <2>1, <2>2, <2>3 DEF Held, Identifying, DevOf
<1>. QED
  BY <1>3, <1>5, <1>6, <1>7, <1>8 DEF Held

LEMMA IdentifiedInv ==
  ASSUME Inv, busy = None, Identified
  PROVE  Inv'
<1>1. stack # <<>> /\ Top.phase = "answered"
  BY DEF Identified, Phase
<1>2. PICK b, d : b = Top.be /\ d = DevOf(b)
  OBVIOUS
<1>3. \/ /\ object[d] \in {"unknown", None} /\ backend[b].cb # None
         /\ object' = [object EXCEPT ![d] = b]
         /\ stack' = [stack EXCEPT ![Depth].phase = "describe"]
         /\ UNCHANGED <<proc, backend, virt, busy, spoiled>>
      \/ /\ object[d] \in {None, "unknown"}
         /\ object' = [object EXCEPT ![d] = b] /\ Listed(b) /\ Ends(proc)
      \/ Destroyed({b}) /\ Ends(Forget(proc, {b}))
  BY <1>2 DEF Identified, DevOf
<1>. QED
  BY <1>1, <1>2, <1>3, NoneIsNone, ToDescribeInv, ListedInv, DestroyedInv

LEMMA DescribedInv ==
  ASSUME Inv, busy = None, Described
  PROVE  Inv'
<1> USE DEF Inv
<1>1. stack # <<>> /\ Top.phase = "describe" /\ Ends(proc) /\ UNCHANGED object
  BY DEF Described, Phase
<1>2. PICK b, d : b = Top.be /\ d = DevOf(b)
  OBVIOUS
<1>3. CASE backend[b].live
  <2>1. Listed(b)
    BY <1>2, <1>3 DEF Described
  <2>2. d \in Devs /\ object[d] = b
    BY <1>1, <1>2, <1>3, TopAnswered
  <2>3. object' = [object EXCEPT ![d] = b]
    BY <1>1, <2>2 DEF TypeOK
  <2>. QED
    BY <1>1, <1>2, <1>3, <2>1, <2>3, ListedInv
<1>4. CASE ~backend[b].live
  <2>1. UNCHANGED <<backend, virt, object, spoiled>>
    BY <1>1, <1>2, <1>4 DEF Described
  <2>2. TypeOK'
    BY <1>1, <2>1, EndsQuietly DEF TypeOK
  <2>3. Quiet
    BY <1>1, <2>1, EndsQuietly DEF Quiet
  <2>. QED
    BY <1>1, <2>2, <2>3, EndsQuietly, QuietHeld
<1>. QED
  BY <1>3, <1>4
-----------------------------------------------------------------------------
(***************************************************************************)
(* The registry's device gets or loses another connection.                 *)
(***************************************************************************)
LEMMA OtherConnectionInv ==
  ASSUME Inv, NEW d \in Devs, object[d] \notin Backends, NEW x \in {None, "other"},
         object' = [object EXCEPT ![d] = x],
         UNCHANGED <<proc, backend, virt, stack, busy, spoiled>>
  PROVE  Inv'
<1> USE DEF Inv
<1>1. object'[d] = x /\ \A e \in Devs : e # d => object'[e] = object[e]
  BY DEF TypeOK
<1>2. x \notin Backends
  BY NoneIsNone
<1>3. TypeOK'
  BY DEF TypeOK, Depth
<1>4. Steady
  BY DEF Steady, Depth
<1>5. Hearing' /\ Permitted' /\ Listing'
  BY DEF Held, Hearing, Permitted, Listing, DevOf
<1>6. Registry'
  BY <1>1, <1>2, DevTypes DEF Held, Registry, DevOf
<1>7. Identifying'
  <2>1. \A i \in DOMAIN stack : stack[i].phase # "exec" => stack[i].be \in Backends
    BY DEF Held, Identifying
  <2>. QED
    BY <1>1, <1>2, <2>1 DEF Held, Identifying, DevOf
<1>. QED
  BY <1>3, <1>4, <1>5, <1>6, <1>7, SteadyCommands DEF Held

LEMMA PreferredInv ==
  ASSUME Inv, NEW d \in Devs, Preferred(d)
  PROVE  Inv'
<1> USE DEF Inv
<1>1. CASE object[d] \notin Backends
  BY <1>1, OtherConnectionInv DEF Preferred
<1>2. ASSUME object[d] \in Backends PROVE Inv'
  <2>1. PICK b \in Backends : b = object[d]
    BY <1>2
  <2>2. /\ backend' = [backend EXCEPT ![b] = FreeBackend]
        /\ virt' = [virt EXCEPT ![d] = IF @ = b THEN None ELSE @]
        /\ proc' = Forget(proc, {b})
        /\ spoiled' = {e \in spoiled : \E c \in Backends \ {b} : backend[c].dev = e}
        /\ object' = [object EXCEPT ![d] = "other"]
        /\ UNCHANGED <<stack, busy>>
    BY <2>1 DEF Preferred
  <2>3. PICK bs : bs = {b}
    OBVIOUS
  <2>4. proc \in [Procs -> ProcRecord] /\ proc' = Forget(proc, bs)
    BY <2>2, <2>3 DEF TypeOK
  <2>5. /\ proc' \in [Procs -> ProcRecord]
        /\ \A p \in Procs :
             /\ proc'[p].st = proc[p].st /\ proc'[p].uid = proc[p].uid
             /\ proc'[p].work = proc[p].work /\ proc'[p].need = proc[p].need
             /\ proc'[p].del = proc[p].del
             /\ \A e \in Devs : proc'[p].vdevs[e] =
                  IF \E c \in bs : DevOf(c) = e /\ backend[c].heard = p
                    THEN None ELSE proc[p].vdevs[e]
    <3>1. PICK F : F = Forget(proc, bs)
      OBVIOUS
    <3>2. /\ F \in [Procs -> ProcRecord]
          /\ \A p \in Procs :
             /\ F[p].st = proc[p].st /\ F[p].uid = proc[p].uid
             /\ F[p].work = proc[p].work /\ F[p].need = proc[p].need
             /\ F[p].del = proc[p].del
             /\ \A e \in Devs : F[p].vdevs[e] =
                  IF \E c \in bs : DevOf(c) = e /\ backend[c].heard = p
                    THEN None ELSE proc[p].vdevs[e]
      BY <2>4, <3>1, ForgetIs
    <3>. QED
      BY <2>4, <3>1, <3>2
  <2>6. backend[b].live /\ DevOf(b) = d
    BY <2>1 DEF Held, Registry
  <2>7. \A e \in Devs : e # d => object[e] # b /\ virt[e] # b
    BY <2>1, <2>6, NoneIsNone DEF Held, Registry
  <2>8. TypeOK'
    <3>1. backend' \in [Backends -> BackendRecord]
      BY <2>2, FreeBackendIs DEF TypeOK
    <3>. QED
      BY <2>2, <2>5, <3>1 DEF TypeOK, Depth
  <2>9. Steady
    BY <2>2, <2>5 DEF Steady, Depth
  <2>10. Losing({b}, {}, None)
    <3>1. \A p \in Procs, e \in Devs : proc'[p].vdevs[e] =
            IF p = None \/ \E c \in {b} : DevOf(c) = e /\ backend[c].heard = p
              THEN None ELSE proc[p].vdevs[e]
      BY <2>3, <2>5, NoneIsNone
    <3>2. \A i \in DOMAIN stack : stack[i].be = b => stack[i].phase = "describe"
      <4> SUFFICES ASSUME NEW i \in DOMAIN stack, stack[i].be = b
                   PROVE  stack[i].phase = "describe"
        OBVIOUS
      <4>1. stack[i].phase \in {"exec", "identify", "answered", "describe", "failed"}
        BY StackIs DEF Frame
      <4>. QED
        BY <2>1, <4>1, NoneIsNone DEF Held, Identifying
    <3>3. \A e \in Devs :
            /\ virt'[e] = IF virt[e] \in {b} THEN None ELSE virt[e]
            /\ IF object[e] \in {b} THEN object'[e] \notin Backends ELSE object'[e] = object[e]
      BY <2>1, <2>2, <2>7, NoneIsNone DEF TypeOK
    <3>4. backend'[b] = FreeBackend /\ \A c \in Backends \ {b} : backend'[c] = backend[c]
      BY <2>2 DEF TypeOK
    <3>5. \A c \in Backends \ {b} : DevOf(c) \in spoiled => DevOf(c) \in spoiled'
      BY <2>2 DEF DevOf
    <3>. QED
      BY <2>2, <2>5, <3>1, <3>2, <3>3, <3>4, <3>5, NoneIsNone DEF Losing
  <2>. QED
    BY <2>8, <2>9, <2>10, SteadyCommands, LosingHeld
<1>. QED
  BY <1>1, <1>2

LEMMA OtherLostInv ==
  ASSUME Inv, NEW d \in Devs, OtherLost(d)
  PROVE  Inv'
BY NoneIsNone, OtherConnectionInv DEF OtherLost
-----------------------------------------------------------------------------
(***************************************************************************)
(* The invariant, and what follows from it.                                *)
(***************************************************************************)
LEMMA InitInv == Init => Inv
<1> SUFFICES ASSUME Init PROVE Inv
  OBVIOUS
<1> USE DEF Init
<1>1. /\ \A p \in Procs : /\ proc[p].st = "free" /\ proc[p].work = 0 /\ ~proc[p].need
                          /\ proc[p].del = None
                          /\ \A d \in Devs : proc[p].vdevs[d] = None
      /\ \A b \in Backends : backend[b].cb = None /\ backend[b].heard = None
      /\ \A d \in Devs : virt[d] = None /\ object[d] \notin Backends
      /\ DOMAIN stack = {}
  BY NoneIsNone DEF FreeProc, FreeBackend, NoDevice
<1>2. TypeOK
  <2>1. FreeProc \in ProcRecord
    BY ConstantsAssumption DEF ProcRecord, FreeProc, NoDevice
  <2>2. stack \in Seq(Frame) /\ Depth <= MaxDepth
    BY ConstantsAssumption DEF Depth
  <2>. QED
    BY <2>1, <2>2, FreeBackendIs DEF TypeOK, NoDevice
<1>3. Working
  <2>1. \A p : Waiting(p) = {}
    BY <1>1 DEF Waiting
  <2>. QED
    BY <1>1, <2>1, FS_EmptySet, NoneIsNone DEF Working, Counted, Leaving, Served
<1>4. Held
  BY <1>1 DEF Held, Hearing, Listing, Registry, Identifying, Permitted
<1>. QED
  BY <1>2, <1>3, <1>4 DEF Inv

LEMMA NextInv ==
  ASSUME Inv, Next
  PROVE  Inv'
<1>1. ASSUME NEW p \in Procs, Message(p) PROVE Inv'
  <2>1. ASSUME NEW d \in Devs, RegisterVDev(p, d) PROVE Inv'
    BY <2>1, RefusedInv, RegisteredInv
  <2>. QED
    BY <1>1, <2>1, SyncrInv, AuthenticateInv, SubscribeInv, ExecCommandInv, DisconnectVDevInv
    DEF Message
<1>2. ASSUME busy = None, Event PROVE Inv'
  <2>1. busy \notin Procs
    BY <1>2, NoneIsNone
  <2>. QED
    BY <1>2, <2>1, ConnectInv, ConnectionLostInv, CloseClientInv, DeleteInv, SyncTimerInv,
       StorageRemovedInv, PreferredInv, OtherLostInv DEF Event
<1>3. ASSUME busy = None, Step PROVE Inv'
  BY <1>3, AnsweredInv, ExecEndsInv, NotIdentifiedInv, IdentifiedInv, DescribedInv DEF Step
<1>. QED
  BY <1>1, <1>2, <1>3, EndOfDataInv DEF Next

LEMMA Invariant == Spec => []Inv
<1>1. Inv /\ [Next]_vars => Inv'
  <2>1. ASSUME Inv, UNCHANGED vars PROVE Inv'
    <3>1. Quiet
      BY <2>1 DEF vars, Quiet
    <3>2. Steady
      BY <2>1 DEF vars, Steady, Depth
    <3>. QED
      BY <2>1, <3>1, <3>2, QuietInv DEF vars, Inv, TypeOK
  <2>. QED
    BY <2>1, NextInv
<1>. QED
  BY <1>1, InitInv, PTL DEF Spec

(* A processor with commands that wait is not deleted: scheduleDelete() and *)
(* ~WorkLocker count them, and a deletion is posted below all of them.      *)
THEOREM CommandsCorrect == Spec => []NoCommandOfDeleted
<1>1. Inv => NoCommandOfDeleted
  BY StackIs DEF Inv, Working, Served, NoCommandOfDeleted
<1>. QED
  BY <1>1, Invariant, PTL

(* A backend that may still write to a processor is in the list that the   *)
(* destructor of the processor disconnects.                                *)
THEOREM CallbackCorrect == Spec => []CallbackAlive
<1>1. Inv => CallbackAlive
  <2> SUFFICES ASSUME Inv, NEW b \in Backends, backend[b].cb # None, DevOf(b) \notin spoiled
               PROVE  proc[backend[b].cb].st # "free"
    BY DEF CallbackAlive, Alive, DevOf
  <2>1. /\ backend[b].cb \in Procs /\ DevOf(b) \in Devs
        /\ proc[backend[b].cb].vdevs[DevOf(b)] = b
    BY DevTypes DEF Inv, Held, Hearing
  <2>. QED
    BY <2>1, NoneIsNone DEF Inv, Held, Listing
<1>. QED
  BY <1>1, Invariant, PTL

(* The lists of the processors, the backends and the registry agree, so    *)
(* that what a client registered goes with it.                             *)
THEOREM ListsCorrect == Spec => []ListsAgree
<1>1. Inv => ListsAgree
  <2> SUFFICES ASSUME Inv PROVE ListsAgree
    OBVIOUS
  <2>1. ASSUME NEW p \in Procs, NEW b \in Registered(p)
        PROVE  backend[b].live /\ backend[b].cb \in {p, None}
    <3>1. PICK d \in Devs : proc[p].vdevs[d] = b /\ b # None /\ b \in Backends
      BY DevTypes DEF Registered, Range, Inv, TypeOK, ProcRecord
    <3>. QED
      BY <3>1 DEF Inv, Held, Listing, Hearing
  <2>2. ASSUME NEW d \in Devs \ spoiled, virt[d] # None
        PROVE  /\ backend[virt[d]].live /\ object[d] = virt[d]
               /\ \E p \in Procs : proc[p].vdevs[d] = virt[d] /\ backend[virt[d]].cb = p
    <3> DEFINE b == virt[d]
    <3>1. /\ b \in Backends /\ backend[b].live /\ DevOf(b) = d /\ object[d] = b
          /\ backend[b].cb # None
      BY <2>2, DevTypes DEF Inv, Held, Registry
    <3>2. backend[b].cb \in Procs /\ proc[backend[b].cb].vdevs[d] = b
      BY <3>1, DevTypes DEF Inv, Held, Hearing
    <3>. QED
      BY <3>1, <3>2
  <2>. QED
    BY <2>1, <2>2 DEF ListsAgree
<1>. QED
  BY <1>1, Invariant, PTL

(* The user of a connection does not change under a command that waits or  *)
(* a device that is registered (mayChangeUser and the counter of commands).*)
THEOREM UserCorrect == Spec => []UserIsFixed
<1>1. Inv => UserIsFixed
  BY StackIs DEF Inv, Working, Served, Held, Permitted, UserIsFixed, DevOf
<1>. QED
  BY <1>1, Invariant, PTL

(***************************************************************************)
(* Recursion over bytes.                                                   *)
(***************************************************************************)
LEMMA LeastOf ==
  ASSUME NEW T, T \subseteq Nat, T # {}
  PROVE  \E x \in T : \A y \in T : x <= y
<1> DEFINE R == {w \in Nat \X Nat : w[1] < w[2]}
<1>1. IsWellFoundedOn(OpToRel(<, Nat), Nat)
  BY NatLessThanWellFounded
<1>2. OpToRel(<, Nat) = R
  BY DEF OpToRel
<1>3. PICK x \in T : \A y \in T : ~ (<<y, x>> \in R)
  <2> HIDE DEF R
  <2>. QED
    BY <1>1, <1>2, WFMin
<1>4. ASSUME NEW y \in T PROVE x <= y
  <2>1. x \in Nat /\ y \in Nat
    OBVIOUS
  <2>2. ~ (y < x)
    BY <1>3, <2>1
  <2>. QED
    BY <2>1, <2>2
<1>. QED
  BY <1>4

(* What holds at 0 and of each number after one that it holds of, up to n. *)
LEMMA UpTo ==
  ASSUME NEW n \in Nat, NEW T, 0 \in T,
         \A k \in 0..n : k \in T /\ k + 1 <= n => k + 1 \in T
  PROVE  \A k \in 0..n : k \in T
<1> DEFINE U == {k \in 0..n : k \notin T}
<1>. SUFFICES ASSUME U # {} PROVE FALSE
  OBVIOUS
<1>1. PICK x \in U : \A y \in U : x <= y
  <2>1. U \subseteq Nat
    OBVIOUS
  <2> HIDE DEF U
  <2>. QED
    BY <2>1, LeastOf
<1>2. x \in 0..n /\ x # 0 /\ x \notin T
  OBVIOUS
<1>3. x - 1 \in 0..n /\ (x - 1) + 1 = x /\ x <= n
  BY <1>2
<1>4. x - 1 \notin U
  BY <1>1, <1>2
<1>5. x - 1 \in T
  BY <1>3, <1>4
<1>. QED
  BY <1>2, <1>3, <1>5

(* The equation of Parsed has a solution. *)
SolvesParsed(f, p, s) ==
  f = [k \in 0..Len(s) |-> IF k = 0 THEN p ELSE ParseByte(f[k - 1], s[k])]

LEMMA ParsedDefined ==
  ASSUME NEW p, NEW s, Len(s) \in Nat
  PROVE  \E f : SolvesParsed(f, p, s)
<1> DEFINE Value(g, k) == IF k = 0 THEN p ELSE ParseByte(g[k - 1], s[k])
           Right(n) == \E g : \A k \in 0..n : g[k] = Value(g, k)
           T == {n \in Nat : Right(n)}
<1>1. 0 \in T
  <2>1. PICK g : g = [k \in {0} |-> p]
    OBVIOUS
  <2>2. \A k \in 0..0 : g[k] = Value(g, k)
    BY <2>1
  <2>. QED
    BY <2>2
<1>2. ASSUME NEW n \in 0..Len(s), n \in T, n + 1 <= Len(s) PROVE n + 1 \in T
  <2>1. PICK g : \A k \in 0..n : g[k] = Value(g, k)
    BY <1>2
  <2>2. PICK h : h = [k \in 0..(n + 1) |-> Value(g, k)]
    OBVIOUS
  <2>3. \A k \in 0..n : h[k] = g[k]
    <3>1. 0..n \subseteq 0..(n + 1)
      OBVIOUS
    <3> HIDE DEF Value
    <3>. QED
      BY <2>1, <2>2, <3>1
  <2>4. ASSUME NEW k \in 0..(n + 1) PROVE h[k] = Value(h, k)
    <3>1. h[k] = Value(g, k)
      <4> HIDE DEF Value
      <4>. QED
        BY <2>2
    <3>2. CASE k = 0
      BY <3>1, <3>2
    <3>3. CASE k # 0
      <4>1. k - 1 \in 0..n
        BY <3>3
      <4>2. h[k - 1] = g[k - 1]
        BY <2>3, <4>1
      <4>. QED
        BY <3>1, <3>3, <4>2
    <3>. QED
      BY <3>2, <3>3
  <2>5. Right(n + 1)
    <3> HIDE DEF Value
    <3>. QED
      BY <2>4
  <2>. QED
    BY <2>5
<1>3. Len(s) \in T
  <2>1. \A n \in 0..Len(s) : n \in T
    <3> HIDE DEF T
    <3>. QED
      BY <1>1, <1>2, UpTo
  <2>2. Len(s) \in 0..Len(s)
    OBVIOUS
  <2> HIDE DEF T
  <2>. QED
    BY <2>1, <2>2
<1>4. PICK g : \A k \in 0..Len(s) : g[k] = Value(g, k)
  BY <1>3
<1>5. PICK f : f = [k \in 0..Len(s) |-> g[k]]
  OBVIOUS
<1>6. ASSUME NEW k \in 0..Len(s) PROVE f[k] = Value(f, k)
  <2>1. f[k] = Value(g, k)
    <3> HIDE DEF Value
    <3>. QED
      BY <1>4, <1>5
  <2>2. CASE k = 0
    BY <2>1, <2>2
  <2>3. CASE k # 0
    <3>1. k - 1 \in 0..Len(s)
      BY <2>3
    <3>2. f[k - 1] = g[k - 1]
      BY <1>5, <3>1
    <3>. QED
      BY <2>1, <2>3, <3>2
  <2>. QED
    BY <2>2, <2>3
<1>7. f = [k \in 0..Len(s) |-> Value(f, k)]
  <2> HIDE DEF Value
  <2>. QED
    BY <1>5, <1>6
<1>. QED
  BY <1>7 DEF SolvesParsed

LEMMA ParsedIs ==
  ASSUME NEW p, NEW s, Len(s) \in Nat
  PROVE  /\ Parsed(p, s)[0] = p
         /\ \A k \in 1..Len(s) : Parsed(p, s)[k] = ParseByte(Parsed(p, s)[k - 1], s[k])
<1>1. PICK f : f = Parsed(p, s)
  OBVIOUS
<1>2. f = CHOOSE g : SolvesParsed(g, p, s)
  BY <1>1 DEF Parsed, SolvesParsed
<1>3. SolvesParsed(f, p, s)
  BY <1>2, ParsedDefined
<1>4. f[0] = p
  BY <1>3 DEF SolvesParsed
<1>5. ASSUME NEW k \in 1..Len(s) PROVE f[k] = ParseByte(f[k - 1], s[k])
  <2>1. k \in 0..Len(s) /\ k # 0
    OBVIOUS
  <2>. QED
    BY <1>3, <2>1 DEF SolvesParsed
<1>. QED
  BY <1>1, <1>4, <1>5

(* t is what s has behind its first n bytes, or a part of that. *)
Within(t, s, n) ==
  /\ Len(s) \in Nat /\ Len(t) \in Nat /\ n \in Nat
  /\ n + Len(t) <= Len(s)
  /\ \A j \in 1..Len(t) : t[j] = s[n + j]

(* Bytes that are read from the state that a parser of others has come to. *)
LEMMA ParsedWithin ==
  ASSUME NEW p, NEW s, NEW t, NEW n, Within(t, s, n)
  PROVE  \A j \in 0..Len(t) : Parsed(Parsed(p, s)[n], t)[j] = Parsed(p, s)[n + j]
<1>1. PICK q : q = Parsed(p, s)[n]
  OBVIOUS
<1> DEFINE T == {j \in 0..Len(t) : Parsed(q, t)[j] = Parsed(p, s)[n + j]}
<1>2. /\ Len(s) \in Nat /\ Len(t) \in Nat /\ n \in Nat /\ n + Len(t) <= Len(s)
      /\ \A j \in 1..Len(t) : t[j] = s[n + j]
  BY DEF Within
<1>3. 0 \in T
  BY <1>1, <1>2, ParsedIs
<1>4. ASSUME NEW j \in 0..Len(t), j \in T, j + 1 <= Len(t) PROVE j + 1 \in T
  <2>1. j + 1 \in 1..Len(t) /\ n + (j + 1) \in 1..Len(s) /\ (j + 1) - 1 = j
        /\ (n + (j + 1)) - 1 = n + j
    BY <1>2, <1>4
  <2>2. Parsed(q, t)[j + 1] = ParseByte(Parsed(q, t)[j], t[j + 1])
    BY <1>2, <2>1, ParsedIs
  <2>3. Parsed(p, s)[n + (j + 1)] = ParseByte(Parsed(p, s)[n + j], s[n + (j + 1)])
    BY <1>2, <2>1, ParsedIs
  <2>4. t[j + 1] = s[n + (j + 1)]
    BY <1>2, <2>1
  <2>5. Parsed(q, t)[j] = Parsed(p, s)[n + j]
    BY <1>4
  <2>. QED
    BY <2>1, <2>2, <2>3, <2>4, <2>5
<1>. QED
  <2>1. \A j \in 0..Len(t) : j \in T
    <3> HIDE DEF T
    <3>. QED
      BY <1>2, <1>3, <1>4, UpTo
  <2>. QED
    BY <1>1, <2>1

-----------------------------------------------------------------------------
(***************************************************************************)
(* What the parser makes of a message.                                     *)
(***************************************************************************)
Texts == Values \cup UNION {{c[k] : k \in 1..Len(c)} : c \in Commands}

Char ==
  {Esc, Sep, End, Nul, "n", "0", "identify", "call", "deviceinfo", "uuid", "ok",
   "err", "text", "meas", "#identify_hub", "iden", "t", "ify_hub"}
  \cup {Digit[k] : k \in 1..9}
  \cup UNION {{a[k] : k \in 1..Len(a)} : a \in Texts}

Byte    == [c : Char, i : Nat]
Stream  == Seq(Byte)
Parsers == [esc : BOOLEAN, fields : Seq(Stream) \ {<<>>}]

(* The parser that has read s. *)
After(p, s) == Parsed(p, s)[Len(s)]

(* The bytes of a text in message number i. *)
Tag(t, i) == [k \in 1..Len(t) |-> [c |-> t[k], i |-> i]]

LEMMA JoinedIs ==
  ASSUME NEW S, NEW s \in Seq(S), NEW t \in Seq(S)
  PROVE  /\ s \o t \in Seq(S) /\ Len(s \o t) = Len(s) + Len(t)
         /\ Len(s) \in Nat /\ Len(t) \in Nat
         /\ \A n \in 1..Len(s) : (s \o t)[n] = s[n]
         /\ \A n \in 1..Len(t) : (s \o t)[Len(s) + n] = t[n]
  OBVIOUS

LEMMA JoinedAgain ==
  ASSUME NEW S, NEW s \in Seq(S), NEW t \in Seq(S), NEW u \in Seq(S)
  PROVE  s \o (t \o u) = (s \o t) \o u
  OBVIOUS

LEMMA AppendedIs ==
  ASSUME NEW S, NEW s \in Seq(S), NEW e \in S
  PROVE  /\ Append(s, e) \in Seq(S) /\ Len(Append(s, e)) = Len(s) + 1 /\ Len(s) \in Nat
         /\ \A n \in 1..Len(s) : Append(s, e)[n] = s[n]
         /\ Append(s, e)[Len(s) + 1] = e
         /\ Append(s, e) # <<>>
  BY AppendProperties

LEMMA TagIs ==
  ASSUME NEW t \in Seq(Char), NEW i \in Nat
  PROVE  /\ Tag(t, i) \in Stream /\ Len(Tag(t, i)) = Len(t)
         /\ \A k \in 1..Len(t) : Tag(t, i)[k] = [c |-> t[k], i |-> i]
<1>1. \A k \in 1..Len(t) : [c |-> t[k], i |-> i] \in Byte
  BY DEF Byte
<1>. QED
  BY <1>1 DEF Tag, Stream

LEMMA TagJoined ==
  ASSUME NEW s \in Seq(Char), NEW t \in Seq(Char), NEW i \in Nat
  PROVE  Tag(s \o t, i) = Tag(s, i) \o Tag(t, i)
<1>1. PICK u : u = Tag(s \o t, i)
  OBVIOUS
<1>2. PICK v : v = Tag(s, i) \o Tag(t, i)
  OBVIOUS
<1>3. s \o t \in Seq(Char) /\ Len(s \o t) = Len(s) + Len(t)
  OBVIOUS
<1>4. u \in Stream /\ Len(u) = Len(s) + Len(t)
  BY <1>1, <1>3, TagIs
<1>5. v \in Stream /\ Len(v) = Len(s) + Len(t)
  <2>1. PICK x \in Stream, y \in Stream :
          /\ x = Tag(s, i) /\ y = Tag(t, i)
          /\ Len(x) = Len(s) /\ Len(y) = Len(t)
    BY TagIs
  <2>2. x \o y \in Seq(Byte) /\ Len(x \o y) = Len(x) + Len(y)
    BY JoinedIs DEF Stream
  <2>. QED
    BY <1>2, <2>1, <2>2 DEF Stream
<1>6. ASSUME NEW k \in 1..Len(u) PROVE u[k] = v[k]
  <2>1. u[k] = [c |-> (s \o t)[k], i |-> i]
    BY <1>1, <1>3, <1>4, TagIs
  <2>2. CASE k \in 1..Len(s)
    <3>1. (s \o t)[k] = s[k]
      BY <2>2, JoinedIs
    <3>2. v[k] = Tag(s, i)[k]
      BY <1>2, <2>2, TagIs, JoinedIs DEF Stream
    <3>. QED
      BY <2>1, <2>2, <3>1, <3>2, TagIs
  <2>3. CASE k \notin 1..Len(s)
    <3>1. PICK n : n = k - Len(s)
      OBVIOUS
    <3>2. n \in 1..Len(t) /\ k = Len(s) + n
      BY <1>4, <2>3, <3>1
    <3>3. (s \o t)[k] = t[n]
      BY <3>2, JoinedIs
    <3>4. v[k] = Tag(t, i)[n]
      BY <1>2, <3>2, TagIs, JoinedIs DEF Stream
    <3>. QED
      BY <2>1, <3>2, <3>3, <3>4, TagIs
  <2>. QED
    BY <2>2, <2>3
<1>7. u = v
  BY <1>4, <1>5, <1>6, SeqEqual DEF Stream
<1>. QED
  BY <1>1, <1>2, <1>7

LEMMA ParsedFirst ==
  ASSUME NEW p, NEW s, NEW t, Within(t, s, 0)
  PROVE  \A j \in 0..Len(t) : Parsed(p, t)[j] = Parsed(p, s)[j]
<1>1. Len(s) \in Nat /\ Len(t) \in Nat
  BY DEF Within
<1>2. \A j \in 0..Len(t) : Parsed(Parsed(p, s)[0], t)[j] = Parsed(p, s)[0 + j]
  BY ParsedWithin
<1>3. Parsed(p, s)[0] = p
  BY <1>1, ParsedIs
<1>4. \A j \in 0..Len(t) : 0 + j = j
  BY <1>1
<1>. QED
  BY <1>2, <1>3, <1>4

LEMMA AfterNothing ==
  ASSUME NEW p
  PROVE  After(p, <<>>) = p
<1>1. Len(<<>>) = 0
  OBVIOUS
<1>. QED
  BY <1>1, ParsedIs DEF After

LEMMA AfterJoined ==
  ASSUME NEW p, NEW s \in Stream, NEW t \in Stream
  PROVE  After(p, s \o t) = After(After(p, s), t)
<1>1. PICK u : u = s \o t
  OBVIOUS
<1>2. /\ Len(u) = Len(s) + Len(t) /\ Len(s) \in Nat /\ Len(t) \in Nat /\ Len(u) \in Nat
      /\ \A n \in 1..Len(s) : u[n] = s[n]
      /\ \A n \in 1..Len(t) : u[Len(s) + n] = t[n]
  BY <1>1, JoinedIs DEF Stream
<1>3. Within(s, u, 0) /\ Within(t, u, Len(s))
  BY <1>2 DEF Within
<1>4. Parsed(p, u)[Len(s)] = Parsed(Parsed(p, u)[0], s)[Len(s)]
  <2>1. Len(s) \in 0..Len(s) /\ 0 + Len(s) = Len(s)
    BY <1>2
  <2>2. \A j \in 0..Len(s) : Parsed(Parsed(p, u)[0], s)[j] = Parsed(p, u)[0 + j]
    BY <1>3, ParsedWithin
  <2>. QED
    BY <2>1, <2>2
<1>5. Parsed(p, u)[0] = p
  BY <1>2, ParsedIs
<1>6. Parsed(p, u)[Len(s) + Len(t)] = Parsed(Parsed(p, u)[Len(s)], t)[Len(t)]
  <2>1. Len(t) \in 0..Len(t)
    BY <1>2
  <2>2. \A j \in 0..Len(t) :
          Parsed(Parsed(p, u)[Len(s)], t)[j] = Parsed(p, u)[Len(s) + j]
    BY <1>3, ParsedWithin
  <2>. QED
    BY <2>1, <2>2
<1>. QED
  BY <1>1, <1>2, <1>4, <1>5, <1>6 DEF After

LEMMA AfterOne ==
  ASSUME NEW p, NEW b
  PROVE  After(p, <<b>>) = ParseByte(p, b)
<1>1. Len(<<b>>) = 1 /\ <<b>>[1] = b
  OBVIOUS
<1>. QED
  BY <1>1, ParsedIs DEF After

LEMMA AfterTwo ==
  ASSUME NEW p, NEW a, NEW b
  PROVE  After(p, <<a, b>>) = ParseByte(ParseByte(p, a), b)
<1>1. PICK s : s = <<a, b>>
  OBVIOUS
<1>2. Len(s) = 2 /\ s[1] = a /\ s[2] = b
  BY <1>1
<1>3. Parsed(p, s)[1] = ParseByte(p, a)
  BY <1>2, ParsedIs
<1>. QED
  BY <1>1, <1>2, <1>3, ParsedIs DEF After

-----------------------------------------------------------------------------
SolvesFlatten(f, ss) ==
  f = [k \in 1..Len(ss) |-> IF k = 1 THEN ss[k] ELSE f[k - 1] \o ss[k]]

LEMMA FlattenDefined ==
  ASSUME NEW ss, Len(ss) \in Nat
  PROVE  \E f : SolvesFlatten(f, ss)
<1> DEFINE Value(g, k) == IF k = 1 THEN ss[k] ELSE g[k - 1] \o ss[k]
           Right(n) == \E g : \A k \in 1..n : g[k] = Value(g, k)
           T == {n \in Nat : Right(n)}
<1>1. 0 \in T
  OBVIOUS
<1>2. ASSUME NEW n \in 0..Len(ss), n \in T, n + 1 <= Len(ss) PROVE n + 1 \in T
  <2>1. PICK g : \A k \in 1..n : g[k] = Value(g, k)
    BY <1>2
  <2>2. PICK h : h = [k \in 1..(n + 1) |-> Value(g, k)]
    OBVIOUS
  <2>3. \A k \in 1..n : h[k] = g[k]
    <3>1. 1..n \subseteq 1..(n + 1)
      OBVIOUS
    <3> HIDE DEF Value
    <3>. QED
      BY <2>1, <2>2, <3>1
  <2>4. ASSUME NEW k \in 1..(n + 1) PROVE h[k] = Value(h, k)
    <3>1. h[k] = Value(g, k)
      <4> HIDE DEF Value
      <4>. QED
        BY <2>2
    <3>2. CASE k = 1
      BY <3>1, <3>2
    <3>3. CASE k # 1
      <4>1. k - 1 \in 1..n
        BY <3>3
      <4>2. h[k - 1] = g[k - 1]
        BY <2>3, <4>1
      <4>. QED
        BY <3>1, <3>3, <4>2
    <3>. QED
      BY <3>2, <3>3
  <2>5. Right(n + 1)
    <3> HIDE DEF Value
    <3>. QED
      BY <2>4
  <2>. QED
    BY <2>5
<1>3. Len(ss) \in T
  <2>1. \A n \in 0..Len(ss) : n \in T
    <3> HIDE DEF T
    <3>. QED
      BY <1>1, <1>2, UpTo
  <2>2. Len(ss) \in 0..Len(ss)
    OBVIOUS
  <2> HIDE DEF T
  <2>. QED
    BY <2>1, <2>2
<1>4. PICK g : \A k \in 1..Len(ss) : g[k] = Value(g, k)
  BY <1>3
<1>5. PICK f : f = [k \in 1..Len(ss) |-> g[k]]
  OBVIOUS
<1>6. ASSUME NEW k \in 1..Len(ss) PROVE f[k] = Value(f, k)
  <2>1. f[k] = Value(g, k)
    <3> HIDE DEF Value
    <3>. QED
      BY <1>4, <1>5
  <2>2. CASE k = 1
    BY <2>1, <2>2
  <2>3. CASE k # 1
    <3>1. k - 1 \in 1..Len(ss)
      BY <2>3
    <3>2. f[k - 1] = g[k - 1]
      BY <1>5, <3>1
    <3>. QED
      BY <2>1, <2>3, <3>2
  <2>. QED
    BY <2>2, <2>3
<1>7. f = [k \in 1..Len(ss) |-> Value(f, k)]
  <2> HIDE DEF Value
  <2>. QED
    BY <1>5, <1>6
<1>. QED
  BY <1>7 DEF SolvesFlatten

(* The sequences joined so far. *)
LEMMA FlattenIs ==
  ASSUME NEW S, NEW ss \in Seq(Seq(S))
  PROVE  \E e : /\ e[0] = <<>> /\ e[Len(ss)] = FlattenSeq(ss)
                /\ \A k \in 0..Len(ss) : e[k] \in Seq(S)
                /\ \A k \in 1..Len(ss) : e[k] = e[k - 1] \o ss[k]
<1>1. Len(ss) \in Nat /\ \A k \in 1..Len(ss) : ss[k] \in Seq(S)
  OBVIOUS
<1>2. PICK f : f = CHOOSE g : SolvesFlatten(g, ss)
  OBVIOUS
<1>3. SolvesFlatten(f, ss)
  BY <1>1, <1>2, FlattenDefined
<1>4. Len(ss) # 0 => FlattenSeq(ss) = f[Len(ss)]
  BY <1>2 DEF FlattenSeq, SolvesFlatten
<1>5. \A k \in 1..Len(ss) : f[k] = IF k = 1 THEN ss[k] ELSE f[k - 1] \o ss[k]
  BY <1>3 DEF SolvesFlatten
<1>6. PICK e : e = [k \in 0..Len(ss) |-> IF k = 0 THEN <<>> ELSE f[k]]
  OBVIOUS
<1>7. e[0] = <<>> /\ \A k \in 1..Len(ss) : e[k] = f[k]
  BY <1>1, <1>6
<1>8. e[Len(ss)] = FlattenSeq(ss)
  <2>1. CASE Len(ss) = 0
    BY <1>7, <2>1 DEF FlattenSeq
  <2>2. CASE Len(ss) # 0
    BY <1>1, <1>4, <1>7, <2>2
  <2>. QED
    BY <2>1, <2>2
<1>9. ASSUME NEW k \in 1..Len(ss) PROVE e[k] = e[k - 1] \o ss[k]
  <2>1. CASE k = 1
    <3>1. e[k] = ss[k] /\ e[k - 1] = <<>> /\ ss[k] \in Seq(S)
      BY <1>1, <1>5, <1>7, <2>1
    <3>. QED
      BY <3>1, ConcatEmptySeq
  <2>2. CASE k # 1
    <3>1. k - 1 \in 1..Len(ss)
      BY <2>2
    <3>. QED
      BY <1>5, <1>7, <2>2, <3>1
  <2>. QED
    BY <2>1, <2>2
<1>10. \A k \in 0..Len(ss) : e[k] \in Seq(S)
  <2> DEFINE T == {k \in 0..Len(ss) : e[k] \in Seq(S)}
  <2>1. 0 \in T
    <3>1. 0 \in 0..Len(ss) /\ <<>> \in Seq(S)
      BY <1>1
    <3>. QED
      BY <1>7, <3>1
  <2>2. ASSUME NEW k \in 0..Len(ss), k \in T, k + 1 <= Len(ss) PROVE k + 1 \in T
    <3>1. k + 1 \in 1..Len(ss) /\ (k + 1) - 1 = k /\ e[k] \in Seq(S)
      BY <1>1, <2>2
    <3>2. e[k + 1] = e[k] \o ss[k + 1] /\ ss[k + 1] \in Seq(S)
      BY <1>1, <1>9, <3>1
    <3>3. e[k] \o ss[k + 1] \in Seq(S)
      BY <3>1, <3>2, JoinedIs
    <3>4. e[k + 1] \in Seq(S) /\ k + 1 \in 0..Len(ss)
      BY <1>1, <3>1, <3>2, <3>3
    <3>. QED
      BY <3>4
  <2>3. \A k \in 0..Len(ss) : k \in T
    <3> HIDE DEF T
    <3>. QED
      BY <1>1, <2>1, <2>2, UpTo
  <2>. QED
    BY <2>3
<1>. QED
  BY <1>7, <1>8, <1>9, <1>10
-----------------------------------------------------------------------------
(* The parser in a field, with the fields before. *)
At(F, cur) == [esc |-> FALSE, fields |-> Append(F, cur)]

LEMMA Grown ==
  ASSUME NEW F \in Seq(Stream), NEW cur \in Stream, NEW b \in Byte
  PROVE  Grow(Append(F, cur), b) = Append(F, Append(cur, b))
<1>1. PICK u : u = Append(F, cur)
  OBVIOUS
<1>2. PICK v : v = Append(F, Append(cur, b))
  OBVIOUS
<1>3. Append(cur, b) \in Stream
  BY AppendedIs DEF Stream
<1>4. /\ u \in Seq(Stream) /\ Len(u) = Len(F) + 1 /\ Len(F) \in Nat /\ u[Len(u)] = cur
      /\ \A n \in 1..Len(F) : u[n] = F[n]
  BY <1>1, AppendedIs
<1>5. /\ v \in Seq(Stream) /\ Len(v) = Len(F) + 1 /\ v[Len(F) + 1] = Append(cur, b)
      /\ \A n \in 1..Len(F) : v[n] = F[n]
  BY <1>2, <1>3, AppendedIs
<1>6. PICK w : w = Grow(u, b)
  OBVIOUS
<1>7. w = [u EXCEPT ![Len(u)] = Append(cur, b)]
  BY <1>4, <1>6 DEF Grow
<1>8. /\ w \in Seq(Stream) /\ Len(w) = Len(u)
      /\ \A j \in 1..Len(u) : w[j] = IF j = Len(u) THEN Append(cur, b) ELSE u[j]
  <2>1. Len(u) \in 1..Len(u)
    BY <1>4
  <2> DEFINE val == Append(cur, b)
  <2>2. w = [u EXCEPT ![Len(u)] = val] /\ val \in Stream
    BY <1>3, <1>7
  <2> HIDE DEF val
  <2>3. PICK S : S = Stream
    OBVIOUS
  <2>4. u \in Seq(S) /\ val \in S
    BY <1>4, <2>2, <2>3
  <2>5. PICK i \in 1..Len(u) : i = Len(u)
    BY <2>1
  <2>6. /\ Len([u EXCEPT ![i] = val]) = Len(u)
        /\ [u EXCEPT ![i] = val] \in Seq(S)
        /\ \A j \in 1..Len(u) : [u EXCEPT ![i] = val][j] = IF j = i THEN val ELSE u[j]
    BY <2>4, ExceptSeq
  <2>. QED
    BY <2>2, <2>3, <2>5, <2>6 DEF val
<1>9. ASSUME NEW j \in 1..Len(w) PROVE w[j] = v[j]
  <2>1. j \in 1..Len(u)
    BY <1>8
  <2>2. CASE j = Len(u)
    BY <1>4, <1>5, <1>8, <2>1, <2>2
  <2>3. CASE j # Len(u)
    <3>1. j \in 1..Len(F)
      BY <1>4, <2>1, <2>3
    <3>. QED
      BY <1>4, <1>5, <1>8, <2>1, <2>3, <3>1
  <2>. QED
    BY <2>2, <2>3
<1>10. w = v
  BY <1>4, <1>5, <1>8, <1>9, SeqEqual
<1>. QED
  BY <1>1, <1>2, <1>6, <1>10

(* What is meant by x after the escape character. *)
Meant(x, ch) ==
  ch = CASE x = "n" -> End
         [] x = "0" -> Nul
         [] OTHER   -> x

LEMMA EscapedChar ==
  ASSUME NEW F \in Seq(Stream), NEW cur \in Stream, NEW ch \in Char, NEW i \in Nat
  PROVE  /\ EscapeChar(ch) \in Seq(Char)
         /\ \A k \in 1..Len(EscapeChar(ch)) : EscapeChar(ch)[k] \notin {End, Nul}
         /\ After(At(F, cur), Tag(EscapeChar(ch), i))
              = At(F, Append(cur, [c |-> ch, i |-> i]))
<1>1. PICK b : b = [c |-> ch, i |-> i]
  OBVIOUS
<1>2. b \in Byte
  BY <1>1 DEF Byte
<1>3. PICK p : p = At(F, cur)
  OBVIOUS
<1>4. Grow(p.fields, b) = Append(F, Append(cur, b)) /\ p.esc = FALSE
      /\ p = [esc |-> FALSE, fields |-> p.fields]
  BY <1>2, <1>3, Grown DEF At
<1>5. CASE ch \notin {End, Nul, Esc, Sep}
  <2>1. EscapeChar(ch) = <<ch>>
    BY <1>5 DEF EscapeChar
  <2>2. Tag(<<ch>>, i) = <<b>>
    BY <1>1 DEF Tag
  <2>3. ParseByte(p, b) = [p EXCEPT !.fields = Grow(@, b)]
    BY <1>1, <1>4, <1>5 DEF ParseByte, ParseCharInNormalState
  <2>4. ParseByte(p, b) = At(F, Append(cur, b))
    BY <1>4, <2>3 DEF At
  <2>. QED
    BY <1>1, <1>3, <1>5, <2>1, <2>2, <2>4, AfterOne
<1>6. ASSUME NEW x \in Char, EscapeChar(ch) = <<Esc, x>>, x \notin {End, Nul},
             Meant(x, ch)
      PROVE  /\ EscapeChar(ch) \in Seq(Char)
             /\ \A k \in 1..Len(EscapeChar(ch)) : EscapeChar(ch)[k] \notin {End, Nul}
             /\ After(At(F, cur), Tag(EscapeChar(ch), i))
                  = At(F, Append(cur, [c |-> ch, i |-> i]))
  <2>1. PICK y : y = [c |-> x, i |-> i]
    OBVIOUS
  <2>2. PICK z : z = [c |-> Esc, i |-> i]
    OBVIOUS
  <2>3. Tag(<<Esc, x>>, i) = <<z, y>>
    <3>1. PICK s : s = <<Esc, x>>
      OBVIOUS
    <3>2. Len(s) = 2 /\ s[1] = Esc /\ s[2] = x /\ 1..2 = {1, 2}
      BY <3>1
    <3>3. Tag(s, i) = [k \in 1..2 |-> [c |-> s[k], i |-> i]]
      BY <3>2 DEF Tag
    <3>4. Tag(s, i) = <<z, y>>
      BY <2>1, <2>2, <3>2, <3>3
    <3>. QED
      BY <3>1, <3>4
  <2>4. ParseByte(p, z) = [esc |-> TRUE, fields |-> p.fields]
    <3>1. z.c = Esc /\ Esc # Nul
      BY <2>2 DEF Esc, Nul
    <3>2. ParseByte(p, z) = [p EXCEPT !.esc = TRUE]
      BY <1>4, <3>1 DEF ParseByte, ParseCharInNormalState, Esc, Sep, End
    <3>. QED
      BY <1>4, <3>2
  <2>5. ParseByte([esc |-> TRUE, fields |-> p.fields], y)
          = [esc |-> FALSE, fields |-> Grow(p.fields, b)]
    <3>1. y.c = x /\ y.i = i /\ x # Nul
      BY <1>6, <2>1
    <3>2. (CASE y.c = "n" -> [y EXCEPT !.c = End]
             [] y.c = "0" -> [y EXCEPT !.c = Nul]
             [] OTHER     -> y) = b
      <4>1. CASE x = "n"
        BY <1>1, <1>6, <2>1, <4>1 DEF Meant
      <4>2. CASE x = "0"
        BY <1>1, <1>6, <2>1, <4>2 DEF Meant
      <4>3. CASE x # "n" /\ x # "0"
        BY <1>1, <1>6, <2>1, <4>3 DEF Meant
      <4>. QED
        BY <4>1, <4>2, <4>3
    <3>. QED
      BY <3>1, <3>2 DEF ParseByte, ParseCharInEscapeState
  <2>6. After(p, <<z, y>>) = At(F, Append(cur, b))
    <3>1. After(p, <<z, y>>) = ParseByte(ParseByte(p, z), y)
      BY AfterTwo
    <3>2. After(p, <<z, y>>) = [esc |-> FALSE, fields |-> Grow(p.fields, b)]
      BY <2>4, <2>5, <3>1
    <3>. QED
      BY <1>4, <3>2 DEF At
  <2>7. <<Esc, x>> \in Seq(Char) /\ Len(<<Esc, x>>) = 2
        /\ <<Esc, x>>[1] = Esc /\ <<Esc, x>>[2] = x
    <3>1. Esc \in Char
      BY DEF Char
    <3>. QED
      BY <1>6, <3>1
  <2>8. \A k \in 1..2 : k = 1 \/ k = 2
    OBVIOUS
  <2>9. Esc \notin {End, Nul}
    BY DEF Esc, End, Nul
  <2>10. \A k \in 1..Len(<<Esc, x>>) : <<Esc, x>>[k] \notin {End, Nul}
    BY <1>6, <2>7, <2>8, <2>9
  <2>. QED
    BY <1>1, <1>3, <1>6, <2>3, <2>6, <2>7, <2>10
<1>7. CASE ch = End
  <2>1. EscapeChar(ch) = <<Esc, "n">>
    BY <1>7 DEF EscapeChar, End, Nul, Esc, Sep
  <2>2. "n" \notin {End, Nul} /\ "n" \in Char
    BY DEF End, Nul, Char
  <2>3. Meant("n", ch)
    BY <1>7 DEF Meant
  <2>. QED
    BY <1>6, <2>1, <2>2, <2>3
<1>8. CASE ch = Nul
  <2>1. EscapeChar(ch) = <<Esc, "0">>
    BY <1>8 DEF EscapeChar, End, Nul, Esc, Sep
  <2>2. "0" \notin {End, Nul} /\ "0" \in Char
    BY DEF End, Nul, Char
  <2>3. Meant("0", ch)
    BY <1>8 DEF Meant
  <2>. QED
    BY <1>6, <2>1, <2>2, <2>3
<1>9. CASE ch \in {Esc, Sep}
  <2>1. EscapeChar(ch) = <<Esc, ch>> /\ ch \notin {End, Nul} /\ ch # "n" /\ ch # "0"
    BY <1>9 DEF EscapeChar, End, Nul, Esc, Sep
  <2>2. ch \in Char /\ Meant(ch, ch)
    BY <2>1 DEF Meant
  <2>. QED
    BY <1>6, <2>1, <2>2
<1>. QED
  BY <1>5, <1>7, <1>8, <1>9
-----------------------------------------------------------------------------
LEMMA PrefixTag ==
  ASSUME NEW text \in Seq(Char), NEW k \in Nat, k + 1 <= Len(text), NEW i \in Nat,
         NEW t, t = Tag(SubSeq(text, 1, k), i)
  PROVE  /\ t \in Stream
         /\ Tag(SubSeq(text, 1, k + 1), i) = Append(t, [c |-> text[k + 1], i |-> i])
<1>1. PICK u : u = SubSeq(text, 1, k + 1)
  OBVIOUS
<1>2. PICK v : v = SubSeq(text, 1, k)
  OBVIOUS
<1>3. u \in Seq(Char) /\ Len(u) = k + 1 /\ \A j \in 1..(k + 1) : u[j] = text[j]
  BY <1>1
<1>4. v \in Seq(Char) /\ Len(v) = k /\ \A j \in 1..k : v[j] = text[j]
  BY <1>2
<1>5. PICK e : e = [c |-> text[k + 1], i |-> i]
  OBVIOUS
<1>6. e \in Byte
  <2>1. text[k + 1] \in Char
    OBVIOUS
  <2>. QED
    BY <1>5, <2>1 DEF Byte
<1>7. /\ t \in Stream /\ Len(t) = k
      /\ \A j \in 1..k : t[j] = [c |-> text[j], i |-> i]
  <2>1. t = Tag(v, i)
    BY <1>2
  <2>2. \A j \in 1..k : t[j] = [c |-> v[j], i |-> i]
    BY <1>4, <2>1, TagIs
  <2>. QED
    BY <1>4, <2>1, <2>2, TagIs
<1>8. PICK w : w = Append(t, e)
  OBVIOUS
<1>9. /\ w \in Seq(Byte) /\ Len(w) = k + 1 /\ w[k + 1] = e
      /\ \A j \in 1..k : w[j] = t[j]
  BY <1>6, <1>7, <1>8, AppendedIs DEF Stream
<1>10. PICK x : x = Tag(u, i)
  OBVIOUS
<1>11. /\ x \in Seq(Byte) /\ Len(x) = k + 1
       /\ \A j \in 1..(k + 1) : x[j] = [c |-> text[j], i |-> i]
  BY <1>3, <1>10, TagIs DEF Stream
<1>12. ASSUME NEW j \in 1..Len(x) PROVE x[j] = w[j]
  <2>1. CASE j = k + 1
    BY <1>5, <1>9, <1>11, <2>1
  <2>2. CASE j # k + 1
    <3>1. j \in 1..k /\ j \in 1..(k + 1)
      BY <1>11, <2>2
    <3>. QED
      BY <1>7, <1>9, <1>11, <3>1
  <2>. QED
    BY <2>1, <2>2
<1>13. x = w
  BY <1>9, <1>11, <1>12, SeqEqual
<1>. QED
  BY <1>1, <1>5, <1>7, <1>8, <1>10, <1>13

(* A text without the bytes that end a message. *)
Plain(s) == s \in Seq(Char) /\ \A k \in 1..Len(s) : s[k] \notin {End, Nul}

LEMMA PlainJoined ==
  ASSUME NEW s, NEW t, Plain(s), Plain(t)
  PROVE  Plain(s \o t)
<1>1. PICK u : u = s \o t
  OBVIOUS
<1>2. s \in Seq(Char) /\ t \in Seq(Char)
  BY DEF Plain
<1>3. /\ u \in Seq(Char) /\ Len(u) = Len(s) + Len(t) /\ Len(s) \in Nat /\ Len(t) \in Nat
      /\ \A n \in 1..Len(s) : u[n] = s[n]
      /\ \A n \in 1..Len(t) : u[Len(s) + n] = t[n]
  BY <1>1, <1>2, JoinedIs
<1>4. ASSUME NEW k \in 1..Len(u) PROVE u[k] \notin {End, Nul}
  <2>1. CASE k \in 1..Len(s)
    BY <1>3, <2>1 DEF Plain
  <2>2. CASE k \notin 1..Len(s)
    <3>1. PICK n : n = k - Len(s)
      OBVIOUS
    <3>2. n \in 1..Len(t) /\ k = Len(s) + n
      BY <1>3, <2>2, <3>1
    <3>. QED
      BY <1>3, <3>2 DEF Plain
  <2>. QED
    BY <2>1, <2>2
<1>. QED
  BY <1>1, <1>3, <1>4 DEF Plain

LEMMA EscapedText ==
  ASSUME NEW F \in Seq(Stream), NEW text \in Seq(Char), NEW i \in Nat
  PROVE  /\ Plain(Escape(text))
         /\ After(At(F, <<>>), Tag(Escape(text), i)) = At(F, Tag(text, i))
<1>1. PICK ss : ss = [k \in 1..Len(text) |-> EscapeChar(text[k])]
  OBVIOUS
<1>2. /\ Len(text) \in Nat /\ \A k \in 1..Len(text) : text[k] \in Char
  OBVIOUS
<1>3. \A k \in 1..Len(text) : Plain(EscapeChar(text[k]))
  BY <1>2, EscapedChar, EmptySeq DEF Plain, Stream
<1>4. ss \in Seq(Seq(Char)) /\ Len(ss) = Len(text)
      /\ \A k \in 1..Len(text) : ss[k] = EscapeChar(text[k])
  <2>1. \A k \in 1..Len(text) : EscapeChar(text[k]) \in Seq(Char)
    BY <1>3 DEF Plain
  <2>. QED
    BY <1>1, <1>2, <2>1
<1>5. Escape(text) = FlattenSeq(ss)
  BY <1>1 DEF Escape
<1>6. PICK e : /\ e[0] = <<>> /\ e[Len(ss)] = FlattenSeq(ss)
               /\ \A k \in 0..Len(ss) : e[k] \in Seq(Char)
               /\ \A k \in 1..Len(ss) : e[k] = e[k - 1] \o ss[k]
  BY <1>4, FlattenIs
<1> DEFINE Right(k) ==
             /\ Plain(e[k])
             /\ After(At(F, <<>>), Tag(e[k], i)) = At(F, Tag(SubSeq(text, 1, k), i))
           T == {k \in 0..Len(text) : Right(k)}
<1>7. 0 \in T
  <2>1. Plain(<<>>)
    BY EmptySeq DEF Plain
  <2>2. Tag(<<>>, i) = <<>>
    BY EmptySeq, TagIs DEF Stream
  <2>3. SubSeq(text, 1, 0) = <<>>
    OBVIOUS
  <2>. QED
    <3>1. 0 \in 0..Len(text) /\ e[0] = <<>>
      BY <1>2, <1>6
    <3>2. After(At(F, <<>>), <<>>) = At(F, <<>>)
      BY AfterNothing
    <3>3. Right(0)
      BY <2>1, <2>2, <2>3, <3>1, <3>2
    <3>. QED
      BY <3>1, <3>3
<1>8. ASSUME NEW k \in 0..Len(text), k \in T, k + 1 <= Len(text) PROVE k + 1 \in T
  <2>1. k + 1 \in 1..Len(ss) /\ (k + 1) - 1 = k /\ k \in Nat /\ k + 1 \in 0..Len(text)
    BY <1>2, <1>4, <1>8
  <2>2. PICK x : x = EscapeChar(text[k + 1])
    OBVIOUS
  <2>3. e[k + 1] = e[k] \o x /\ Plain(x) /\ text[k + 1] \in Char /\ Plain(e[k])
        /\ x \in Seq(Char) /\ e[k] \in Seq(Char)
    BY <1>2, <1>3, <1>4, <1>6, <1>8, <2>1, <2>2 DEF Plain
  <2>4. PICK t : t = Tag(SubSeq(text, 1, k), i)
    OBVIOUS
  <2>5. /\ t \in Stream
        /\ Tag(SubSeq(text, 1, k + 1), i) = Append(t, [c |-> text[k + 1], i |-> i])
    BY <1>8, <2>1, <2>4, PrefixTag
  <2>6. Tag(e[k + 1], i) = Tag(e[k], i) \o Tag(x, i)
    BY <2>3, TagJoined
  <2>7. Tag(e[k], i) \in Stream /\ Tag(x, i) \in Stream
    BY <2>3, TagIs
  <2>8. After(At(F, <<>>), Tag(e[k + 1], i)) = After(At(F, t), Tag(x, i))
    BY <1>8, <2>4, <2>6, <2>7, AfterJoined
  <2>9. After(At(F, t), Tag(x, i)) = At(F, Append(t, [c |-> text[k + 1], i |-> i]))
    BY <2>2, <2>3, <2>5, EscapedChar
  <2>10. Plain(e[k + 1])
    BY <2>3, PlainJoined
  <2>. QED
    BY <2>1, <2>5, <2>8, <2>9, <2>10
<1>9. Right(Len(text))
  <2>1. \A k \in 0..Len(text) : k \in T
    <3> HIDE DEF T
    <3>. QED
      BY <1>2, <1>7, <1>8, UpTo
  <2>2. Len(text) \in 0..Len(text)
    BY <1>2
  <2>. QED
    BY <2>1, <2>2
<1>10. SubSeq(text, 1, Len(text)) = text
  OBVIOUS
<1>. QED
  BY <1>4, <1>5, <1>6, <1>9, <1>10
-----------------------------------------------------------------------------
Messages == Seq(Seq(Char)) \ {<<>>}

(* The fields of message number i as they are parsed. *)
Tagged(m, i) == [k \in 1..Len(m) |-> Tag(m[k], i)]

LEMMA TaggedIs ==
  ASSUME NEW m \in Seq(Seq(Char)), NEW i \in Nat
  PROVE  /\ Tagged(m, i) \in Seq(Stream) /\ Len(Tagged(m, i)) = Len(m)
         /\ \A k \in 1..Len(m) : Tagged(m, i)[k] = Tag(m[k], i)
<1>1. \A k \in 1..Len(m) : Tag(m[k], i) \in Stream
  BY TagIs
<1>. QED
  BY <1>1 DEF Tagged

LEMMA PrefixTagged ==
  ASSUME NEW m \in Seq(Seq(Char)), NEW k \in Nat, k + 1 <= Len(m), NEW i \in Nat,
         NEW G, G = Tagged(SubSeq(m, 1, k), i)
  PROVE  /\ G \in Seq(Stream)
         /\ Tagged(SubSeq(m, 1, k + 1), i) = Append(G, Tag(m[k + 1], i))
<1>1. PICK u : u = SubSeq(m, 1, k + 1)
  OBVIOUS
<1>2. PICK v : v = SubSeq(m, 1, k)
  OBVIOUS
<1>3. u \in Seq(Seq(Char)) /\ Len(u) = k + 1 /\ \A j \in 1..(k + 1) : u[j] = m[j]
  BY <1>1
<1>4. v \in Seq(Seq(Char)) /\ Len(v) = k /\ \A j \in 1..k : v[j] = m[j]
  BY <1>2
<1>5. PICK e : e = Tag(m[k + 1], i)
  OBVIOUS
<1>6. e \in Stream
  <2>1. m[k + 1] \in Seq(Char)
    OBVIOUS
  <2>. QED
    BY <1>5, <2>1, TagIs
<1>7. /\ G \in Seq(Stream) /\ Len(G) = k
      /\ \A j \in 1..k : G[j] = Tag(m[j], i)
  <2>1. G = Tagged(v, i)
    BY <1>2
  <2>2. \A j \in 1..k : G[j] = Tag(v[j], i)
    BY <1>4, <2>1, TaggedIs
  <2>. QED
    BY <1>4, <2>1, <2>2, TaggedIs
<1>8. PICK w : w = Append(G, e)
  OBVIOUS
<1>9. /\ w \in Seq(Stream) /\ Len(w) = k + 1 /\ w[k + 1] = e
      /\ \A j \in 1..k : w[j] = G[j]
  BY <1>6, <1>7, <1>8, AppendedIs
<1>10. PICK x : x = Tagged(u, i)
  OBVIOUS
<1>11. /\ x \in Seq(Stream) /\ Len(x) = k + 1
       /\ \A j \in 1..(k + 1) : x[j] = Tag(m[j], i)
  <2>1. \A j \in 1..(k + 1) : x[j] = Tag(u[j], i)
    BY <1>3, <1>10, TaggedIs
  <2>. QED
    BY <1>3, <1>10, <2>1, TaggedIs
<1>12. ASSUME NEW j \in 1..Len(x) PROVE x[j] = w[j]
  <2>1. CASE j = k + 1
    BY <1>5, <1>9, <1>11, <2>1
  <2>2. CASE j # k + 1
    <3>1. j \in 1..k /\ j \in 1..(k + 1)
      BY <1>11, <2>2
    <3>. QED
      BY <1>7, <1>9, <1>11, <3>1
  <2>. QED
    BY <2>1, <2>2
<1>13. x = w
  BY <1>9, <1>11, <1>12, SeqEqual
<1>. QED
  BY <1>1, <1>5, <1>7, <1>8, <1>10, <1>13

LEMMA FreshIs ==
  FreshParser = At(<<>>, <<>>) /\ FreshParser \in Parsers
<1>1. <<>> \in Seq(Stream) /\ <<>> \in Stream
  BY DEF Stream
<1>2. Append(<<>>, <<>>) = NoMessage
  BY DEF NoMessage
<1>3. NoMessage \in Seq(Stream) /\ NoMessage # <<>>
  <2>1. PICK S : S = Stream
    OBVIOUS
  <2>2. <<>> \in Seq(S) /\ <<>> \in S
    BY <1>1, <2>1
  <2>3. Append(<<>>, <<>>) \in Seq(S) /\ Append(<<>>, <<>>) # <<>>
    BY <2>2, AppendedIs
  <2>. QED
    BY <1>2, <2>1, <2>3
<1>. QED
  BY <1>2, <1>3 DEF FreshParser, At, Parsers

LEMMA FirstField ==
  ASSUME NEW m \in Seq(Seq(Char)), 1 <= Len(m), NEW i \in Nat
  PROVE  Tagged(SubSeq(m, 1, 1), i) = Append(<<>>, Tag(m[1], i))
<1>1. PICK G : G = Tagged(SubSeq(m, 1, 0), i)
  OBVIOUS
<1>2. SubSeq(m, 1, 0) = <<>> /\ <<>> \in Seq(Seq(Char)) /\ Len(<<>>) = 0
  OBVIOUS
<1>3. G \in Seq(Stream) /\ Len(G) = 0
  BY <1>1, <1>2, TaggedIs
<1>4. G = <<>>
  BY <1>3, EmptySeq
<1>5. Tagged(SubSeq(m, 1, 0 + 1), i) = Append(G, Tag(m[0 + 1], i))
  <2>1. 0 \in Nat /\ 0 + 1 <= Len(m)
    OBVIOUS
  <2>. QED
    BY <1>1, <2>1, PrefixTagged
<1>6. 0 + 1 = 1
  OBVIOUS
<1>. QED
  BY <1>4, <1>5, <1>6

(* The message without its last byte. *)
LEMMA MessageText ==
  ASSUME NEW m \in Messages, NEW i \in Nat
  PROVE  \E t : /\ Plain(t) /\ Dump(m) = t \o <<End>>
                /\ After(FreshParser, Tag(t, i)) = [esc |-> FALSE, fields |-> Tagged(m, i)]
<1>1. m \in Seq(Seq(Char)) /\ m # <<>>
  BY DEF Messages
<1>2. PICK n : n = Len(m) - 1
  OBVIOUS
<1>3. n \in Nat /\ Len(m) = n + 1 /\ \A k \in 1..(n + 1) : m[k] \in Seq(Char)
  BY <1>1, <1>2
<1>4. PICK ss : ss = [k \in 1..n |-> <<Sep>> \o Escape(m[k + 1])]
  OBVIOUS
<1>5. Plain(<<Sep>>) /\ <<Sep>> \in Seq(Char)
  <2>1. Sep \in Char /\ Sep # End /\ Sep # Nul
    BY DEF Char, Sep, End, Nul
  <2>. QED
    BY <2>1 DEF Plain
<1>6. \A k \in 1..(n + 1) : Plain(Escape(m[k])) /\ Escape(m[k]) \in Seq(Char)
  <2>1. <<>> \in Seq(Stream)
    OBVIOUS
  <2>. QED
    BY <1>3, <2>1, EscapedText DEF Plain
<1>7. \A k \in 1..n : Plain(<<Sep>> \o Escape(m[k + 1]))
  BY <1>3, <1>5, <1>6, PlainJoined
<1>8. /\ ss \in Seq(Seq(Char)) /\ Len(ss) = n
      /\ \A k \in 1..n : ss[k] = <<Sep>> \o Escape(m[k + 1])
  <2>1. \A k \in 1..n : <<Sep>> \o Escape(m[k + 1]) \in Seq(Char)
    BY <1>7 DEF Plain
  <2>. QED
    BY <1>3, <1>4, <2>1
<1>9. PICK e : /\ e[0] = <<>> /\ e[Len(ss)] = FlattenSeq(ss)
               /\ \A k \in 0..Len(ss) : e[k] \in Seq(Char)
               /\ \A k \in 1..Len(ss) : e[k] = e[k - 1] \o ss[k]
  BY <1>8, FlattenIs
<1>10. PICK x : x = Escape(m[1])
  OBVIOUS
<1>11. x \in Seq(Char) /\ Plain(x)
  <2>1. 1 \in 1..(n + 1)
    BY <1>3
  <2>. QED
    BY <1>6, <1>10, <2>1
<1> DEFINE Right(k) ==
             /\ Plain(x \o e[k])
             /\ After(FreshParser, Tag(x \o e[k], i))
                  = [esc |-> FALSE, fields |-> Tagged(SubSeq(m, 1, k + 1), i)]
           T == {k \in 0..n : Right(k)}
<1>12. 0 \in T
  <2>1. 0 \in 0..n /\ e[0] = <<>> /\ 0 + 1 = 1 /\ x \o <<>> = x
    BY <1>3, <1>9, <1>11
  <2>2. <<>> \in Seq(Stream) /\ m[1] \in Seq(Char)
    BY <1>3
  <2>3. After(At(<<>>, <<>>), Tag(x, i)) = At(<<>>, Tag(m[1], i))
    BY <1>10, <2>2, EscapedText
  <2>4. Tagged(SubSeq(m, 1, 1), i) = Append(<<>>, Tag(m[1], i))
    BY <1>1, <1>3, FirstField
  <2>5. After(FreshParser, Tag(x, i)) = [esc |-> FALSE, fields |-> Tagged(SubSeq(m, 1, 1), i)]
    BY <2>3, <2>4, FreshIs DEF At
  <2>6. Right(0)
    BY <1>11, <2>1, <2>5
  <2>. QED
    BY <2>1, <2>6
<1>13. ASSUME NEW k \in 0..n, k \in T, k + 1 <= n PROVE k + 1 \in T
  <2>1. /\ k + 1 \in 1..n /\ k + 1 \in 0..n /\ (k + 1) - 1 = k /\ k + 1 \in Nat /\ k \in Nat
        /\ (k + 1) + 1 \in 1..(n + 1) /\ (k + 1) + 1 <= Len(m) /\ k + 1 <= Len(m)
    BY <1>3, <1>13
  <2>2. PICK y : y = Escape(m[(k + 1) + 1])
    OBVIOUS
  <2>3. PICK z : z = x \o e[k]
    OBVIOUS
  <2>4. e[k] \in Seq(Char) /\ y \in Seq(Char) /\ z \in Seq(Char) /\ Plain(z) /\ Plain(y)
    BY <1>6, <1>8, <1>9, <1>11, <1>13, <2>1, <2>2, <2>3, JoinedIs
  <2>5. e[k + 1] = e[k] \o (<<Sep>> \o y)
    BY <1>8, <1>9, <2>1, <2>2
  <2>6. x \o e[k + 1] = z \o (<<Sep>> \o y)
    <3>1. PICK w : w = <<Sep>> \o y
      OBVIOUS
    <3>2. w \in Seq(Char)
      BY <1>5, <2>4, <3>1, JoinedIs
    <3>3. x \o (e[k] \o w) = (x \o e[k]) \o w
      <4>1. PICK v : v = e[k]
        OBVIOUS
      <4>2. PICK S : S = Char
        OBVIOUS
      <4>3. x \in Seq(S) /\ v \in Seq(S) /\ w \in Seq(S)
        BY <1>11, <2>4, <3>2, <4>1, <4>2
      <4>4. x \o (v \o w) = (x \o v) \o w
        BY <4>3, JoinedAgain
      <4>. QED
        BY <4>1, <4>4
    <3>. QED
      BY <2>3, <2>5, <3>1, <3>3
  <2>7. Plain(x \o e[k + 1])
    BY <1>5, <2>4, <2>6, PlainJoined
  <2>8. PICK b : b = [c |-> Sep, i |-> i]
    OBVIOUS
  <2>9. Tag(<<Sep>>, i) = <<b>>
    BY <2>8 DEF Tag
  <2>10. Tag(<<Sep>> \o y, i) = <<b>> \o Tag(y, i) /\ <<Sep>> \o y \in Seq(Char)
    <3>1. PICK w : w = <<Sep>>
      OBVIOUS
    <3>2. w \in Seq(Char)
      BY <1>5, <3>1
    <3>3. Tag(w \o y, i) = Tag(w, i) \o Tag(y, i) /\ w \o y \in Seq(Char)
      BY <2>4, <3>2, TagJoined, JoinedIs
    <3>. QED
      BY <2>9, <3>1, <3>3
  <2>11. Tag(x \o e[k + 1], i) = Tag(z, i) \o (<<b>> \o Tag(y, i))
    <3>1. PICK w : w = <<Sep>> \o y
      OBVIOUS
    <3>2. w \in Seq(Char)
      BY <2>10, <3>1
    <3>3. Tag(z \o w, i) = Tag(z, i) \o Tag(w, i)
      BY <2>4, <3>2, TagJoined
    <3>. QED
      BY <2>6, <2>10, <3>1, <3>3
  <2>12. Tag(z, i) \in Stream /\ Tag(y, i) \in Stream /\ <<b>> \in Stream
         /\ <<b>> \o Tag(y, i) \in Stream
    BY <1>5, <2>4, <2>9, <2>10, TagIs
  <2>13. PICK G : G = Tagged(SubSeq(m, 1, k + 1), i)
    OBVIOUS
  <2>14. /\ G \in Seq(Stream)
         /\ Tagged(SubSeq(m, 1, (k + 1) + 1), i) = Append(G, Tag(m[(k + 1) + 1], i))
    BY <1>1, <2>1, <2>13, PrefixTagged
  <2>15. After(FreshParser, Tag(z, i)) = [esc |-> FALSE, fields |-> G]
    BY <1>13, <2>3, <2>13
  <2>16. ParseByte([esc |-> FALSE, fields |-> G], b) = At(G, <<>>)
    <3>1. b.c = Sep /\ Sep # Nul /\ Sep # Esc
      BY <2>8 DEF Sep, Nul, Esc
    <3>. QED
      BY <3>1 DEF ParseByte, ParseCharInNormalState, At, Sep, Nul, Esc, End
  <2>17. After(FreshParser, Tag(x \o e[k + 1], i)) = After(At(G, <<>>), Tag(y, i))
    <3>1. After(FreshParser, Tag(x \o e[k + 1], i))
            = After([esc |-> FALSE, fields |-> G], <<b>> \o Tag(y, i))
      <4>1. PICK w : w = <<b>> \o Tag(y, i)
        OBVIOUS
      <4>2. w \in Stream
        BY <2>12, <4>1
      <4>3. After(FreshParser, Tag(z, i) \o w) = After(After(FreshParser, Tag(z, i)), w)
        BY <2>12, <4>2, AfterJoined
      <4>. QED
        BY <2>11, <2>15, <4>1, <4>3
    <3>2. After([esc |-> FALSE, fields |-> G], <<b>> \o Tag(y, i))
            = After(After([esc |-> FALSE, fields |-> G], <<b>>), Tag(y, i))
      BY <2>12, AfterJoined
    <3>. QED
      BY <2>16, <3>1, <3>2, AfterOne
  <2>18. After(At(G, <<>>), Tag(y, i)) = At(G, Tag(m[(k + 1) + 1], i))
    BY <1>3, <2>1, <2>2, <2>14, EscapedText
  <2>19. After(FreshParser, Tag(x \o e[k + 1], i))
           = [esc |-> FALSE, fields |-> Tagged(SubSeq(m, 1, (k + 1) + 1), i)]
    BY <2>14, <2>17, <2>18 DEF At
  <2>. QED
    BY <2>1, <2>7, <2>19
<1>14. Right(n)
  <2>1. \A k \in 0..n : k \in T
    <3> HIDE DEF T
    <3>. QED
      BY <1>3, <1>12, <1>13, UpTo
  <2>2. n \in 0..n
    BY <1>3
  <2>. QED
    BY <2>1, <2>2
<1>15. SubSeq(m, 1, n + 1) = m
  BY <1>1, <1>3
<1>16. Dump(m) = (x \o e[n]) \o <<End>>
  <2>1. FlattenSeq(ss) = e[n]
    BY <1>8, <1>9
  <2>2. Dump(m) = x \o e[n] \o <<End>>
    BY <1>2, <1>4, <1>10, <2>1 DEF Dump
  <2>. QED
    BY <2>2
<1>. QED
  BY <1>14, <1>15, <1>16
-----------------------------------------------------------------------------
LEMMA BytesAre ==
  ASSUME NEW m \in Messages, NEW i \in Nat, NEW s, s = Bytes(m, i), NEW n, n = Len(s)
  PROVE  /\ s \in Stream /\ n \in Nat /\ n >= 1
         /\ \A k \in 1..n : s[k].i = i /\ s[k].c # Nul
         /\ \A k \in 1..n : s[k].c = End <=> k = n
         /\ Parsed(FreshParser, s)[n - 1] = [esc |-> FALSE, fields |-> Tagged(m, i)]
<1>1. PICK t : /\ Plain(t) /\ Dump(m) = t \o <<End>>
               /\ After(FreshParser, Tag(t, i)) = [esc |-> FALSE, fields |-> Tagged(m, i)]
  BY MessageText
<1>2. t \in Seq(Char) /\ End \in Char /\ End # Nul
  BY <1>1 DEF Plain, Char, End, Nul
<1>3. PICK l : l = Len(t)
  OBVIOUS
<1>4. PICK d : d = Dump(m)
  OBVIOUS
<1>5. /\ l \in Nat /\ d \in Seq(Char) /\ Len(d) = l + 1 /\ d[l + 1] = End
      /\ \A k \in 1..l : d[k] = t[k]
  <2>1. PICK e : e = <<End>>
    OBVIOUS
  <2>2. e \in Seq(Char) /\ Len(e) = 1 /\ e[1] = End
    BY <1>2, <2>1
  <2>3. d = t \o e
    BY <1>1, <1>4, <2>1
  <2>. QED
    <3>1. /\ d \in Seq(Char) /\ Len(d) = Len(t) + Len(e) /\ Len(t) \in Nat
          /\ \A k \in 1..Len(t) : d[k] = t[k]
          /\ \A k \in 1..Len(e) : d[Len(t) + k] = e[k]
      <4>1. PICK S : S = Char
        OBVIOUS
      <4>2. t \in Seq(S) /\ e \in Seq(S)
        BY <1>2, <2>2, <4>1
      <4>. QED
        BY <2>3, <4>1, <4>2, JoinedIs
    <3>2. 1 \in 1..Len(e)
      BY <2>2
    <3>3. d[Len(t) + 1] = End
      BY <2>2, <3>1, <3>2
    <3>. QED
      BY <1>3, <2>2, <3>1, <3>3
<1>6. s = Tag(d, i)
  BY <1>4 DEF Bytes, Tag
<1>7. s \in Stream /\ n = l + 1 /\ \A k \in 1..n : s[k] = [c |-> d[k], i |-> i]
  BY <1>5, <1>6, TagIs
<1>8. \A k \in 1..l : t[k] # End /\ t[k] # Nul
  BY <1>1, <1>3 DEF Plain
<1>9. ASSUME NEW k \in 1..n
      PROVE  /\ s[k].i = i /\ s[k].c # Nul
             /\ s[k].c = End <=> k = n
  <2>1. s[k].i = i /\ s[k].c = d[k]
    <3>1. s[k] = [c |-> d[k], i |-> i]
      BY <1>7
    <3>. QED
      BY <3>1
  <2>2. CASE k = n
    BY <1>2, <1>5, <1>7, <2>1, <2>2
  <2>3. CASE k # n
    <3>1. k \in 1..l
      BY <1>5, <1>7, <2>3
    <3>. QED
      BY <1>5, <1>8, <2>1, <2>3, <3>1
  <2>. QED
    BY <2>2, <2>3
<1>10. PICK u : u = Tag(t, i)
  OBVIOUS
<1>11. u \in Stream /\ Len(u) = l /\ \A k \in 1..l : u[k] = [c |-> t[k], i |-> i]
  BY <1>2, <1>3, <1>10, TagIs
<1>12. Within(u, s, 0)
  <2>1. \A k \in 1..l : u[k] = s[0 + k]
    BY <1>5, <1>7, <1>11
  <2>. QED
    BY <1>5, <1>7, <1>11, <2>1 DEF Within
<1>13. \A j \in 0..Len(u) : Parsed(FreshParser, u)[j] = Parsed(FreshParser, s)[j]
  BY <1>12, ParsedFirst
<1>15. Parsed(FreshParser, u)[l] = Parsed(FreshParser, s)[l]
  <2>1. l \in 0..Len(u)
    BY <1>5, <1>11
  <2>. QED
    BY <1>13, <2>1
<1>16. l = n - 1
  BY <1>5, <1>7
<1>. QED
  BY <1>1, <1>5, <1>7, <1>9, <1>10, <1>11, <1>15, <1>16 DEF After

LEMMA OriginIs ==
  ASSUME NEW fields, NEW last, NEW all
  PROVE  /\ Origin(fields, last, all) \in {last.i, Damaged}
         /\ Origin(fields, last, all) # Damaged => last.i \in 1..Len(all)
  BY DEF Origin

LEMMA OriginOfWhole ==
  ASSUME NEW m \in Messages, NEW i, NEW last, last.i = i,
         NEW all, Len(all) \in Nat, i \in 1..Len(all), all[i] = m
  PROVE  Origin(Tagged(m, i), last, all) = i
<1>1. m \in Seq(Seq(Char)) /\ i \in Nat
  BY DEF Messages
<1>2. PICK g : g = Tagged(m, i)
  OBVIOUS
<1>3. Len(g) = Len(m) /\ \A k \in 1..Len(m) : g[k] = Tag(m[k], i)
  BY <1>1, <1>2, TaggedIs
<1>4. \A k \in 1..Len(m) : m[k] \in Seq(Char)
  BY <1>1
<1>5. \A k \in 1..Len(m) : /\ Len(g[k]) = Len(m[k])
                           /\ \A j \in 1..Len(m[k]) : g[k][j] = [c |-> m[k][j], i |-> i]
  BY <1>1, <1>3, <1>4, TagIs
<1>6. ASSUME NEW k \in 1..Len(m)
      PROVE  [j \in 1..Len(g[k]) |-> g[k][j].c] = m[k]
  <2>1. PICK t \in Seq(Char) : t = m[k]
    BY <1>4
  <2>2. Len(g[k]) = Len(t) /\ \A j \in 1..Len(t) : g[k][j].c = t[j]
    <3>1. Len(g[k]) = Len(t) /\ \A j \in 1..Len(t) : g[k][j] = [c |-> t[j], i |-> i]
      BY <1>5, <2>1
    <3>2. ASSUME NEW j \in 1..Len(t) PROVE g[k][j].c = t[j]
      <4>1. g[k][j] = [c |-> t[j], i |-> i]
        BY <3>1
      <4>. QED
        BY <4>1
    <3>. QED
      BY <3>1, <3>2
  <2>3. [j \in 1..Len(t) |-> g[k][j].c] = [j \in 1..Len(t) |-> t[j]]
    BY <2>2
  <2>4. t = [j \in 1..Len(t) |-> t[j]]
    OBVIOUS
  <2>. QED
    BY <2>1, <2>2, <2>3, <2>4
<1>7. [k \in 1..Len(g) |-> [j \in 1..Len(g[k]) |-> g[k][j].c]] = m
  <2> DEFINE V(k) == [j \in 1..Len(g[k]) |-> g[k][j].c]
  <2>1. \A k \in 1..Len(m) : V(k) = m[k]
    BY <1>6
  <2>2. m = [k \in 1..Len(m) |-> m[k]]
    BY <1>1
  <2>3. [k \in 1..Len(m) |-> V(k)] = [k \in 1..Len(m) |-> m[k]]
    <3> HIDE DEF V
    <3>. QED
      BY <2>1
  <2>. QED
    BY <1>3, <2>2, <2>3
<1>8. ASSUME NEW k \in 1..Len(g), NEW j \in 1..Len(g[k]) PROVE g[k][j].i = i
  <2>1. g[k][j] = [c |-> m[k][j], i |-> i]
    BY <1>3, <1>5
  <2>. QED
    BY <2>1
<1>9. Origin(g, last, all) = i
  BY <1>7, <1>8 DEF Origin, MessageOf, TextOf
<1>. QED
  BY <1>2, <1>9
-----------------------------------------------------------------------------
(***************************************************************************)
(* What the server's parser makes of a stream.                             *)
(***************************************************************************)
EndsOf(p, s) == MessageEnds(Parsed(p, s), s)
Emitted(p, s, k, all) == Origin(Parsed(p, s)[k - 1].fields, s[k], all)

(* All messages are whole but the first, if that may be damaged, and those *)
(* in J, and after them the parser waits for a message, unless the next    *)
(* that is written is in J.                                                *)
Good(first, J, p, s, all) ==
  /\ \A k \in EndsOf(p, s) :
       Emitted(p, s, k, all) = Damaged =>
         (first /\ \A j \in EndsOf(p, s) : k <= j) \/ s[k].i \in J
  /\ \/ After(p, s) = FreshParser
     \/ first /\ EndsOf(p, s) = {}
     \/ Len(all) + 1 \in J

(* The messages of a stream are in order, and after those told; n: there   *)
(* are so many.                                                            *)
Ordered(t, s, n) ==
  /\ \A k \in 1..Len(s) :
       s[k].c = End => s[k].i \in 1..n /\ \A x \in 1..Len(t) : t[x].i < s[k].i
  /\ \A j, k \in 1..Len(s) : j < k /\ s[j].c = End /\ s[k].c = End => s[j].i < s[k].i

(* What s has behind its first n bytes. *)
Tail0(t, s, n) == Within(t, s, n) /\ n + Len(t) = Len(s)

LEMMA EndsWithin ==
  ASSUME NEW p, NEW s, NEW t, NEW n, Within(t, s, n), NEW all
  PROVE  /\ \A k \in 1..Len(t) : k \in EndsOf(Parsed(p, s)[n], t) <=> n + k \in EndsOf(p, s)
         /\ \A k \in 1..Len(t) :
              Emitted(Parsed(p, s)[n], t, k, all) = Emitted(p, s, n + k, all)
<1>0. PICK q : q = Parsed(p, s)[n]
  OBVIOUS
<1>1. /\ Len(s) \in Nat /\ Len(t) \in Nat /\ n \in Nat /\ n + Len(t) <= Len(s)
      /\ \A j \in 1..Len(t) : t[j] = s[n + j]
  BY DEF Within
<1>2. \A j \in 0..Len(t) : Parsed(Parsed(p, s)[n], t)[j] = Parsed(p, s)[n + j]
  BY ParsedWithin
<1>3. \A j \in 0..Len(t) : Parsed(q, t)[j] = Parsed(p, s)[n + j]
  BY <1>0, <1>2
<1>4. ASSUME NEW k \in 1..Len(t)
      PROVE  /\ k \in EndsOf(q, t) <=> n + k \in EndsOf(p, s)
             /\ Emitted(q, t, k, all) = Emitted(p, s, n + k, all)
  <2>1. PICK j : j = k - 1
    OBVIOUS
  <2>2. j \in 0..Len(t) /\ n + j = (n + k) - 1 /\ n + k \in 1..Len(s)
    BY <1>1, <2>1
  <2>3. Parsed(q, t)[k - 1] = Parsed(p, s)[(n + k) - 1] /\ t[k] = s[n + k]
    BY <1>1, <1>3, <2>1, <2>2
  <2>. QED
    BY <2>2, <2>3 DEF EndsOf, MessageEnds, Emitted
<1>. QED
  BY <1>0, <1>4

LEMMA AfterWithin ==
  ASSUME NEW p, NEW s, NEW t, NEW n, Tail0(t, s, n)
  PROVE  After(Parsed(p, s)[n], t) = After(p, s)
<1>1. Within(t, s, n) /\ Len(t) \in Nat /\ n + Len(t) = Len(s)
  BY DEF Tail0, Within
<1>2. \A j \in 0..Len(t) : Parsed(Parsed(p, s)[n], t)[j] = Parsed(p, s)[n + j]
  BY <1>1, ParsedWithin
<1>3. Len(t) \in 0..Len(t)
  BY <1>1
<1>. QED
  BY <1>1, <1>2, <1>3 DEF After

LEMMA GoodTail ==
  ASSUME NEW p, NEW s, NEW t, NEW n, Tail0(t, s, n), NEW all,
         NEW first, NEW then, NEW J, Good(first, J, p, s, all),
         \/ then = first /\ \A k \in EndsOf(p, s) : k > n
         \/ \E k \in EndsOf(p, s) : k <= n
  PROVE  Good(then, J, Parsed(p, s)[n], t, all)
<1>0. PICK q : q = Parsed(p, s)[n]
  OBVIOUS
<1>1. /\ Len(s) \in Nat /\ Len(t) \in Nat /\ n \in Nat /\ n + Len(t) = Len(s)
      /\ Within(t, s, n)
  BY DEF Within, Tail0
<1>2. /\ \A k \in 1..Len(t) : k \in EndsOf(q, t) <=> n + k \in EndsOf(p, s)
      /\ \A k \in 1..Len(t) : Emitted(q, t, k, all) = Emitted(p, s, n + k, all)
      /\ After(q, t) = After(p, s)
  <2>1. /\ \A k \in 1..Len(t) :
             k \in EndsOf(Parsed(p, s)[n], t) <=> n + k \in EndsOf(p, s)
        /\ \A k \in 1..Len(t) :
             Emitted(Parsed(p, s)[n], t, k, all) = Emitted(p, s, n + k, all)
        /\ After(Parsed(p, s)[n], t) = After(p, s)
    <3>1. Within(t, s, n)
      BY <1>1
    <3>2. \A k \in 1..Len(t) :
            k \in EndsOf(Parsed(p, s)[n], t) <=> n + k \in EndsOf(p, s)
      BY <3>1, EndsWithin
    <3>3. \A k \in 1..Len(t) :
            Emitted(Parsed(p, s)[n], t, k, all) = Emitted(p, s, n + k, all)
      BY <3>1, EndsWithin
    <3>4. After(Parsed(p, s)[n], t) = After(p, s)
      BY AfterWithin
    <3>. QED
      BY <3>2, <3>3, <3>4
  <2>. QED
    BY <1>0, <1>1, <2>1
<1>3. EndsOf(q, t) \subseteq 1..Len(t) /\ EndsOf(p, s) \subseteq 1..Len(s)
  BY DEF EndsOf, MessageEnds
<1>4. ASSUME NEW k \in EndsOf(q, t), Emitted(q, t, k, all) = Damaged
      PROVE  (then /\ \A j \in EndsOf(q, t) : k <= j) \/ t[k].i \in J
  <2>1. k \in 1..Len(t) /\ n + k \in EndsOf(p, s) /\ Emitted(p, s, n + k, all) = Damaged
    BY <1>2, <1>3, <1>4
  <2>0. t[k] = s[n + k]
    BY <1>1, <2>1 DEF Within
  <2>. SUFFICES ASSUME t[k].i \notin J PROVE then /\ \A j \in EndsOf(q, t) : k <= j
    OBVIOUS
  <2>2. first /\ \A j \in EndsOf(p, s) : n + k <= j
    BY <2>0, <2>1 DEF Good
  <2>3. \A j \in EndsOf(p, s) : j > n
    BY <1>1, <1>3, <2>1, <2>2
  <2>4. then = first
    BY <1>1, <1>3, <2>3
  <2>5. ASSUME NEW j \in EndsOf(q, t) PROVE k <= j
    <3>1. j \in 1..Len(t) /\ n + j \in EndsOf(p, s)
      BY <1>2, <1>3
    <3>2. n + k <= n + j
      BY <2>2, <3>1
    <3>. QED
      BY <1>1, <2>1, <3>1, <3>2
  <2>. QED
    BY <2>2, <2>4, <2>5
<1>5. \/ After(q, t) = FreshParser
      \/ then /\ EndsOf(q, t) = {}
      \/ Len(all) + 1 \in J
  <2>1. CASE EndsOf(p, s) = {}
    <3>1. EndsOf(q, t) = {}
      BY <1>2, <1>3, <2>1
    <3>2. then = first
      BY <2>1
    <3>. QED
      BY <1>2, <3>1, <3>2 DEF Good
  <2>2. CASE EndsOf(p, s) # {}
    BY <1>2, <2>2 DEF Good
  <2>. QED
    BY <2>1, <2>2
<1>. QED
  BY <1>0, <1>4, <1>5 DEF Good

LEMMA ParseByteIs ==
  ASSUME NEW p \in Parsers, NEW b \in Byte
  PROVE  /\ ParseByte(p, b) \in Parsers
         /\ b.c = Nul => ParseByte(p, b) = FreshParser
         /\ b.c = End /\ ~p.esc => ParseByte(p, b) = FreshParser
<1>1. /\ p.esc \in BOOLEAN /\ p.fields \in Seq(Stream) /\ p.fields # <<>>
      /\ p = [esc |-> p.esc, fields |-> p.fields]
  BY DEF Parsers
<1>2. b.c \in Char /\ b.i \in Nat
  BY DEF Byte
<1>3. PICK f : f = p.fields
  OBVIOUS
<1>4. f \in Seq(Stream) /\ f # <<>> /\ Len(f) \in 1..Len(f)
  BY <1>1, <1>3
<1>5. ASSUME NEW e \in Byte
      PROVE  Grow(f, e) \in Seq(Stream) \ {<<>>}
  <2>1. PICK S : S = Stream
    OBVIOUS
  <2>2. PICK x : x = Append(f[Len(f)], e)
    OBVIOUS
  <2>3. f \in Seq(S) /\ x \in S
    <3>1. f[Len(f)] \in Stream
      BY <1>4
    <3>2. x \in Stream
      BY <2>2, <3>1, AppendedIs DEF Stream
    <3>. QED
      BY <1>4, <2>1, <3>2
  <2>4. PICK i \in 1..Len(f) : i = Len(f)
    BY <1>4
  <2>5. [f EXCEPT ![i] = x] \in Seq(S) /\ Len([f EXCEPT ![i] = x]) = Len(f)
    BY <2>3, ExceptSeq
  <2>6. Grow(f, e) = [f EXCEPT ![i] = x]
    BY <2>2, <2>4 DEF Grow
  <2>7. Len(f) # 0
    BY <1>4
  <2>8. Grow(f, e) \in Seq(S) /\ Len(Grow(f, e)) # 0
    BY <2>5, <2>6, <2>7
  <2>9. Grow(f, e) # <<>>
    BY <2>8
  <2>. QED
    BY <2>1, <2>8, <2>9
<1>6. CASE b.c = Nul
  <2>1. ParseByte(p, b) = [p EXCEPT !.esc = FALSE, !.fields = NoMessage]
    BY <1>6 DEF ParseByte, Reset
  <2>2. ParseByte(p, b) = FreshParser
    BY <1>1, <2>1 DEF FreshParser
  <2>. QED
    BY <2>2, FreshIs
<1>7. CASE b.c # Nul /\ p.esc
  <2>1. PICK e : e = CASE b.c = "n" -> [b EXCEPT !.c = End]
                       [] b.c = "0" -> [b EXCEPT !.c = Nul]
                       [] OTHER     -> b
    OBVIOUS
  <2>2. e \in Byte
    <3>1. End \in Char /\ Nul \in Char
      BY DEF Char
    <3>2. CASE b.c = "n"
      <4>1. e = [b EXCEPT !.c = End]
        BY <2>1, <3>2
      <4>. QED
        BY <3>1, <4>1 DEF Byte
    <3>3. CASE b.c # "n" /\ b.c = "0"
      <4>1. e = [b EXCEPT !.c = Nul]
        BY <2>1, <3>3
      <4>. QED
        BY <3>1, <4>1 DEF Byte
    <3>4. CASE b.c # "n" /\ b.c # "0"
      BY <2>1, <3>4
    <3>. QED
      BY <3>2, <3>3, <3>4
  <2>3. ParseByte(p, b) = [esc |-> FALSE, fields |-> Grow(f, e)]
    BY <1>3, <1>7, <2>1 DEF ParseByte, ParseCharInEscapeState
  <2>4. Grow(f, e) \in Seq(Stream) \ {<<>>}
    BY <1>5, <2>2
  <2>. QED
    BY <1>7, <2>3, <2>4 DEF Parsers
<1>8. CASE b.c # Nul /\ ~p.esc
  <2>1. ParseByte(p, b) = ParseCharInNormalState(p, b)
    BY <1>8 DEF ParseByte
  <2>2. CASE b.c = Esc
    <3>1. ParseByte(p, b) = [p EXCEPT !.esc = TRUE] /\ b.c # End
      BY <2>1, <2>2 DEF ParseCharInNormalState, Esc, Sep, End
    <3>. QED
      BY <1>8, <3>1 DEF Parsers
  <2>3. CASE b.c = Sep
    <3>1. ParseByte(p, b) = [p EXCEPT !.fields = Append(@, <<>>)] /\ b.c # End
      BY <2>1, <2>3 DEF ParseCharInNormalState, Esc, Sep, End
    <3>2. PICK S : S = Stream
      OBVIOUS
    <3>3. <<>> \in S /\ f \in Seq(S)
      BY <1>4, <3>2 DEF Stream
    <3>4. Append(f, <<>>) \in Seq(S) /\ Append(f, <<>>) # <<>>
      BY <3>3, AppendedIs
    <3>5. ParseByte(p, b) = [esc |-> p.esc, fields |-> Append(f, <<>>)]
      BY <1>1, <1>3, <3>1
    <3>. QED
      <4>1. ParseByte(p, b) \in Parsers
        BY <1>1, <3>2, <3>4, <3>5 DEF Parsers
      <4>. QED
        BY <1>8, <3>1, <4>1
  <2>4. CASE b.c = End
    <3>1. ParseByte(p, b) = FreshParser
      BY <2>1, <2>4 DEF ParseCharInNormalState, Esc, Sep, End
    <3>. QED
      BY <3>1, FreshIs
  <2>5. CASE b.c \notin {Esc, Sep, End}
    <3>1. ParseByte(p, b) = [p EXCEPT !.fields = Grow(@, b)]
      BY <2>1, <2>5 DEF ParseCharInNormalState
    <3>2. ParseByte(p, b) = [esc |-> p.esc, fields |-> Grow(f, b)]
      BY <1>1, <1>3, <3>1
    <3>. QED
      BY <1>1, <1>5, <1>8, <2>5, <3>2 DEF Parsers
  <2>. QED
    BY <2>2, <2>3, <2>4, <2>5
<1>. QED
  BY <1>1, <1>6, <1>7, <1>8

LEMMA ParsedType ==
  ASSUME NEW p \in Parsers, NEW s \in Stream
  PROVE  \A k \in 0..Len(s) : Parsed(p, s)[k] \in Parsers
<1>1. Len(s) \in Nat /\ \A k \in 1..Len(s) : s[k] \in Byte
  BY DEF Stream
<1> DEFINE T == {k \in 0..Len(s) : Parsed(p, s)[k] \in Parsers}
<1>2. 0 \in T
  BY <1>1, ParsedIs
<1>3. ASSUME NEW k \in 0..Len(s), k \in T, k + 1 <= Len(s) PROVE k + 1 \in T
  <2>1. k + 1 \in 1..Len(s) /\ (k + 1) - 1 = k /\ k + 1 \in 0..Len(s)
    BY <1>1, <1>3
  <2>2. Parsed(p, s)[k + 1] = ParseByte(Parsed(p, s)[k], s[k + 1])
    BY <1>1, <2>1, ParsedIs
  <2>3. Parsed(p, s)[k] \in Parsers /\ s[k + 1] \in Byte
    BY <1>1, <1>3, <2>1
  <2>. QED
    BY <2>1, <2>2, <2>3, ParseByteIs
<1>. QED
  <2>1. \A k \in 0..Len(s) : k \in T
    <3> HIDE DEF T
    <3>. QED
      BY <1>1, <1>2, <1>3, UpTo
  <2>. QED
    BY <2>1
-----------------------------------------------------------------------------
LEMMA TailIs ==
  ASSUME NEW s \in Stream, NEW n \in 0..Len(s)
  PROVE  /\ SubSeq(s, n + 1, Len(s)) \in Stream
         /\ Tail0(SubSeq(s, n + 1, Len(s)), s, n)
<1>1. PICK t : t = SubSeq(s, n + 1, Len(s))
  OBVIOUS
<1>2. t \in Stream /\ Len(t) = Len(s) - n /\ \A j \in 1..Len(t) : t[j] = s[n + j]
  BY <1>1 DEF Stream
<1>3. Len(s) \in Nat /\ Len(t) \in Nat /\ n + Len(t) = Len(s)
  BY <1>2 DEF Stream
<1>. QED
  BY <1>1, <1>2, <1>3 DEF Tail0, Within

LEMMA PartsAre ==
  ASSUME NEW s \in Stream, NEW t \in Stream
  PROVE  /\ s \o t \in Stream
         /\ Within(s, s \o t, 0) /\ Tail0(t, s \o t, Len(s))
<1>1. PICK u : u = s \o t
  OBVIOUS
<1>2. /\ u \in Stream /\ Len(u) = Len(s) + Len(t) /\ Len(s) \in Nat /\ Len(t) \in Nat
      /\ \A n \in 1..Len(s) : u[n] = s[n]
      /\ \A n \in 1..Len(t) : u[Len(s) + n] = t[n]
  BY <1>1, JoinedIs DEF Stream
<1>. QED
  BY <1>1, <1>2 DEF Within, Tail0

LEMMA TailIsOne ==
  ASSUME NEW s, NEW n, NEW t \in Stream, NEW u \in Stream, Tail0(t, s, n), Tail0(u, s, n)
  PROVE  t = u
<1>1. /\ Len(t) \in Nat /\ Len(u) \in Nat /\ n \in Nat
      /\ n + Len(t) = Len(s) /\ n + Len(u) = Len(s)
  BY DEF Tail0, Within
<1>2. Len(t) = Len(u)
  BY <1>1
<1>3. /\ \A j \in 1..Len(t) : t[j] = s[n + j]
      /\ \A j \in 1..Len(u) : u[j] = s[n + j]
  BY DEF Tail0, Within
<1>4. \A j \in 1..Len(t) : t[j] = u[j]
  BY <1>2, <1>3
<1>. QED
  BY <1>2, <1>4, SeqEqual DEF Stream

(* A part of the stream that has been read, and what is left. *)
LEMMA RestIs ==
  ASSUME NEW s \in Stream, NEW r \in Stream, NEW n \in 0..Len(s)
  PROVE  /\ SubSeq(s, n + 1, Len(s)) \in Stream
         /\ Tail0(SubSeq(s, n + 1, Len(s)) \o r, s \o r, n)
<1>1. PICK t : t = SubSeq(s, n + 1, Len(s))
  OBVIOUS
<1>2. t \in Stream /\ Len(t) = Len(s) - n /\ \A j \in 1..Len(t) : t[j] = s[n + j]
  BY <1>1 DEF Stream
<1>3. PICK u : u = s \o r
  OBVIOUS
<1>4. /\ u \in Stream /\ Len(u) = Len(s) + Len(r) /\ Len(s) \in Nat /\ Len(r) \in Nat
      /\ \A k \in 1..Len(s) : u[k] = s[k]
      /\ \A k \in 1..Len(r) : u[Len(s) + k] = r[k]
  BY <1>3, JoinedIs DEF Stream
<1>5. PICK v : v = t \o r
  OBVIOUS
<1>6. /\ v \in Stream /\ Len(v) = Len(t) + Len(r) /\ Len(t) \in Nat
      /\ \A k \in 1..Len(t) : v[k] = t[k]
      /\ \A k \in 1..Len(r) : v[Len(t) + k] = r[k]
  <2>1. t \in Seq(Byte) /\ r \in Seq(Byte)
    BY <1>2 DEF Stream
  <2>2. /\ t \o r \in Seq(Byte) /\ Len(t \o r) = Len(t) + Len(r) /\ Len(t) \in Nat
        /\ \A k \in 1..Len(t) : (t \o r)[k] = t[k]
        /\ \A k \in 1..Len(r) : (t \o r)[Len(t) + k] = r[k]
    BY <2>1, JoinedIs
  <2>. QED
    BY <1>5, <2>2 DEF Stream
<1>7. n \in Nat /\ n + Len(v) = Len(u)
  BY <1>2, <1>4, <1>6
<1>8. ASSUME NEW j \in 1..Len(v) PROVE v[j] = u[n + j]
  <2>1. CASE j \in 1..Len(t)
    <3>1. n + j \in 1..Len(s)
      BY <1>2, <1>4, <2>1
    <3>. QED
      BY <1>2, <1>4, <1>6, <2>1, <3>1
  <2>2. CASE j \notin 1..Len(t)
    <3>1. PICK k : k = j - Len(t)
      OBVIOUS
    <3>2. k \in 1..Len(r) /\ j = Len(t) + k /\ n + j = Len(s) + k
      BY <1>2, <1>4, <1>6, <2>2, <3>1
    <3>. QED
      BY <1>4, <1>6, <3>2
  <2>. QED
    BY <2>1, <2>2
<1>9. Tail0(v, u, n)
  <2>1. Len(u) \in Nat /\ Len(v) \in Nat
    BY <1>4, <1>6
  <2>. QED
    BY <1>7, <1>8, <2>1 DEF Tail0, Within
<1>. QED
  BY <1>1, <1>2, <1>3, <1>5, <1>9

LEMMA EmittedGrown ==
  ASSUME NEW p, NEW s, NEW k, NEW all, NEW more,
         Len(all) \in Nat, Len(more) \in Nat, Len(all) <= Len(more),
         \A i \in 1..Len(all) : more[i] = all[i],
         s[k].i \in 1..Len(all)
  PROVE  Emitted(p, s, k, more) = Emitted(p, s, k, all)
<1>1. s[k].i \in 1..Len(more) /\ more[s[k].i] = all[s[k].i]
  OBVIOUS
<1>. QED
  BY <1>1 DEF Emitted, Origin

(* A stream in which at most the last byte can end a message. *)
LEMMA GoodLast ==
  ASSUME NEW p \in Parsers, NEW s \in Stream, NEW all, NEW J,
         \A k \in 1..Len(s) : s[k].c = End => k = Len(s)
  PROVE  /\ EndsOf(p, s) \subseteq {Len(s)}
         /\ Good(TRUE, J, p, s, all)
<1>1. Len(s) \in Nat /\ \A k \in 1..Len(s) : s[k] \in Byte
  BY DEF Stream
<1>2. EndsOf(p, s) \subseteq {Len(s)}
  BY DEF EndsOf, MessageEnds
<1>3. After(p, s) = FreshParser \/ EndsOf(p, s) = {}
  <2>. SUFFICES ASSUME EndsOf(p, s) # {} PROVE After(p, s) = FreshParser
    OBVIOUS
  <2>1. PICK n : n = Len(s)
    OBVIOUS
  <2>2. n \in 1..n /\ s[n].c = End /\ ~Parsed(p, s)[n - 1].esc
    BY <1>2, <2>1 DEF EndsOf, MessageEnds
  <2>3. n - 1 \in 0..n /\ n \in Nat
    BY <2>2
  <2>4. Parsed(p, s)[n - 1] \in Parsers /\ s[n] \in Byte
    BY <1>1, <2>1, <2>2, <2>3, ParsedType
  <2>5. Parsed(p, s)[n] = ParseByte(Parsed(p, s)[n - 1], s[n])
    BY <2>1, <2>2, <2>3, ParsedIs
  <2>. QED
    BY <2>1, <2>2, <2>4, <2>5, ParseByteIs DEF After
<1>4. \A k, j \in EndsOf(p, s) : k <= j
  BY <1>1, <1>2
<1>. QED
  BY <1>2, <1>3, <1>4 DEF Good

LEMMA EmptyGood ==
  ASSUME NEW first, NEW all, NEW J
  PROVE  Good(first, J, FreshParser, <<>>, all)
<1>1. Len(<<>>) = 0 /\ 1..0 = {}
  OBVIOUS
<1>2. EndsOf(FreshParser, <<>>) = {}
  BY <1>1 DEF EndsOf, MessageEnds
<1>. QED
  BY <1>2, AfterNothing DEF Good

-----------------------------------------------------------------------------
LEMMA ZeroByteIs == ZeroByte \in Byte /\ ZeroByte.c = Nul /\ ZeroByte.c # End
  BY DEF ZeroByte, Byte, Char, Nul, End

(* The stream is cut, and a zero byte follows. *)
LEMMA GoodCut ==
  ASSUME NEW p \in Parsers, NEW s \in Stream, NEW t \in Stream, Within(t, s, 0),
         NEW first, NEW all, NEW J, Good(first, J, p, s, all),
         NEW x, \A k \in EndsOf(p, s) : s[k].i # x,
         NEW K, J \subseteq K \cup {x}
  PROVE  Good(first, K, p, Append(t, ZeroByte), all)
<1>1. PICK n : n = Len(t)
  OBVIOUS
<1>2. PICK u : u = Append(t, ZeroByte)
  OBVIOUS
<1>3. /\ n \in Nat /\ u \in Stream /\ Len(u) = n + 1 /\ u[n + 1] = ZeroByte
      /\ \A k \in 1..n : u[k] = t[k]
  <2>1. t \in Seq(Byte) /\ ZeroByte \in Byte
    BY ZeroByteIs DEF Stream
  <2>. QED
    BY <1>1, <1>2, <2>1, AppendedIs DEF Stream
<1>4. Within(t, u, 0)
  BY <1>1, <1>3 DEF Within
<1>5. \A k \in 0..n : Parsed(p, t)[k] = Parsed(p, u)[k]
  BY <1>1, <1>4, ParsedFirst
<1>6. \A k \in 0..n : Parsed(p, t)[k] = Parsed(p, s)[k]
  BY <1>1, ParsedFirst
<1>7. \A k \in 1..n : t[k] = s[k] /\ k \in 1..Len(s)
  BY <1>1 DEF Within
<1>8. ASSUME NEW k \in 1..n
      PROVE  /\ k \in EndsOf(p, u) => k \in EndsOf(p, s)
             /\ Emitted(p, u, k, all) = Emitted(p, s, k, all)
  <2>1. k - 1 \in 0..n
    BY <1>3
  <2>2. Parsed(p, u)[k - 1] = Parsed(p, s)[k - 1] /\ u[k] = s[k]
    BY <1>3, <1>5, <1>6, <1>7, <2>1
  <2>. QED
    BY <1>7, <2>2 DEF EndsOf, MessageEnds, Emitted
<1>9. EndsOf(p, u) \subseteq 1..n
  <2>. SUFFICES ASSUME NEW k \in EndsOf(p, u) PROVE k \in 1..n
    OBVIOUS
  <2>1. k \in 1..(n + 1) /\ u[k].c = End
    BY <1>3 DEF EndsOf, MessageEnds
  <2>2. k # n + 1
    BY <1>3, <2>1, ZeroByteIs
  <2>. QED
    BY <1>3, <2>1, <2>2
<1>10. ASSUME NEW k \in EndsOf(p, u), Emitted(p, u, k, all) = Damaged
       PROVE  (first /\ \A j \in EndsOf(p, u) : k <= j) \/ u[k].i \in K
  <2>1. k \in EndsOf(p, s) /\ Emitted(p, s, k, all) = Damaged /\ u[k] = s[k]
    BY <1>3, <1>7, <1>8, <1>9, <1>10
  <2>2. (first /\ \A j \in EndsOf(p, s) : k <= j) \/ s[k].i \in K
    BY <2>1 DEF Good
  <2>. QED
    BY <1>8, <1>9, <2>1, <2>2
<1>11. After(p, u) = FreshParser
  <2>1. n \in 0..Len(u) /\ n + 1 \in 1..Len(u) /\ (n + 1) - 1 = n
    BY <1>3
  <2>2. Parsed(p, u)[n] \in Parsers
    BY <1>3, <2>1, ParsedType
  <2>3. Parsed(p, u)[n + 1] = ParseByte(Parsed(p, u)[n], ZeroByte)
    BY <1>3, <2>1, ParsedIs
  <2>. QED
    BY <1>3, <2>2, <2>3, ZeroByteIs, ParseByteIs DEF After
<1>12. Good(first, K, p, u, all)
  BY <1>10, <1>11 DEF Good
<1>. QED
  BY <1>2, <1>12

(* The stream is cut; the next message may be joined to what is left.      *)
LEMMA GoodPart ==
  ASSUME NEW p \in Parsers, NEW s \in Stream, NEW t \in Stream, Within(t, s, 0),
         NEW first, NEW all, NEW J, Good(first, J, p, s, all)
  PROVE  Good(first, J \cup {Len(all) + 1}, p, t, all)
<1>1. PICK n : n = Len(t)
  OBVIOUS
<1>2. n \in Nat /\ n <= Len(s) /\ Len(s) \in Nat /\ \A k \in 1..n : t[k] = s[k]
  BY <1>1 DEF Within
<1>3. \A k \in 0..n : Parsed(p, t)[k] = Parsed(p, s)[k]
  BY <1>1, ParsedFirst
<1>4. EndsOf(p, t) \subseteq 1..n
  BY <1>1 DEF EndsOf, MessageEnds
<1>5. ASSUME NEW k \in 1..n
      PROVE  /\ k \in EndsOf(p, t) => k \in EndsOf(p, s)
             /\ Emitted(p, t, k, all) = Emitted(p, s, k, all)
  <2>1. k - 1 \in 0..n /\ k \in 1..Len(s)
    BY <1>2
  <2>2. Parsed(p, t)[k - 1] = Parsed(p, s)[k - 1] /\ t[k] = s[k]
    BY <1>2, <1>3, <2>1
  <2>. QED
    BY <2>1, <2>2 DEF EndsOf, MessageEnds, Emitted
<1>6. ASSUME NEW k \in EndsOf(p, t), Emitted(p, t, k, all) = Damaged
      PROVE  (first /\ \A j \in EndsOf(p, t) : k <= j) \/ t[k].i \in J
  <2>1. k \in EndsOf(p, s) /\ Emitted(p, s, k, all) = Damaged /\ t[k] = s[k]
    BY <1>2, <1>4, <1>5, <1>6
  <2>2. (first /\ \A j \in EndsOf(p, s) : k <= j) \/ s[k].i \in J
    BY <2>1 DEF Good
  <2>. QED
    BY <1>4, <1>5, <2>1, <2>2
<1>. QED
  BY <1>6 DEF Good

LEMMA OrderedWithin ==
  ASSUME NEW t, NEW s, NEW r, NEW n, NEW l, Ordered(t, s, n), Within(r, s, l)
  PROVE  Ordered(t, r, n)
<1>1. /\ Len(s) \in Nat /\ Len(r) \in Nat /\ l \in Nat /\ l + Len(r) <= Len(s)
      /\ \A j \in 1..Len(r) : r[j] = s[l + j]
  BY DEF Within
<1>2. \A j \in 1..Len(r) : l + j \in 1..Len(s)
  BY <1>1
<1>3. ASSUME NEW k \in 1..Len(r), r[k].c = End
      PROVE  r[k].i \in 1..n /\ \A x \in 1..Len(t) : t[x].i < r[k].i
  <2>1. r[k] = s[l + k] /\ l + k \in 1..Len(s)
    BY <1>1, <1>2
  <2>. QED
    BY <1>3, <2>1 DEF Ordered
<1>4. ASSUME NEW j \in 1..Len(r), NEW k \in 1..Len(r), j < k, r[j].c = End, r[k].c = End
      PROVE  r[j].i < r[k].i
  <2>1. r[k] = s[l + k] /\ l + k \in 1..Len(s) /\ r[j] = s[l + j] /\ l + j \in 1..Len(s)
    BY <1>1, <1>2
  <2>2. l + j < l + k
    BY <1>1, <1>4
  <2>. QED
    BY <1>4, <2>1, <2>2 DEF Ordered
<1>. QED
  BY <1>3, <1>4 DEF Ordered

LEMMA OrderedCut ==
  ASSUME NEW t, NEW s \in Stream, NEW n, Ordered(t, s, n)
  PROVE  Ordered(t, Append(s, ZeroByte), n)
<1>1. PICK u : u = Append(s, ZeroByte)
  OBVIOUS
<1>2. /\ Len(s) \in Nat /\ Len(u) = Len(s) + 1 /\ u[Len(s) + 1] = ZeroByte
      /\ \A k \in 1..Len(s) : u[k] = s[k]
  <2>1. s \in Seq(Byte) /\ ZeroByte \in Byte
    BY ZeroByteIs DEF Stream
  <2>. QED
    BY <1>1, <2>1, AppendedIs
<1>3. ASSUME NEW k \in 1..Len(u), u[k].c = End
      PROVE  k \in 1..Len(s) /\ u[k] = s[k]
  <2>1. k # Len(s) + 1
    BY <1>2, <1>3, ZeroByteIs
  <2>2. k \in 1..Len(s)
    BY <1>2, <2>1
  <2>. QED
    BY <1>2, <2>2
<1>4. \A k \in 1..Len(u) :
        u[k].c = End => u[k].i \in 1..n /\ \A x \in 1..Len(t) : t[x].i < u[k].i
  BY <1>3 DEF Ordered
<1>5. \A j, k \in 1..Len(u) : j < k /\ u[j].c = End /\ u[k].c = End => u[j].i < u[k].i
  BY <1>3 DEF Ordered
<1>6. Ordered(t, u, n)
  BY <1>4, <1>5 DEF Ordered
<1>. QED
  BY <1>1, <1>6

LEMMA OrderedWritten ==
  ASSUME NEW t, NEW s \in Stream, NEW n \in Nat, Ordered(t, s, n),
         \A x \in 1..Len(t) : t[x].i \in 1..n, NEW m \in Messages
  PROVE  Ordered(t, s \o Bytes(m, n + 1), n + 1)
<1>1. PICK b : b = Bytes(m, n + 1)
  OBVIOUS
<1>2. PICK u : u = s \o b
  OBVIOUS
<1>3. PICK i : i = n + 1
  OBVIOUS
<1>4. /\ b \in Stream /\ Len(b) \in Nat
      /\ \A k \in 1..Len(b) : b[k].i = i
      /\ \A k \in 1..Len(b) : b[k].c = End <=> k = Len(b)
  <2>1. i \in Nat /\ b = Bytes(m, i)
    BY <1>1, <1>3
  <2>2. PICK l : l = Len(b)
    OBVIOUS
  <2>3. /\ b \in Stream /\ l \in Nat /\ l >= 1
        /\ \A k \in 1..l : b[k].i = i /\ b[k].c # Nul
        /\ \A k \in 1..l : b[k].c = End <=> k = l
        /\ Parsed(FreshParser, b)[l - 1] = [esc |-> FALSE, fields |-> Tagged(m, i)]
    BY <2>1, <2>2, BytesAre
  <2>. QED
    BY <2>2, <2>3
<1>5. /\ Len(u) = Len(s) + Len(b) /\ Len(s) \in Nat
      /\ \A k \in 1..Len(s) : u[k] = s[k]
      /\ \A k \in 1..Len(b) : u[Len(s) + k] = b[k]
  <2>1. s \in Seq(Byte) /\ b \in Seq(Byte)
    BY <1>4 DEF Stream
  <2>. QED
    BY <1>2, <2>1, JoinedIs
<1>6. ASSUME NEW k \in 1..Len(u), u[k].c = End
      PROVE  \/ k \in 1..Len(s) /\ u[k] = s[k]
             \/ k = Len(u) /\ u[k].i = i
  <2>1. CASE k \in 1..Len(s)
    BY <1>5, <2>1
  <2>2. CASE k \notin 1..Len(s)
    <3>1. PICK j : j = k - Len(s)
      OBVIOUS
    <3>2. j \in 1..Len(b) /\ k = Len(s) + j
      BY <1>4, <1>5, <2>2, <3>1
    <3>3. u[k] = b[j]
      BY <1>5, <3>2
    <3>4. j = Len(b) /\ b[j].i = i
      BY <1>4, <1>6, <3>2, <3>3
    <3>. QED
      BY <1>5, <3>2, <3>3, <3>4
  <2>. QED
    BY <2>1, <2>2
<1>7. \A x \in 1..Len(t) : t[x].i < i
  BY <1>3
<1>8. ASSUME NEW k \in 1..Len(u), u[k].c = End
      PROVE  u[k].i \in 1..i /\ \A x \in 1..Len(t) : t[x].i < u[k].i
  <2>1. CASE k \in 1..Len(s) /\ u[k] = s[k]
    <3>1. s[k].i \in 1..n /\ \A x \in 1..Len(t) : t[x].i < s[k].i
      BY <1>8, <2>1 DEF Ordered
    <3>2. s[k].i \in 1..i
      BY <1>3, <3>1
    <3>. QED
      BY <2>1, <3>1, <3>2
  <2>2. CASE k = Len(u) /\ u[k].i = i
    <3>1. i \in 1..i
      BY <1>3
    <3>. QED
      BY <1>7, <2>2, <3>1
  <2>. QED
    BY <1>6, <1>8, <2>1, <2>2
<1>9. ASSUME NEW j \in 1..Len(u), NEW k \in 1..Len(u), j < k, u[j].c = End, u[k].c = End
      PROVE  u[j].i < u[k].i
  <2>1. j # Len(u)
    BY <1>4, <1>5, <1>9
  <2>2. j \in 1..Len(s) /\ u[j] = s[j]
    BY <1>6, <1>9, <2>1
  <2>3. s[j].i \in 1..n
    BY <1>9, <2>2 DEF Ordered
  <2>4. CASE k \in 1..Len(s) /\ u[k] = s[k]
    BY <1>9, <2>2, <2>4 DEF Ordered
  <2>5. CASE k = Len(u) /\ u[k].i = i
    BY <1>3, <2>2, <2>3, <2>5
  <2>. QED
    BY <1>6, <1>9, <2>4, <2>5
<1>10. Ordered(t, u, i)
  BY <1>8, <1>9 DEF Ordered
<1>. QED
  BY <1>1, <1>2, <1>3, <1>10
-----------------------------------------------------------------------------
(***************************************************************************)
(* The server reads.                                                       *)
(***************************************************************************)
(* What the server was told, of n messages; left: the first may be damaged; *)
(* so may those in J.                                                      *)
ToldRight(t, left, J, n) ==
  /\ t \in Seq(Told)
  /\ \A k \in 1..Len(t) : t[k].i \in 1..n
  /\ \A j, k \in 1..Len(t) : j < k => t[j].i < t[k].i
  /\ \A k \in 1..Len(t) : t[k].whole \/ (k = 1 /\ left) \/ t[k].i \in J

LEMMA PushedTypes ==
  ASSUME server \in Parsers, NEW below \in Seq(Stream), NEW bytes \in Stream,
         told \in Seq(Told), PushData(below, bytes)
  PROVE  /\ server' \in Parsers /\ chunks' \in Seq(Stream)
         /\ told' \in Seq(Told)
<1>1. PICK after : after = Parsed(server, bytes)
  OBVIOUS
<1>2. Len(bytes) \in Nat /\ \A k \in 1..Len(bytes) : bytes[k] \in Byte
  BY DEF Stream
<1>3. \A k \in 0..Len(bytes) : after[k] \in Parsers
  BY <1>1, ParsedType
<1>4. CASE server' = after[Len(bytes)] /\ chunks' = below /\ UNCHANGED told
  <2>1. Len(bytes) \in 0..Len(bytes)
    BY <1>2
  <2>. QED
    BY <1>3, <1>4, <2>1
<1>5. ASSUME NEW k \in 1..Len(bytes), server' = after[k],
             chunks' = Append(below, SubSeq(bytes, k + 1, Len(bytes))),
             told' = Append(told, [i |-> bytes[k].i,
                 whole |-> Origin(after[k - 1].fields, bytes[k], sent) # Damaged])
      PROVE  /\ server' \in Parsers /\ chunks' \in Seq(Stream)
             /\ told' \in Seq(Told)
  <2>1. k \in 0..Len(bytes)
    BY <1>2
  <2>2. SubSeq(bytes, k + 1, Len(bytes)) \in Stream
    BY <2>1, TailIs
  <2>3. PICK r : r = [i |-> bytes[k].i,
                     whole |-> Origin(after[k - 1].fields, bytes[k], sent) # Damaged]
    OBVIOUS
  <2>4. r \in Told
    <3>1. bytes[k].i \in Nat
      BY <1>2 DEF Byte
    <3>. QED
      BY <2>3, <3>1 DEF Told
  <2>5. Append(told, r) \in Seq(Told)
    BY <2>4, AppendedIs
  <2>6. chunks' \in Seq(Stream)
    BY <1>5, <2>2, AppendedIs
  <2>. QED
    BY <1>3, <1>5, <2>1, <2>3, <2>5, <2>6
<1>6. MessageEnds(after, bytes) \subseteq 1..Len(bytes)
  BY DEF MessageEnds
<1>. QED
  BY <1>1, <1>4, <1>5, <1>6 DEF PushData

LEMMA Pushed ==
  ASSUME server \in Parsers, NEW below, NEW bytes \in Stream, NEW r \in Stream, NEW left, NEW J,
         Len(sent) \in Nat, ToldRight(told, left, J, Len(sent)),
         Good(left /\ told = <<>>, J, server, bytes \o r, sent),
         Ordered(told, bytes \o r, Len(sent)),
         PushData(below, bytes)
  PROVE  \E x \in Stream :
           /\ (chunks' = below /\ x = <<>>) \/ chunks' = Append(below, x)
           /\ ToldRight(told', left, J, Len(sent))
           /\ Good(left /\ told' = <<>>, J, server', x \o r, sent)
           /\ Ordered(told', x \o r, Len(sent))
<1>1. PICK after : after = Parsed(server, bytes)
  OBVIOUS
<1>2. PICK s : s = bytes \o r
  OBVIOUS
<1>3. PICK n : n = Len(bytes)
  OBVIOUS
<1>4. s \in Stream /\ Within(bytes, s, 0) /\ Tail0(r, s, n)
  BY <1>2, <1>3, PartsAre
<1>5. n \in Nat /\ Len(s) \in Nat /\ n <= Len(s) /\ \A k \in 1..n : bytes[k] = s[k]
  BY <1>3, <1>4 DEF Within, Tail0
<1>6. \A k \in 0..n : after[k] = Parsed(server, s)[k]
  BY <1>1, <1>3, <1>4, ParsedFirst
<1>7. \A k \in 1..n : k \in MessageEnds(after, bytes) <=> k \in EndsOf(server, s)
  <2>. SUFFICES ASSUME NEW k \in 1..n
                PROVE  k \in MessageEnds(after, bytes) <=> k \in EndsOf(server, s)
    OBVIOUS
  <2>1. k - 1 \in 0..n /\ k \in 1..Len(s)
    BY <1>5
  <2>2. after[k - 1] = Parsed(server, s)[k - 1] /\ bytes[k] = s[k]
    BY <1>5, <1>6, <2>1
  <2>. QED
    BY <1>3, <2>1, <2>2 DEF MessageEnds, EndsOf
<1>8. PICK first : first = (left /\ told = <<>>)
  OBVIOUS
<1>9. Good(first, J, server, s, sent) /\ Ordered(told, s, Len(sent))
  BY <1>2, <1>8
<1>10. EndsOf(server, s) \subseteq 1..Len(s) /\ MessageEnds(after, bytes) \subseteq 1..n
  BY <1>3 DEF EndsOf, MessageEnds
<1>11. ASSUME MessageEnds(after, bytes) = {}, server' = after[n], chunks' = below, told' = told
       PROVE  /\ chunks' = below
              /\ ToldRight(told', left, J, Len(sent))
              /\ Good(left /\ told' = <<>>, J, server', <<>> \o r, sent)
              /\ Ordered(told', <<>> \o r, Len(sent))
  <2>1. <<>> \o r = r
    BY ConcatEmptySeq DEF Stream
  <2>2. \A k \in EndsOf(server, s) : k > n
    <3>. SUFFICES ASSUME NEW k \in EndsOf(server, s), ~ (k > n) PROVE FALSE
      OBVIOUS
    <3>1. k \in 1..n
      BY <1>5, <1>10
    <3>. QED
      BY <1>7, <1>11, <3>1
  <2>3. Good(first, J, Parsed(server, s)[n], r, sent)
    BY <1>4, <1>9, <2>2, GoodTail
  <2>4. server' = Parsed(server, s)[n]
    <3>1. n \in 0..n
      BY <1>5
    <3>. QED
      BY <1>6, <1>11, <3>1
  <2>5. Ordered(told, r, Len(sent))
    BY <1>4, <1>9, OrderedWithin DEF Tail0
  <2>6. (left /\ told' = <<>>) = first
    BY <1>8, <1>11
  <2>. QED
    BY <1>11, <2>1, <2>3, <2>4, <2>5, <2>6
<1>12. ASSUME NEW k \in MessageEnds(after, bytes), \A j \in MessageEnds(after, bytes) : k <= j,
              server' = after[k], NEW x, x = SubSeq(bytes, k + 1, Len(bytes)),
              told' = Append(told, [i |-> bytes[k].i,
                 whole |-> Origin(after[k - 1].fields, bytes[k], sent) # Damaged])
       PROVE  /\ x \in Stream
              /\ ToldRight(told', left, J, Len(sent))
              /\ Good(left /\ told' = <<>>, J, server', x \o r, sent)
              /\ Ordered(told', x \o r, Len(sent))
  <2>1. k \in 1..n /\ k \in 0..Len(bytes) /\ k \in 0..n /\ k - 1 \in 0..n
    BY <1>3, <1>5, <1>10
  <2>2. k \in EndsOf(server, s) /\ \A j \in EndsOf(server, s) : k <= j
    <3>1. ASSUME NEW j \in EndsOf(server, s) PROVE k <= j
      <4>1. CASE j \in 1..n
        BY <1>7, <1>12, <4>1
      <4>2. CASE j \notin 1..n
        BY <1>5, <1>10, <2>1, <4>2
      <4>. QED
        BY <4>1, <4>2
    <3>. QED
      BY <1>7, <1>12, <2>1, <3>1
  <2>3. x \in Stream /\ Tail0(x \o r, s, k)
    BY <1>2, <1>12, <2>1, RestIs
  <2>4. Good(FALSE, J, Parsed(server, s)[k], x \o r, sent)
    <3>1. \E j \in EndsOf(server, s) : j <= k
      BY <2>1, <2>2
    <3>2. PICK z : z = x \o r
      OBVIOUS
    <3>3. Tail0(z, s, k)
      BY <2>3, <3>2
    <3>4. Good(FALSE, J, Parsed(server, s)[k], z, sent)
      BY <1>9, <3>1, <3>3, GoodTail
    <3>. QED
      BY <3>2, <3>4
  <2>5. server' = Parsed(server, s)[k]
    BY <1>6, <1>12, <2>1
  <2>6. PICK o : o = Emitted(server, s, k, sent)
    OBVIOUS
  <2>7. PICK y : y = [i |-> s[k].i, whole |-> o # Damaged]
    OBVIOUS
  <2>8. told' = Append(told, y)
    <3>1. after[k - 1] = Parsed(server, s)[k - 1] /\ bytes[k] = s[k]
      BY <1>5, <1>6, <2>1
    <3>. QED
      BY <1>12, <2>6, <2>7, <3>1 DEF Emitted
  <2>9. /\ s[k].c = End /\ k \in 1..Len(s)
        /\ s[k].i \in 1..Len(sent) /\ \A z \in 1..Len(told) : told[z].i < s[k].i
    BY <1>9, <2>2 DEF Ordered, EndsOf, MessageEnds
  <2>10. /\ told \in Seq(Told) /\ y \in Told /\ y.i = s[k].i
         /\ y.whole \/ (left /\ told = <<>>) \/ y.i \in J
    <3>1. y.i = s[k].i /\ y.whole = (o # Damaged)
      BY <2>7
    <3>2. o = Damaged => first \/ s[k].i \in J
      BY <1>9, <2>2, <2>6 DEF Good
    <3>3. y \in Told
      BY <2>7, <2>9 DEF Told
    <3>. QED
      BY <1>8, <3>1, <3>2, <3>3 DEF ToldRight
  <2>11. PICK t : t = Append(told, y)
    OBVIOUS
  <2>12. PICK l : l = Len(told)
    OBVIOUS
  <2>13. /\ t \in Seq(Told) /\ l \in Nat /\ Len(t) = l + 1 /\ t[l + 1] = y /\ t # <<>>
         /\ \A z \in 1..l : t[z] = told[z]
    BY <2>10, <2>11, <2>12, AppendedIs
  <2>14. ASSUME NEW i \in 1..Len(t), NEW j \in 1..Len(t), i < j PROVE t[i].i < t[j].i
    <3>1. i \in 1..l /\ t[i] = told[i]
      BY <2>13, <2>14
    <3>2. CASE j \in 1..l
      BY <2>12, <2>13, <2>14, <3>1, <3>2 DEF ToldRight
    <3>3. CASE j \notin 1..l
      <4>1. j = l + 1 /\ t[j] = y
        BY <2>13, <3>3
      <4>. QED
        BY <2>9, <2>10, <2>12, <3>1, <4>1
    <3>. QED
      BY <3>2, <3>3
  <2>15. ASSUME NEW i \in 1..Len(t)
         PROVE  /\ t[i].i \in 1..Len(sent)
                /\ t[i].whole \/ (i = 1 /\ left) \/ t[i].i \in J
    <3>1. CASE i \in 1..l
      BY <2>12, <2>13, <3>1 DEF ToldRight
    <3>2. CASE i \notin 1..l
      <4>1. i = l + 1 /\ t[i] = y
        BY <2>13, <3>2
      <4>2. told = <<>> => i = 1
        BY <2>12, <4>1
      <4>. QED
        BY <2>9, <2>10, <4>1, <4>2
    <3>. QED
      BY <3>1, <3>2
  <2>16. ToldRight(t, left, J, Len(sent))
    BY <2>13, <2>14, <2>15 DEF ToldRight
  <2>17. PICK z : z = x \o r
    OBVIOUS
  <2>18. Within(z, s, k)
    BY <2>3, <2>17 DEF Tail0
  <2>19. Ordered(told, z, Len(sent))
    BY <1>9, <2>18, OrderedWithin
  <2>20. Ordered(t, z, Len(sent))
    <3>1. ASSUME NEW j \in 1..Len(z), z[j].c = End PROVE y.i < z[j].i
      <4>1. k \in Nat /\ z[j] = s[k + j] /\ k + j \in 1..Len(s) /\ k < k + j
        BY <1>5, <2>1, <2>18 DEF Within
      <4>2. PICK g : g = k + j
        OBVIOUS
      <4>3. g \in 1..Len(s) /\ k < g /\ s[g].c = End /\ z[j] = s[g]
        BY <3>1, <4>1, <4>2
      <4>4. s[k].i < s[g].i
        BY <1>9, <2>9, <4>3 DEF Ordered
      <4>. QED
        BY <2>10, <4>3, <4>4
    <3>2. ASSUME NEW j \in 1..Len(z), z[j].c = End, NEW g \in 1..Len(t) PROVE t[g].i < z[j].i
      <4>1. CASE g \in 1..l
        BY <2>12, <2>13, <2>19, <3>2, <4>1 DEF Ordered
      <4>2. CASE g \notin 1..l
        <5>1. g = l + 1
          BY <2>13, <4>2
        <5>. QED
          BY <2>13, <3>1, <3>2, <5>1
      <4>. QED
        BY <4>1, <4>2
    <3>. QED
      BY <2>19, <3>2 DEF Ordered
  <2>21. (left /\ told' = <<>>) = FALSE
    BY <2>8, <2>11, <2>13
  <2>. QED
    BY <2>3, <2>4, <2>5, <2>8, <2>11, <2>16, <2>17, <2>20, <2>21
<1>13. \/ /\ MessageEnds(after, bytes) = {} /\ server' = after[n] /\ chunks' = below
          /\ told' = told
       \/ \E k \in MessageEnds(after, bytes) :
            /\ \A j \in MessageEnds(after, bytes) : k <= j
            /\ server' = after[k]
            /\ chunks' = Append(below, SubSeq(bytes, k + 1, Len(bytes)))
            /\ told' = Append(told, [i |-> bytes[k].i,
                 whole |-> Origin(after[k - 1].fields, bytes[k], sent) # Damaged])
  BY <1>1, <1>3 DEF PushData
<1>14. CASE MessageEnds(after, bytes) = {} /\ server' = after[n] /\ chunks' = below /\ told' = told
  <2>1. <<>> \in Stream
    BY DEF Stream
  <2>. QED
    BY <1>11, <1>14, <2>1
<1>15. ASSUME NEW k \in MessageEnds(after, bytes), \A j \in MessageEnds(after, bytes) : k <= j,
              server' = after[k],
              chunks' = Append(below, SubSeq(bytes, k + 1, Len(bytes))),
              told' = Append(told, [i |-> bytes[k].i,
                 whole |-> Origin(after[k - 1].fields, bytes[k], sent) # Damaged])
       PROVE  \E x \in Stream :
                /\ (chunks' = below /\ x = <<>>) \/ chunks' = Append(below, x)
                /\ ToldRight(told', left, J, Len(sent))
                /\ Good(left /\ told' = <<>>, J, server', x \o r, sent)
                /\ Ordered(told', x \o r, Len(sent))
  <2>1. PICK x : x = SubSeq(bytes, k + 1, Len(bytes))
    OBVIOUS
  <2>2. /\ x \in Stream
        /\ ToldRight(told', left, J, Len(sent))
        /\ Good(left /\ told' = <<>>, J, server', x \o r, sent)
        /\ Ordered(told', x \o r, Len(sent))
    BY <1>12, <1>15, <2>1
  <2>3. chunks' = Append(below, x)
    BY <1>15, <2>1
  <2>. QED
    BY <2>2, <2>3
<1>. QED
  BY <1>13, <1>14, <1>15
-----------------------------------------------------------------------------
(***************************************************************************)
(* The device reads.                                                       *)
(***************************************************************************)
(* The equation of Put has a solution. *)
SolvesPut(f, p, s) ==
  f = [k \in 0..Len(s) |-> IF k = 0 THEN p ELSE PutByte(f[k - 1], s[k])]

LEMMA PutDefined ==
  ASSUME NEW p, NEW s, Len(s) \in Nat
  PROVE  \E f : SolvesPut(f, p, s)
<1> DEFINE Value(g, k) == IF k = 0 THEN p ELSE PutByte(g[k - 1], s[k])
           Right(n) == \E g : \A k \in 0..n : g[k] = Value(g, k)
           T == {n \in Nat : Right(n)}
<1>1. 0 \in T
  <2>1. PICK g : g = [k \in {0} |-> p]
    OBVIOUS
  <2>2. \A k \in 0..0 : g[k] = Value(g, k)
    BY <2>1
  <2>. QED
    BY <2>2
<1>2. ASSUME NEW n \in 0..Len(s), n \in T, n + 1 <= Len(s) PROVE n + 1 \in T
  <2>1. PICK g : \A k \in 0..n : g[k] = Value(g, k)
    BY <1>2
  <2>2. PICK h : h = [k \in 0..(n + 1) |-> Value(g, k)]
    OBVIOUS
  <2>3. \A k \in 0..n : h[k] = g[k]
    <3>1. 0..n \subseteq 0..(n + 1)
      OBVIOUS
    <3> HIDE DEF Value
    <3>. QED
      BY <2>1, <2>2, <3>1
  <2>4. ASSUME NEW k \in 0..(n + 1) PROVE h[k] = Value(h, k)
    <3>1. h[k] = Value(g, k)
      <4> HIDE DEF Value
      <4>. QED
        BY <2>2
    <3>2. CASE k = 0
      BY <3>1, <3>2
    <3>3. CASE k # 0
      <4>1. k - 1 \in 0..n
        BY <3>3
      <4>2. h[k - 1] = g[k - 1]
        BY <2>3, <4>1
      <4>. QED
        BY <3>1, <3>3, <4>2
    <3>. QED
      BY <3>2, <3>3
  <2>5. Right(n + 1)
    <3> HIDE DEF Value
    <3>. QED
      BY <2>4
  <2>. QED
    BY <2>5
<1>3. Len(s) \in T
  <2>1. \A n \in 0..Len(s) : n \in T
    <3> HIDE DEF T
    <3>. QED
      BY <1>1, <1>2, UpTo
  <2>2. Len(s) \in 0..Len(s)
    OBVIOUS
  <2> HIDE DEF T
  <2>. QED
    BY <2>1, <2>2
<1>4. PICK g : \A k \in 0..Len(s) : g[k] = Value(g, k)
  BY <1>3
<1>5. PICK f : f = [k \in 0..Len(s) |-> g[k]]
  OBVIOUS
<1>6. ASSUME NEW k \in 0..Len(s) PROVE f[k] = Value(f, k)
  <2>1. f[k] = Value(g, k)
    <3> HIDE DEF Value
    <3>. QED
      BY <1>4, <1>5
  <2>2. CASE k = 0
    BY <2>1, <2>2
  <2>3. CASE k # 0
    <3>1. k - 1 \in 0..Len(s)
      BY <2>3
    <3>2. f[k - 1] = g[k - 1]
      BY <1>5, <3>1
    <3>. QED
      BY <2>1, <2>3, <3>2
  <2>. QED
    BY <2>2, <2>3
<1>7. f = [k \in 0..Len(s) |-> Value(f, k)]
  <2> HIDE DEF Value
  <2>. QED
    BY <1>5, <1>6
<1>. QED
  BY <1>7 DEF SolvesPut

LEMMA PutIs ==
  ASSUME NEW p, NEW s, Len(s) \in Nat
  PROVE  /\ Put(p, s)[0] = p
         /\ \A k \in 1..Len(s) : Put(p, s)[k] = PutByte(Put(p, s)[k - 1], s[k])
<1>1. PICK f : f = Put(p, s)
  OBVIOUS
<1>2. f = CHOOSE g : SolvesPut(g, p, s)
  BY <1>1 DEF Put, SolvesPut
<1>3. SolvesPut(f, p, s)
  BY <1>2, PutDefined
<1>4. f[0] = p
  BY <1>3 DEF SolvesPut
<1>5. ASSUME NEW k \in 1..Len(s) PROVE f[k] = PutByte(f[k - 1], s[k])
  <2>1. k \in 0..Len(s) /\ k # 0
    OBVIOUS
  <2>. QED
    BY <1>3, <2>1 DEF SolvesPut
<1>. QED
  BY <1>1, <1>4, <1>5

Buffers == [esc : BOOLEAN, buf : Stream, args : Seq(Nat \ {0})]

LEMMA PutByteType ==
  ASSUME NEW p \in Buffers, NEW b \in Byte
  PROVE  PutByte(p, b) \in Buffers
<1>1. /\ p.esc \in BOOLEAN /\ p.buf \in Stream /\ p.args \in Seq(Nat \ {0})
      /\ p = [esc |-> p.esc, buf |-> p.buf, args |-> p.args]
  BY DEF Buffers
<1>2. ASSUME NEW q \in Buffers PROVE ResetBuffer(q) \in Buffers
  <2>1. <<>> \in Stream /\ <<>> \in Seq(Nat \ {0})
    BY DEF Stream
  <2>. QED
    BY <2>1 DEF ResetBuffer, Buffers
<1>3. ASSUME NEW e \in Byte PROVE Append(p.buf, e) \in Stream
  BY <1>1, AppendedIs DEF Stream
<1>4. \A ch \in Char : [b EXCEPT !.c = ch] \in Byte
  BY DEF Byte
<1>5. End \in Char /\ Nul \in Char
  BY DEF Char
<1>6. PutInBuffer(p, b) \in Buffers
  <2>1. CASE p.esc
    <3>1. PICK e : e = CASE b.c = "n" -> [b EXCEPT !.c = End]
                         [] b.c = "0" -> [b EXCEPT !.c = Nul]
                         [] OTHER     -> b
      OBVIOUS
    <3>2. e \in Byte
      <4>1. CASE b.c = "n"
        BY <1>4, <1>5, <3>1, <4>1
      <4>2. CASE b.c # "n" /\ b.c = "0"
        BY <1>4, <1>5, <3>1, <4>2
      <4>3. CASE b.c # "n" /\ b.c # "0"
        BY <3>1, <4>3
      <4>. QED
        BY <4>1, <4>2, <4>3
    <3>3. PutInBuffer(p, b) = [p EXCEPT !.esc = FALSE, !.buf = Append(@, e)]
      BY <2>1, <3>1 DEF PutInBuffer
    <3>4. PutInBuffer(p, b) = [esc |-> FALSE, buf |-> Append(p.buf, e), args |-> p.args]
      BY <1>1, <3>3
    <3>. QED
      BY <1>1, <1>3, <3>2, <3>4 DEF Buffers
  <2>2. CASE ~p.esc
    <3>1. CASE b.c = Esc
      <4>1. PutInBuffer(p, b) = [p EXCEPT !.esc = TRUE]
        BY <2>2, <3>1 DEF PutInBuffer, Esc, Sep, End
      <4>. QED
        BY <4>1 DEF Buffers
    <3>2. CASE b.c = Sep
      <4>1. PICK a : a = Len(p.buf) + 2
        OBVIOUS
      <4>2. a \in Nat \ {0}
        BY <1>1, <4>1 DEF Stream
      <4>3. Append(p.args, a) \in Seq(Nat \ {0})
        BY <1>1, <4>2, AppendedIs
      <4>4. PutInBuffer(p, b) = [p EXCEPT !.buf = Append(@, [b EXCEPT !.c = Nul]),
                                          !.args = Append(@, a)]
        BY <2>2, <3>2, <4>1 DEF PutInBuffer, Esc, Sep, End
      <4>5. PutInBuffer(p, b) = [esc |-> p.esc, buf |-> Append(p.buf, [b EXCEPT !.c = Nul]),
                                 args |-> Append(p.args, a)]
        BY <1>1, <4>4
      <4>6. Append(p.buf, [b EXCEPT !.c = Nul]) \in Stream
        BY <1>3, <1>4, <1>5
      <4>. QED
        BY <1>1, <4>3, <4>5, <4>6 DEF Buffers
    <3>3. CASE b.c = End
      <4>1. PutInBuffer(p, b) = ResetBuffer(p)
        BY <2>2, <3>3 DEF PutInBuffer, Esc, Sep, End
      <4>. QED
        BY <1>2, <4>1
    <3>4. CASE b.c \notin {Esc, Sep, End}
      <4>1. PutInBuffer(p, b) = [p EXCEPT !.buf = Append(@, b)]
        BY <2>2, <3>4 DEF PutInBuffer
      <4>2. PutInBuffer(p, b) = [esc |-> p.esc, buf |-> Append(p.buf, b), args |-> p.args]
        BY <1>1, <4>1
      <4>. QED
        BY <1>1, <1>3, <4>2 DEF Buffers
    <3>. QED
      BY <3>1, <3>2, <3>3, <3>4
  <2>. QED
    BY <2>1, <2>2
<1>7. PICK q : q = IF b.c = Nul THEN ResetBuffer(p) ELSE PutInBuffer(p, b)
  OBVIOUS
<1>8. q \in Buffers
  BY <1>2, <1>6, <1>7
<1>9. PutByte(p, b) = IF Len(q.buf) = bufSize THEN ResetBuffer(q) ELSE q
  BY <1>7 DEF PutByte
<1>. QED
  BY <1>2, <1>8, <1>9

LEMMA PutType ==
  ASSUME NEW p \in Buffers, NEW s \in Stream
  PROVE  \A k \in 0..Len(s) : Put(p, s)[k] \in Buffers
<1>1. Len(s) \in Nat /\ \A k \in 1..Len(s) : s[k] \in Byte
  BY DEF Stream
<1> DEFINE T == {k \in 0..Len(s) : Put(p, s)[k] \in Buffers}
<1>2. 0 \in T
  BY <1>1, PutIs
<1>3. ASSUME NEW k \in 0..Len(s), k \in T, k + 1 <= Len(s) PROVE k + 1 \in T
  <2>1. k + 1 \in 1..Len(s) /\ (k + 1) - 1 = k /\ k + 1 \in 0..Len(s)
    BY <1>1, <1>3
  <2>2. Put(p, s)[k + 1] = PutByte(Put(p, s)[k], s[k + 1])
    BY <1>1, <2>1, PutIs
  <2>3. Put(p, s)[k] \in Buffers /\ s[k + 1] \in Byte
    BY <1>1, <1>3, <2>1
  <2>. QED
    BY <2>1, <2>2, <2>3, PutByteType
<1>. QED
  <2>1. \A k \in 0..Len(s) : k \in T
    <3> HIDE DEF T
    <3>. QED
      BY <1>1, <1>2, <1>3, UpTo
  <2>. QED
    BY <2>1

-----------------------------------------------------------------------------
(***************************************************************************)
(* What the device's parser makes of a byte.                               *)
(***************************************************************************)
Clean(e) == [esc |-> e, buf |-> <<>>, args |-> <<>>]

(* A byte after the escape character. *)
Unescaped(b) ==
  CASE b.c = "n" -> [b EXCEPT !.c = End]
    [] b.c = "0" -> [b EXCEPT !.c = Nul]
    [] OTHER     -> b

LEMMA UnescapedIs ==
  ASSUME NEW b \in Byte
  PROVE  /\ Unescaped(b) \in Byte /\ Unescaped(b).i = b.i
         /\ b.c \notin {"n", "0"} => Unescaped(b) = b
         /\ b.c \in {"n", "0"} => Unescaped(b).c \in {End, Nul}
<1>1. \A ch \in Char : [b EXCEPT !.c = ch] \in Byte /\ [b EXCEPT !.c = ch].i = b.i
                       /\ [b EXCEPT !.c = ch].c = ch
  BY DEF Byte
<1>2. End \in Char /\ Nul \in Char
  BY DEF Char
<1>3. CASE b.c = "n"
  BY <1>1, <1>2, <1>3 DEF Unescaped
<1>4. CASE b.c # "n" /\ b.c = "0"
  BY <1>1, <1>2, <1>4 DEF Unescaped
<1>5. CASE b.c # "n" /\ b.c # "0"
  BY <1>5 DEF Unescaped
<1>. QED
  BY <1>3, <1>4, <1>5

LEMMA BufferOf ==
  ASSUME NEW e \in BOOLEAN, NEW s \in Stream, NEW a \in Seq(Nat \ {0})
  PROVE  /\ [esc |-> e, buf |-> s, args |-> a] \in Buffers
         /\ <<>> \in Stream /\ <<>> \in Seq(Nat \ {0})
<1>1. [esc |-> e, buf |-> s, args |-> a] \in Buffers
  BY DEF Buffers
<1>. QED
  BY <1>1 DEF Stream

LEMMA CleanIs ==
  ASSUME NEW e \in BOOLEAN
  PROVE  /\ Clean(e) \in Buffers /\ Clean(e).esc = e
         /\ Clean(e).buf = <<>> /\ Clean(e).args = <<>>
<1>1. <<>> \in Stream /\ <<>> \in Seq(Nat \ {0})
  BY DEF Stream
<1>2. [esc |-> e, buf |-> <<>>, args |-> <<>>] \in Buffers
  BY <1>1, BufferOf
<1>. QED
  BY <1>2 DEF Clean

LEMMA ResetBufferIs ==
  ASSUME NEW q \in Buffers
  PROVE  ResetBuffer(q) = Clean(q.esc)
<1>1. <<>> \in Stream /\ <<>> \in Seq(Nat \ {0})
  BY DEF Stream
<1>2. PICK r : r = ResetBuffer(q)
  OBVIOUS
<1>3. r \in Buffers
  BY <1>1, <1>2 DEF ResetBuffer, Buffers
<1>4. r.buf = <<>>
  BY <1>2 DEF ResetBuffer, Buffers
<1>5. r.args = <<>>
  BY <1>2 DEF ResetBuffer, Buffers
<1>6. r.esc = q.esc
  BY <1>2 DEF ResetBuffer, Buffers
<1>7. r = [esc |-> r.esc, buf |-> r.buf, args |-> r.args]
  BY <1>3 DEF Buffers
<1>. QED
  BY <1>2, <1>4, <1>5, <1>6, <1>7 DEF Clean

LEMMA PutInBufferIs ==
  ASSUME NEW q \in Buffers, NEW b \in Byte
  PROVE  /\ q.esc => PutInBuffer(q, b)
                       = [esc |-> FALSE, buf |-> Append(q.buf, Unescaped(b)), args |-> q.args]
         /\ ~q.esc /\ b.c = Esc => PutInBuffer(q, b)
                       = [esc |-> TRUE, buf |-> q.buf, args |-> q.args]
         /\ ~q.esc /\ b.c = Sep => PutInBuffer(q, b)
                       = [esc |-> FALSE, buf |-> Append(q.buf, [b EXCEPT !.c = Nul]),
                          args |-> Append(q.args, Len(q.buf) + 2)]
         /\ ~q.esc /\ b.c = End => PutInBuffer(q, b) = Clean(FALSE)
         /\ ~q.esc /\ b.c \notin {Esc, Sep, End} => PutInBuffer(q, b)
                       = [esc |-> FALSE, buf |-> Append(q.buf, b), args |-> q.args]
<1>1. /\ q = [esc |-> q.esc, buf |-> q.buf, args |-> q.args]
      /\ q.esc \in BOOLEAN
  BY DEF Buffers
<1>2. CASE q.esc
  <2>1. PICK e : e = Unescaped(b)
    OBVIOUS
  <2>2. PutInBuffer(q, b) = [q EXCEPT !.esc = FALSE, !.buf = Append(@, e)]
    BY <1>2, <2>1 DEF PutInBuffer, Unescaped
  <2>3. PutInBuffer(q, b) = [esc |-> FALSE, buf |-> Append(q.buf, e), args |-> q.args]
    BY <1>1, <2>2
  <2>. QED
    BY <1>2, <2>1, <2>3
<1>3. CASE ~q.esc
  <2>1. q.esc = FALSE
    BY <1>1, <1>3
  <2>2. CASE b.c = Esc
    <3>1. PutInBuffer(q, b) = [q EXCEPT !.esc = TRUE]
      BY <1>3, <2>2 DEF PutInBuffer, Esc, Sep, End
    <3>2. PutInBuffer(q, b) = [esc |-> TRUE, buf |-> q.buf, args |-> q.args]
      BY <1>1, <3>1
    <3>. QED
      BY <1>3, <2>2, <3>2 DEF Esc, Sep, End
  <2>3. CASE b.c = Sep
    <3>1. PICK x, a : x = [b EXCEPT !.c = Nul] /\ a = Len(q.buf) + 2
      OBVIOUS
    <3>2. PutInBuffer(q, b) = [q EXCEPT !.buf = Append(@, x), !.args = Append(@, a)]
      BY <1>3, <2>3, <3>1 DEF PutInBuffer, Esc, Sep, End
    <3>3. PutInBuffer(q, b) = [esc |-> FALSE, buf |-> Append(q.buf, x),
                               args |-> Append(q.args, a)]
      BY <1>1, <2>1, <3>2
    <3>. QED
      BY <1>3, <2>3, <3>1, <3>3 DEF Esc, Sep, End
  <2>4. CASE b.c = End
    <3>1. PutInBuffer(q, b) = ResetBuffer(q)
      BY <1>3, <2>4 DEF PutInBuffer, Esc, Sep, End
    <3>2. ResetBuffer(q) = Clean(FALSE)
      BY <2>1, ResetBufferIs
    <3>. QED
      BY <1>3, <2>4, <3>1, <3>2 DEF Esc, Sep, End
  <2>5. CASE b.c \notin {Esc, Sep, End}
    <3>1. PutInBuffer(q, b) = [q EXCEPT !.buf = Append(@, b)]
      BY <1>3, <2>5 DEF PutInBuffer
    <3>2. PutInBuffer(q, b) = [esc |-> FALSE, buf |-> Append(q.buf, b), args |-> q.args]
      BY <1>1, <2>1, <3>1
    <3>. QED
      BY <1>3, <2>5, <3>2
  <2>. QED
    BY <2>2, <2>3, <2>4, <2>5
<1>. QED
  BY <1>2, <1>3

(* A buffer that is full is dropped. *)
LEMMA PutByteIs ==
  ASSUME NEW q \in Buffers, NEW b \in Byte, b.c # Nul,
         NEW x, x = PutInBuffer(q, b)
  PROVE  /\ x \in Buffers
         /\ PutByte(q, b) = x \/ PutByte(q, b) = Clean(x.esc)
         /\ Len(x.buf) # bufSize => PutByte(q, b) = x
         /\ PutByte(q, b).buf # <<>> => PutByte(q, b) = x
         /\ PutByte(q, b).esc = x.esc
<1>1. PutByte(q, b) = IF Len(x.buf) = bufSize THEN ResetBuffer(x) ELSE x
  BY DEF PutByte
<1>2. x \in Buffers
  <2>1. /\ q.buf \in Seq(Byte) /\ q.args \in Seq(Nat \ {0}) /\ q.esc \in BOOLEAN
        /\ Len(q.buf) \in Nat
    BY DEF Buffers, Stream
  <2>2. Unescaped(b) \in Byte /\ [b EXCEPT !.c = Nul] \in Byte
    BY UnescapedIs DEF Byte, Char
  <2>3. PICK n : n = Len(q.buf) + 2
    OBVIOUS
  <2>4. n \in Nat \ {0}
    BY <2>1, <2>3
  <2>5. /\ Append(q.buf, Unescaped(b)) \in Seq(Byte) /\ Append(q.buf, b) \in Seq(Byte)
        /\ Append(q.buf, [b EXCEPT !.c = Nul]) \in Seq(Byte)
        /\ Append(q.args, n) \in Seq(Nat \ {0})
    BY <2>1, <2>2, <2>4, AppendedIs
  <2>6. CASE q.esc
    <3>1. x = [esc |-> FALSE, buf |-> Append(q.buf, Unescaped(b)), args |-> q.args]
      BY <2>6, PutInBufferIs
    <3>. QED
      BY <2>1, <2>5, <3>1, BufferOf DEF Stream
  <2>7. CASE ~q.esc /\ b.c = Esc
    <3>1. x = [esc |-> TRUE, buf |-> q.buf, args |-> q.args]
      BY <2>7, PutInBufferIs
    <3>. QED
      BY <2>1, <3>1, BufferOf DEF Stream
  <2>8. CASE ~q.esc /\ b.c = Sep
    <3>1. x = [esc |-> FALSE, buf |-> Append(q.buf, [b EXCEPT !.c = Nul]),
               args |-> Append(q.args, n)]
      BY <2>3, <2>8, PutInBufferIs
    <3>. QED
      BY <2>5, <3>1, BufferOf DEF Stream
  <2>9. CASE ~q.esc /\ b.c = End
    <3>1. x = Clean(FALSE)
      BY <2>9, PutInBufferIs
    <3>. QED
      BY <3>1, CleanIs
  <2>10. CASE ~q.esc /\ b.c \notin {Esc, Sep, End}
    <3>1. x = [esc |-> FALSE, buf |-> Append(q.buf, b), args |-> q.args]
      BY <2>10, PutInBufferIs
    <3>. QED
      BY <2>1, <2>5, <3>1, BufferOf DEF Stream
  <2>. QED
    BY <2>6, <2>7, <2>8, <2>9, <2>10
<1>3. ResetBuffer(x) = Clean(x.esc)
  BY <1>2, ResetBufferIs
<1>4. Clean(x.esc).buf = <<>> /\ Clean(x.esc).esc = x.esc
  BY DEF Clean
<1>. QED
  BY <1>1, <1>2, <1>3, <1>4

LEMMA GrowIs ==
  ASSUME NEW F \in Seq(Stream), F # <<>>, NEW b \in Byte, NEW n, n = Len(F)
  PROVE  /\ n \in 1..n /\ n \in Nat
         /\ Grow(F, b) \in Seq(Stream) /\ Len(Grow(F, b)) = n /\ F[n] \in Stream
         /\ \A k \in 1..n : Grow(F, b)[k] = IF k = n THEN Append(F[n], b) ELSE F[k]
<1>1. PICK S : S = Stream
  OBVIOUS
<1>2. n \in Nat /\ n # 0 /\ n \in 1..n /\ F[n] \in Stream
  OBVIOUS
<1>3. PICK x : x = Append(F[n], b)
  OBVIOUS
<1>4. F \in Seq(S) /\ x \in S
  BY <1>1, <1>2, <1>3, AppendedIs DEF Stream
<1>5. PICK i \in 1..Len(F) : i = n
  BY <1>2
<1>6. /\ [F EXCEPT ![i] = x] \in Seq(S) /\ Len([F EXCEPT ![i] = x]) = Len(F)
      /\ \A j \in 1..Len(F) : [F EXCEPT ![i] = x][j] = IF j = i THEN x ELSE F[j]
  BY <1>4, ExceptSeq
<1>7. Grow(F, b) = [F EXCEPT ![i] = x]
  BY <1>3, <1>5 DEF Grow
<1>. QED
  BY <1>1, <1>2, <1>3, <1>5, <1>6, <1>7

LEMMA ParseByteForm ==
  ASSUME NEW p \in Parsers, NEW b \in Byte, b.c # Nul
  PROVE  /\ p.esc => ParseByte(p, b)
                       = [esc |-> FALSE, fields |-> Grow(p.fields, Unescaped(b))]
         /\ ~p.esc /\ b.c = Esc => ParseByte(p, b) = [esc |-> TRUE, fields |-> p.fields]
         /\ ~p.esc /\ b.c = Sep => ParseByte(p, b)
                       = [esc |-> FALSE, fields |-> Append(p.fields, <<>>)]
         /\ ~p.esc /\ b.c = End => ParseByte(p, b) = FreshParser
         /\ ~p.esc /\ b.c \notin {Esc, Sep, End} => ParseByte(p, b)
                       = [esc |-> FALSE, fields |-> Grow(p.fields, b)]
<1>1. p = [esc |-> p.esc, fields |-> p.fields] /\ p.esc \in BOOLEAN
  BY DEF Parsers
<1>2. CASE p.esc
  <2>1. PICK e : e = Unescaped(b)
    OBVIOUS
  <2>2. ParseByte(p, b) = [esc |-> FALSE, fields |-> Grow(p.fields, e)]
    BY <1>2, <2>1 DEF ParseByte, ParseCharInEscapeState, Unescaped
  <2>. QED
    BY <1>2, <2>1, <2>2
<1>3. CASE ~p.esc
  <2>1. p.esc = FALSE /\ ParseByte(p, b) = ParseCharInNormalState(p, b)
    BY <1>1, <1>3 DEF ParseByte
  <2>2. CASE b.c = Esc
    <3>1. ParseByte(p, b) = [p EXCEPT !.esc = TRUE]
      BY <2>1, <2>2 DEF ParseCharInNormalState, Esc, Sep, End
    <3>2. ParseByte(p, b) = [esc |-> TRUE, fields |-> p.fields]
      BY <1>1, <3>1
    <3>. QED
      BY <1>3, <2>2, <3>2 DEF Esc, Sep, End
  <2>3. CASE b.c = Sep
    <3>1. PICK z : z = Append(p.fields, <<>>)
      OBVIOUS
    <3>2. ParseByte(p, b) = [p EXCEPT !.fields = z]
      BY <2>1, <2>3, <3>1 DEF ParseCharInNormalState, Esc, Sep, End
    <3>3. ParseByte(p, b) = [esc |-> FALSE, fields |-> z]
      BY <1>1, <2>1, <3>2
    <3>. QED
      BY <1>3, <2>3, <3>1, <3>3 DEF Esc, Sep, End
  <2>4. CASE b.c = End
    BY <1>3, <2>1, <2>4 DEF ParseCharInNormalState, Esc, Sep, End
  <2>5. CASE b.c \notin {Esc, Sep, End}
    <3>1. PICK z : z = Grow(p.fields, b)
      OBVIOUS
    <3>2. ParseByte(p, b) = [p EXCEPT !.fields = z]
      BY <2>1, <2>5, <3>1 DEF ParseCharInNormalState
    <3>3. ParseByte(p, b) = [esc |-> FALSE, fields |-> z]
      BY <1>1, <2>1, <3>2
    <3>. QED
      BY <1>3, <2>5, <3>1, <3>3
  <2>. QED
    BY <2>2, <2>3, <2>4, <2>5
<1>. QED
  BY <1>2, <1>3

(* Both parsers know in the same way whether a byte is escaped.            *)
LEMMA EscAgrees ==
  ASSUME NEW q \in Buffers, NEW p \in Parsers, NEW b \in Byte, b.c # Nul
  PROVE  q.esc = p.esc \/ b.c # Esc => PutByte(q, b).esc = ParseByte(p, b).esc
<1>1. PICK x : x = PutInBuffer(q, b)
  OBVIOUS
<1>2. PutByte(q, b).esc = x.esc
  BY <1>1, PutByteIs
<1>3. /\ ~q.esc /\ b.c = Esc => x.esc = TRUE
      /\ q.esc \/ b.c # Esc => x.esc = FALSE
  <2>1. CASE q.esc
    <3>1. x = [esc |-> FALSE, buf |-> Append(q.buf, Unescaped(b)), args |-> q.args]
      BY <1>1, <2>1, PutInBufferIs
    <3>. QED
      BY <2>1, <3>1
  <2>2. CASE ~q.esc /\ b.c = Esc
    <3>1. x = [esc |-> TRUE, buf |-> q.buf, args |-> q.args]
      BY <1>1, <2>2, PutInBufferIs
    <3>. QED
      BY <2>2, <3>1
  <2>3. CASE ~q.esc /\ b.c = Sep
    <3>1. x = [esc |-> FALSE, buf |-> Append(q.buf, [b EXCEPT !.c = Nul]),
               args |-> Append(q.args, Len(q.buf) + 2)]
      BY <1>1, <2>3, PutInBufferIs
    <3>. QED
      BY <2>3, <3>1 DEF Esc, Sep
  <2>4. CASE ~q.esc /\ b.c = End
    <3>1. x = Clean(FALSE)
      BY <1>1, <2>4, PutInBufferIs
    <3>. QED
      BY <2>4, <3>1 DEF Esc, End, Clean
  <2>5. CASE ~q.esc /\ b.c \notin {Esc, Sep, End}
    <3>1. x = [esc |-> FALSE, buf |-> Append(q.buf, b), args |-> q.args]
      BY <1>1, <2>5, PutInBufferIs
    <3>. QED
      BY <2>5, <3>1
  <2>. QED
    BY <2>1, <2>2, <2>3, <2>4, <2>5
<1>4. /\ ~p.esc /\ b.c = Esc => ParseByte(p, b).esc = TRUE
      /\ p.esc \/ b.c # Esc => ParseByte(p, b).esc = FALSE
  <2>1. CASE p.esc
    BY <2>1, ParseByteForm
  <2>2. CASE ~p.esc /\ b.c = Esc
    BY <2>2, ParseByteForm
  <2>3. CASE ~p.esc /\ b.c = Sep
    BY <2>3, ParseByteForm DEF Esc, Sep
  <2>4. CASE ~p.esc /\ b.c = End
    BY <2>4, ParseByteForm DEF Esc, End, FreshParser
  <2>5. CASE ~p.esc /\ b.c \notin {Esc, Sep, End}
    BY <2>5, ParseByteForm
  <2>. QED
    BY <2>1, <2>2, <2>3, <2>4, <2>5
<1>5. CASE b.c # Esc
  BY <1>2, <1>3, <1>4, <1>5
<1>6. CASE b.c = Esc /\ q.esc = p.esc
  BY <1>2, <1>3, <1>4, <1>6
<1>. QED
  BY <1>5, <1>6

(* A message that does not begin with the escape character is escaped      *)
(* alike whatever the device has read before.                              *)
LEMMA Aligned ==
  ASSUME NEW q \in Buffers, NEW p \in Parsers, NEW s \in Stream,
         \A k \in 1..Len(s) : s[k].c # Nul, s # <<>> => s[1].c # Esc
  PROVE  \A k \in 1..Len(s) : Put(q, s)[k].esc = Parsed(p, s)[k].esc
<1>1. PICK n : n = Len(s)
  OBVIOUS
<1>2. n \in Nat /\ \A k \in 1..n : s[k] \in Byte
  BY <1>1 DEF Stream
<1> DEFINE T == {k \in 0..n : k = 0 \/ Put(q, s)[k].esc = Parsed(p, s)[k].esc}
<1>3. 0 \in T
  BY <1>2
<1>4. ASSUME NEW k \in 0..n, k \in T, k + 1 <= n PROVE k + 1 \in T
  <2>1. k + 1 \in 1..n /\ (k + 1) - 1 = k /\ k + 1 \in 0..n
    BY <1>2, <1>4
  <2>2. PICK a, b, c : a = Put(q, s)[k] /\ b = s[k + 1] /\ c = Parsed(p, s)[k]
    OBVIOUS
  <2>3. a \in Buffers /\ b \in Byte /\ c \in Parsers /\ b.c # Nul
    BY <1>1, <1>2, <2>1, <2>2, PutType, ParsedType
  <2>4. Put(q, s)[k + 1] = PutByte(a, b) /\ Parsed(p, s)[k + 1] = ParseByte(c, b)
    BY <1>1, <1>2, <2>1, <2>2, PutIs, ParsedIs
  <2>5. a.esc = c.esc \/ b.c # Esc
    <3>1. CASE k = 0
      BY <1>1, <2>1, <2>2, <3>1
    <3>2. CASE k # 0
      BY <1>4, <2>2, <3>2
    <3>. QED
      BY <3>1, <3>2
  <2>6. PutByte(a, b).esc = ParseByte(c, b).esc
    BY <2>3, <2>5, EscAgrees
  <2>. QED
    BY <2>1, <2>4, <2>6
<1>5. \A k \in 0..n : k \in T
  <2> HIDE DEF T
  <2>. QED
    BY <1>2, <1>3, <1>4, UpTo
<1>. QED
  BY <1>1, <1>2, <1>5

LEMMA FlattenFew ==
  ASSUME NEW S, NEW x \in Seq(S)
  PROVE  FlattenSeq(<<>>) = <<>> /\ FlattenSeq(<<x>>) = x
<1>1. FlattenSeq(<<>>) = <<>>
  <2>1. <<>> \in Seq(Seq(S)) /\ Len(<<>>) = 0
    OBVIOUS
  <2>2. PICK e : e[0] = <<>> /\ e[Len(<<>>)] = FlattenSeq(<<>>)
    BY <2>1, FlattenIs
  <2>. QED
    BY <2>1, <2>2
<1>2. FlattenSeq(<<x>>) = x
  <2>1. PICK ss : ss = <<x>>
    OBVIOUS
  <2>2. ss \in Seq(Seq(S)) /\ Len(ss) = 1 /\ ss[1] = x
    BY <2>1
  <2>3. PICK e : /\ e[0] = <<>> /\ e[Len(ss)] = FlattenSeq(ss)
                 /\ \A k \in 0..Len(ss) : e[k] \in Seq(S)
                 /\ \A k \in 1..Len(ss) : e[k] = e[k - 1] \o ss[k]
    BY <2>2, FlattenIs
  <2>4. 1 \in 1..Len(ss) /\ 1 - 1 = 0
    BY <2>2
  <2>5. e[1] = e[0] \o x
    BY <2>2, <2>3, <2>4
  <2>6. e[1] = x
    BY <2>3, <2>5, ConcatEmptySeq
  <2>. QED
    BY <2>1, <2>2, <2>3, <2>6
<1>. QED
  BY <1>1, <1>2

LEMMA EscapedOne ==
  ASSUME NEW ch \in Char \ {End, Nul, Esc, Sep}
  PROVE  Escape(<<ch>>) = <<ch>>
<1>1. PICK x, t : x = <<ch>> /\ t = <<ch>>
  OBVIOUS
<1>2. x \in Seq(Char) /\ EscapeChar(ch) = x /\ Len(t) = 1 /\ t[1] = ch
  BY <1>1 DEF EscapeChar, End, Nul, Esc, Sep
<1>3. [i \in 1..Len(t) |-> EscapeChar(t[i])] = <<x>>
  BY <1>2
<1>4. FlattenSeq(<<x>>) = x
  BY <1>2, FlattenFew
<1>. QED
  BY <1>1, <1>3, <1>4 DEF Escape

(* A message whose title is one such character begins with it. *)
LEMMA FirstByte ==
  ASSUME NEW m \in Messages, NEW ch \in Char \ {End, Nul, Esc, Sep}, m[1] = <<ch>>,
         NEW i \in Nat
  PROVE  Bytes(m, i)[1] = [c |-> ch, i |-> i] /\ Len(Bytes(m, i)) >= 2
<1>1. m \in Seq(Seq(Char)) /\ m # <<>>
  BY DEF Messages
<1>2. PICK n : n = Len(m) - 1
  OBVIOUS
<1>3. n \in Nat /\ \A k \in 1..n : m[k + 1] \in Seq(Char)
  BY <1>1, <1>2
<1>4. PICK ss : ss = [k \in 1..n |-> <<Sep>> \o Escape(m[k + 1])]
  OBVIOUS
<1>5. ss \in Seq(Seq(Char))
  <2>1. <<Sep>> \in Seq(Char)
    BY DEF Char
  <2>2. ASSUME NEW k \in 1..n PROVE <<Sep>> \o Escape(m[k + 1]) \in Seq(Char)
    <3>1. <<>> \in Seq(Stream)
      OBVIOUS
    <3>2. Escape(m[k + 1]) \in Seq(Char)
      BY <1>3, <3>1, EscapedText DEF Plain
    <3>. QED
      BY <2>1, <3>2, JoinedIs
  <2>. QED
    BY <1>3, <1>4, <2>2
<1>6. PICK y : y = FlattenSeq(ss)
  OBVIOUS
<1>7. y \in Seq(Char)
  <2>1. PICK e : /\ e[0] = <<>> /\ e[Len(ss)] = FlattenSeq(ss)
                 /\ \A k \in 0..Len(ss) : e[k] \in Seq(Char)
                 /\ \A k \in 1..Len(ss) : e[k] = e[k - 1] \o ss[k]
    BY <1>5, FlattenIs
  <2>2. Len(ss) \in 0..Len(ss)
    BY <1>5
  <2>. QED
    BY <1>6, <2>1, <2>2
<1>8. Dump(m) = <<ch>> \o y \o <<End>>
  BY <1>2, <1>4, <1>6, EscapedOne DEF Dump
<1>9. PICK u, z : u = <<ch>> \o y /\ z = <<End>>
  OBVIOUS
<1>10. u \in Seq(Char) /\ Len(u) \in Nat /\ Len(u) >= 1 /\ u[1] = ch
       /\ z \in Seq(Char) /\ Len(z) = 1
  <2>1. PICK w : w = <<ch>>
    OBVIOUS
  <2>2. w \in Seq(Char) /\ Len(w) = 1 /\ w[1] = ch
    BY <2>1
  <2>3. /\ w \o y \in Seq(Char) /\ Len(w \o y) = Len(w) + Len(y) /\ Len(y) \in Nat
        /\ \A k \in 1..Len(w) : (w \o y)[k] = w[k]
    BY <1>7, <2>2, JoinedIs
  <2>4. z \in Seq(Char) /\ Len(z) = 1
    BY <1>9 DEF Char
  <2>. QED
    BY <1>9, <2>1, <2>2, <2>3, <2>4
<1>11. /\ Len(u \o z) = Len(u) + Len(z) /\ \A k \in 1..Len(u) : (u \o z)[k] = u[k]
  BY <1>10, JoinedIs
<1>12. Dump(m) = u \o z
  BY <1>8, <1>9
<1>13. Len(Dump(m)) \in Nat /\ Len(Dump(m)) >= 2 /\ Dump(m)[1] = ch
  BY <1>10, <1>11, <1>12
<1>. QED
  BY <1>13 DEF Bytes
(* A message whose title is one such character. *)
Titled == {m \in Messages : \E ch \in Char \ {End, Nul, Esc, Sep} : m[1] = <<ch>>}

(* Whatever the server's parser has read before, such a message completes  *)
(* one and leaves it fresh.                                                *)
LEMMA Realigned ==
  ASSUME NEW q \in Parsers, NEW m \in Titled, NEW i \in Nat,
         NEW b, b = Bytes(m, i), NEW n, n = Len(b)
  PROVE  EndsOf(q, b) = {n} /\ After(q, b) = FreshParser
<1>1. PICK ch \in Char \ {End, Nul, Esc, Sep} : m[1] = <<ch>>
  BY DEF Titled
<1>2. m \in Messages
  BY DEF Titled
<1>3. b[1] = [c |-> ch, i |-> i] /\ n >= 2
  BY <1>1, <1>2, FirstByte
<1>4. /\ b \in Stream /\ n \in Nat
      /\ \A k \in 1..n : b[k].i = i /\ b[k].c # Nul
      /\ \A k \in 1..n : b[k].c = End <=> k = n
      /\ Parsed(FreshParser, b)[n - 1] = [esc |-> FALSE, fields |-> Tagged(m, i)]
  BY <1>2, BytesAre
<1>5. PICK f : f = Clean(FALSE)
  OBVIOUS
<1>6. f \in Buffers
  BY <1>5, CleanIs
<1>7. b[1].c # Esc /\ \A k \in 1..Len(b) : b[k].c # Nul
  BY <1>1, <1>3, <1>4
<1>8. \A k \in 1..Len(b) : Put(f, b)[k].esc = Parsed(q, b)[k].esc
  BY <1>4, <1>6, <1>7, Aligned
<1>9. \A k \in 1..Len(b) : Put(f, b)[k].esc = Parsed(FreshParser, b)[k].esc
  BY <1>4, <1>6, <1>7, FreshIs, Aligned
<1>10. n - 1 \in 1..Len(b) /\ n \in 1..Len(b) /\ n - 1 \in 0..Len(b)
  BY <1>3, <1>4
<1>11. ~Parsed(q, b)[n - 1].esc
  <2>1. Parsed(q, b)[n - 1].esc = Parsed(FreshParser, b)[n - 1].esc
    BY <1>8, <1>9, <1>10
  <2>2. PICK x : x = Parsed(FreshParser, b)[n - 1]
    OBVIOUS
  <2>3. x.esc = FALSE
    BY <1>4, <2>2
  <2>. QED
    BY <2>1, <2>2, <2>3
<1>12. EndsOf(q, b) = {n}
  BY <1>4, <1>10, <1>11 DEF EndsOf, MessageEnds
<1>13. Parsed(q, b)[n - 1] \in Parsers /\ b[n] \in Byte
  BY <1>4, <1>10, ParsedType DEF Stream
<1>14. Parsed(q, b)[n] = ParseByte(Parsed(q, b)[n - 1], b[n])
  BY <1>4, <1>10, ParsedIs
<1>15. After(q, b) = FreshParser
  BY <1>4, <1>10, <1>11, <1>13, <1>14, ParseByteIs DEF After
<1>. QED
  BY <1>12, <1>15

(* The device writes a message. *)
LEMMA GoodWritten ==
  ASSUME NEW p \in Parsers, NEW s \in Stream, NEW first, NEW J, NEW all \in Seq(Messages),
         NEW m \in Titled, Good(first, J, p, s, all),
         \A k \in 1..Len(s) : s[k].c = End => s[k].i \in 1..Len(all)
  PROVE  Good(first, J, p, s \o Bytes(m, Len(all) + 1), Append(all, m))
<1>1. PICK i : i = Len(all) + 1
  OBVIOUS
<1>2. PICK more : more = Append(all, m)
  OBVIOUS
<1>3. /\ i \in Nat /\ Len(all) \in Nat /\ Len(more) = i /\ more[i] = m
      /\ \A j \in 1..Len(all) : more[j] = all[j]
      /\ i \in 1..Len(more) /\ i # Damaged
  BY <1>1, <1>2, AppendedIs DEF Damaged
<1>4. PICK b : b = Bytes(m, i)
  OBVIOUS
<1>5. PICK n : n = Len(b)
  OBVIOUS
<1>6. /\ b \in Stream /\ n \in Nat /\ n >= 1
      /\ \A k \in 1..n : b[k].i = i /\ b[k].c # Nul
      /\ \A k \in 1..n : b[k].c = End <=> k = n
      /\ Parsed(FreshParser, b)[n - 1] = [esc |-> FALSE, fields |-> Tagged(m, i)]
  <2>1. m \in Messages
    BY DEF Titled
  <2>. QED
    BY <1>3, <1>4, <1>5, <2>1, BytesAre
<1>7. PICK u : u = s \o b
  OBVIOUS
<1>8. PICK l : l = Len(s)
  OBVIOUS
<1>9. u \in Stream /\ Within(s, u, 0) /\ Tail0(b, u, l) /\ Within(b, u, l)
  BY <1>6, <1>7, <1>8, PartsAre DEF Tail0
<1>10. l \in Nat /\ Len(u) = l + n
  BY <1>5, <1>8, <1>9 DEF Tail0, Within
<1>11. PICK q : q = Parsed(p, u)[l]
  OBVIOUS
<1>12. \A k \in 0..l : Parsed(p, s)[k] = Parsed(p, u)[k]
  BY <1>8, <1>9, ParsedFirst
<1>13. q = After(p, s)
  <2>1. l \in 0..l
    BY <1>10
  <2>. QED
    BY <1>8, <1>11, <1>12, <2>1 DEF After
<1>14. \A k \in 1..l : s[k] = u[k]
  BY <1>8, <1>9, <1>10 DEF Within
<1>15. ASSUME NEW k \in 1..l
       PROVE  /\ k \in EndsOf(p, s) <=> k \in EndsOf(p, u)
              /\ Emitted(p, s, k, all) = Emitted(p, u, k, all)
  <2>1. k - 1 \in 0..l /\ k \in 1..Len(u)
    BY <1>6, <1>10
  <2>2. Parsed(p, s)[k - 1] = Parsed(p, u)[k - 1] /\ s[k] = u[k]
    BY <1>12, <1>14, <2>1
  <2>. QED
    BY <1>8, <2>1, <2>2 DEF EndsOf, MessageEnds, Emitted
<1>16. /\ \A k \in 1..n : k \in EndsOf(q, b) <=> l + k \in EndsOf(p, u)
       /\ \A k \in 1..n : Emitted(q, b, k, more) = Emitted(p, u, l + k, more)
  <2>1. /\ \A k \in 1..Len(b) : k \in EndsOf(Parsed(p, u)[l], b) <=> l + k \in EndsOf(p, u)
        /\ \A k \in 1..Len(b) :
             Emitted(Parsed(p, u)[l], b, k, more) = Emitted(p, u, l + k, more)
    <3>1. Within(b, u, l)
      BY <1>9
    <3>2. \A k \in 1..Len(b) : k \in EndsOf(Parsed(p, u)[l], b) <=> l + k \in EndsOf(p, u)
      BY <3>1, EndsWithin
    <3>3. \A k \in 1..Len(b) :
            Emitted(Parsed(p, u)[l], b, k, more) = Emitted(p, u, l + k, more)
      BY <3>1, EndsWithin
    <3>. QED
      BY <3>2, <3>3
  <2>. QED
    BY <1>5, <1>11, <2>1
<1>17. After(q, b) = After(p, u)
  BY <1>9, <1>11, AfterWithin
<1>18. q \in Parsers
  <2>1. l \in 0..Len(s)
    BY <1>8, <1>10
  <2>. QED
    BY <1>8, <1>13, <2>1, ParsedType DEF After
<1>19. EndsOf(q, b) = {n} /\ After(q, b) = FreshParser
  BY <1>3, <1>4, <1>5, <1>18, Realigned
<1>20. EndsOf(p, u) \subseteq EndsOf(p, s) \cup {l + n}
  <2>. SUFFICES ASSUME NEW k \in EndsOf(p, u), k \notin EndsOf(p, s) PROVE k = l + n
    OBVIOUS
  <2>1. k \in 1..(l + n)
    BY <1>10 DEF EndsOf, MessageEnds
  <2>2. k \notin 1..l
    BY <1>15
  <2>3. PICK j : j = k - l
    OBVIOUS
  <2>4. j \in 1..n /\ k = l + j
    BY <1>6, <1>10, <2>1, <2>2, <2>3
  <2>5. j = n
    BY <1>16, <1>19, <2>4
  <2>. QED
    BY <2>4, <2>5
<1>21. q = FreshParser => Emitted(q, b, n, more) = i
  <2>. SUFFICES ASSUME q = FreshParser PROVE Emitted(q, b, n, more) = i
    OBVIOUS
  <2>1. n \in 1..n
    BY <1>6
  <2>2. b[n].i = i /\ Parsed(q, b)[n - 1].fields = Tagged(m, i)
    BY <1>6, <2>1
  <2>3. Len(more) \in Nat /\ m \in Messages
    BY <1>3 DEF Titled
  <2>4. Origin(Tagged(m, i), b[n], more) = i
    <3>1. PICK x : x = b[n]
      OBVIOUS
    <3>2. x.i = i
      BY <2>2, <3>1
    <3>3. Origin(Tagged(m, i), x, more) = i
      BY <1>3, <2>3, <3>2, OriginOfWhole
    <3>. QED
      BY <3>1, <3>3
  <2>. QED
    BY <2>2, <2>4 DEF Emitted
<1>22. ASSUME NEW k \in EndsOf(p, u), Emitted(p, u, k, more) = Damaged
       PROVE  (first /\ \A j \in EndsOf(p, u) : k <= j) \/ u[k].i \in J
  <2>1. EndsOf(p, s) \subseteq 1..l
    BY <1>8 DEF EndsOf, MessageEnds
  <2>2. CASE k \in EndsOf(p, s)
    <3>1. k \in 1..l /\ s[k].c = End /\ u[k] = s[k]
      BY <1>14, <2>1, <2>2 DEF EndsOf, MessageEnds
    <3>2. u[k].i \in 1..Len(all)
      BY <1>8, <3>1
    <3>3. Len(more) \in Nat /\ Len(all) <= Len(more)
      BY <1>1, <1>3
    <3>4. Emitted(p, u, k, more) = Emitted(p, u, k, all)
      BY <1>3, <3>2, <3>3, EmittedGrown
    <3>5. Emitted(p, s, k, all) = Damaged
      BY <1>15, <1>22, <3>1, <3>4
    <3>6. (first /\ \A j \in EndsOf(p, s) : k <= j) \/ s[k].i \in J
      BY <2>2, <3>5 DEF Good
    <3>7. k <= l + n
      BY <1>6, <1>10, <3>1
    <3>. QED
      BY <1>20, <3>1, <3>6, <3>7
  <2>3. CASE k \notin EndsOf(p, s)
    <3>1. k = l + n
      BY <1>20, <2>3
    <3>2. n \in 1..n /\ k <= k
      BY <1>6, <1>10, <3>1
    <3>3. Emitted(q, b, n, more) = Damaged
      BY <1>16, <1>22, <3>1, <3>2
    <3>4. q # FreshParser
      BY <1>3, <1>21, <3>3
    <3>5. (first /\ EndsOf(p, s) = {}) \/ i \in J
      BY <1>1, <1>13, <3>4 DEF Good
    <3>6. u[k].i = i
      BY <1>5, <1>6, <1>9, <1>10, <3>1, <3>2 DEF Within
    <3>7. CASE first /\ EndsOf(p, s) = {}
      BY <1>20, <3>1, <3>2, <3>7
    <3>. QED
      BY <3>5, <3>6, <3>7
  <2>. QED
    BY <2>2, <2>3
<1>23. After(p, u) = FreshParser
  BY <1>17, <1>19
<1>24. Good(first, J, p, u, more)
  BY <1>22, <1>23 DEF Good
<1>. QED
  BY <1>1, <1>2, <1>4, <1>7, <1>24

LEMMA StringAtType ==
  ASSUME NEW p \in Buffers, NEW start \in Nat \ {0}
  PROVE  StringAt(p, start) \in Stream
<1>1. PICK b : b = p.buf
  OBVIOUS
<1>2. b \in Seq(Byte)
  BY <1>1 DEF Buffers, Stream
<1>3. PICK rest : rest = SubSeq(b, start, Len(b))
  OBVIOUS
<1>4. rest \in Seq(Byte)
  <2>1. \A k \in start..Len(b) : b[k] \in Byte
    BY <1>2
  <2>. QED
    BY <1>2, <1>3, <2>1
<1>5. PICK I : I = {i \in 1..Len(rest) : rest[i].c = Nul}
  OBVIOUS
<1>6. PICK k : k = SelectInSeq(rest, LAMBDA e : e.c = Nul)
  OBVIOUS
<1>7. StringAt(p, start) = IF k = 0 THEN rest ELSE SubSeq(rest, 1, k - 1)
  BY <1>1, <1>3, <1>6 DEF StringAt
<1>8. k = 0 \/ k \in 1..Len(rest)
  <2>1. k = IF I # {} THEN CHOOSE x \in I : \A y \in I : x <= y ELSE 0
    BY <1>5, <1>6 DEF SelectInSeq, Min
  <2>2. CASE I # {}
    <3>1. I \subseteq Nat /\ I \subseteq 1..Len(rest)
      BY <1>4, <1>5
    <3>2. \E x \in I : \A y \in I : x <= y
      BY <2>2, <3>1, LeastOf
    <3>3. k \in I
      BY <2>1, <2>2, <3>2
    <3>. QED
      BY <3>1, <3>3
  <2>3. CASE I = {}
    BY <2>1, <2>3
  <2>. QED
    BY <2>2, <2>3
<1>9. CASE k \in 1..Len(rest)
  <2>1. SubSeq(rest, 1, k - 1) \in Seq(Byte)
    BY <1>4, <1>9
  <2>2. k # 0
    BY <1>9
  <2>. QED
    BY <1>7, <2>1, <2>2 DEF Stream
<1>10. CASE k = 0
  BY <1>4, <1>7, <1>10 DEF Stream
<1>. QED
  BY <1>8, <1>9, <1>10

LEMMA FieldsOfType ==
  ASSUME NEW p \in Buffers
  PROVE  FieldsOf(p) \in Seq(Stream) /\ Len(FieldsOf(p)) = Len(p.args) + 1
         /\ Len(p.args) \in Nat
<1>1. p.args \in Seq(Nat \ {0})
  BY DEF Buffers
<1>2. PICK f : f = [k \in 1..Len(p.args) |-> StringAt(p, p.args[k])]
  OBVIOUS
<1>3. \A k \in 1..Len(p.args) : StringAt(p, p.args[k]) \in Stream
  BY <1>1, StringAtType
<1>4. f \in Seq(Stream) /\ Len(f) = Len(p.args) /\ Len(p.args) \in Nat
  BY <1>1, <1>2, <1>3
<1>5. PICK h : h = StringAt(p, 1)
  OBVIOUS
<1>6. h \in Stream
  BY <1>5, StringAtType
<1>7. <<h>> \in Seq(Stream) /\ Len(<<h>>) = 1
  BY <1>6
<1>8. FieldsOf(p) = <<h>> \o f
  BY <1>2, <1>5 DEF FieldsOf
<1>9. PICK g : g = <<h>>
  OBVIOUS
<1>10. g \o f \in Seq(Stream) /\ Len(g \o f) = Len(g) + Len(f)
  BY <1>4, <1>7, <1>9, JoinedIs
<1>. QED
  BY <1>4, <1>7, <1>8, <1>9, <1>10

LEMMA TextOfType ==
  ASSUME NEW fields \in Seq(Stream), Len(fields) >= 1
  PROVE  MessageOf(fields) \in Messages
<1>1. ASSUME NEW k \in 1..Len(fields)
      PROVE  [j \in 1..Len(fields[k]) |-> fields[k][j].c] \in Seq(Char)
  <2>1. PICK f \in Stream : f = fields[k]
    OBVIOUS
  <2>2. Len(f) \in Nat /\ \A j \in 1..Len(f) : f[j] \in Byte
    BY DEF Stream
  <2>3. \A j \in 1..Len(f) : f[j].c \in Char
    <3>1. \A b \in Byte : b.c \in Char
      BY DEF Byte
    <3>. QED
      BY <2>2, <3>1
  <2>. QED
    BY <2>1, <2>2, <2>3
<1>2. PICK m : m = [k \in 1..Len(fields) |-> [j \in 1..Len(fields[k]) |-> fields[k][j].c]]
  OBVIOUS
<1>3. m \in Seq(Seq(Char)) /\ Len(m) = Len(fields)
  <2> DEFINE V(k) == [j \in 1..Len(fields[k]) |-> fields[k][j].c]
  <2>1. \A k \in 1..Len(fields) : V(k) \in Seq(Char)
    BY <1>1
  <2>2. m = [k \in 1..Len(fields) |-> V(k)]
    BY <1>2
  <2> HIDE DEF V
  <2>. QED
    BY <2>1, <2>2
<1>4. m # <<>>
  BY <1>3
<1>. QED
  BY <1>2, <1>3, <1>4 DEF Messages, MessageOf, TextOf

LEMMA CallIdType ==
  ASSUME NEW p \in Buffers, callId \in Nat
  PROVE  CallPlace(p) \in Nat /\ CallId(p, CallPlace(p)) \in Seq(Char)
<1>1. PICK fields, m : fields = FieldsOf(p) /\ m = MessageOf(fields)
  OBVIOUS
<1>2. Len(fields) = Len(p.args) + 1 /\ Len(m) = Len(fields) /\ Len(p.args) \in Nat
  BY <1>1, FieldsOfType DEF MessageOf
<1>3. Proper(m) => p.args[1] \in Nat \ {0}
  <2>. SUFFICES ASSUME Proper(m) PROVE p.args[1] \in Nat \ {0}
    OBVIOUS
  <2>1. 1 \in 1..Len(p.args)
    BY <1>2 DEF Proper
  <2>. QED
    BY <2>1 DEF Buffers
<1>4. CallPlace(p) \in Nat
  <2>1. CASE m[1] # <<"call">>
    BY <1>1, <2>1 DEF CallPlace
  <2>2. CASE m[1] = <<"call">> /\ Proper(m)
    BY <1>1, <1>3, <2>2 DEF CallPlace
  <2>3. CASE m[1] = <<"call">> /\ ~Proper(m)
    BY <1>1, <2>3 DEF CallPlace
  <2>. QED
    BY <2>1, <2>2, <2>3
<1>5. PICK n : n = CallPlace(p)
  OBVIOUS
<1>6. CASE n = 0
  BY <1>4, <1>5, <1>6 DEF CallId
<1>7. CASE n # 0
  <2>1. PICK f \in Stream : f = StringAt(p, n)
    BY <1>4, <1>5, <1>7, StringAtType
  <2>2. Len(f) \in Nat /\ \A k \in 1..Len(f) : f[k].c \in Char
    <3>1. \A b \in Byte : b.c \in Char
      BY DEF Byte
    <3>. QED
      BY <3>1 DEF Stream
  <2>3. TextOf(f) \in Seq(Char)
    BY <2>2 DEF TextOf
  <2>. QED
    BY <1>4, <1>5, <1>7, <2>1, <2>3 DEF CallId
<1>. QED
  BY <1>6, <1>7

-----------------------------------------------------------------------------
(***************************************************************************)
(* What is written.                                                        *)
(***************************************************************************)
LEMMA MessageFrom ==
  ASSUME NEW x \in Seq(Char), NEW y \in Seq(Char), NEW z \in Seq(Char)
  PROVE  <<x>> \in Messages /\ <<x, y>> \in Messages /\ <<x, y, z>> \in Messages
<1>1. PICK S : S = Seq(Char)
  OBVIOUS
<1>2. x \in S /\ y \in S /\ z \in S
  BY <1>1
<1>3. <<x>> \in Seq(S) /\ <<x, y>> \in Seq(S) /\ <<x, y, z>> \in Seq(S)
  BY <1>2
<1>4. <<x>> # <<>> /\ <<x, y>> # <<>> /\ <<x, y, z>> # <<>>
  OBVIOUS
<1>. QED
  BY <1>1, <1>3, <1>4 DEF Messages

LEMMA OneChar ==
  ASSUME NEW ch \in Char
  PROVE  <<ch>> \in Seq(Char)
  OBVIOUS

LEMMA TextIs ==
  ASSUME NEW a \in Texts
  PROVE  a \in Seq(Char)
<1>1. a \in Seq(STRING)
  <2>1. Values \subseteq Seq(STRING) /\ Commands \subseteq Seq(Seq(STRING))
    BY LinkAssumption DEF LinkAssumption
  <2>. QED
    BY <2>1 DEF Texts
<1>2. Len(a) \in Nat /\ a = [k \in 1..Len(a) |-> a[k]]
  BY <1>1
<1>3. \A k \in 1..Len(a) : a[k] \in Char
  BY DEF Char
<1>. QED
  BY <1>2, <1>3

(* A title, and what may follow it. *)
LEMMA TitledIs ==
  ASSUME NEW ch \in {"identify", "#identify_hub", "call", "deviceinfo", "ok", "err", "meas"}
  PROVE  /\ <<ch>> \in Seq(Char)
         /\ \A m \in Messages : m[1] = <<ch>> => m \in Titled
<1>1. ch \in Char \ {End, Nul, Esc, Sep}
  BY DEF Char, End, Nul, Esc, Sep
<1>. QED
  BY <1>1 DEF Titled

LEMMA LongerIs ==
  ASSUME NEW m \in Messages, NEW r \in Seq(Seq(Char))
  PROVE  m \o r \in Messages /\ (m \o r)[1] = m[1]
<1>1. PICK S : S = Seq(Char)
  OBVIOUS
<1>2. m \in Seq(S) /\ r \in Seq(S) /\ m # <<>>
  BY <1>1 DEF Messages
<1>3. /\ m \o r \in Seq(S) /\ Len(m \o r) = Len(m) + Len(r)
      /\ Len(m) \in Nat /\ Len(r) \in Nat
      /\ \A k \in 1..Len(m) : (m \o r)[k] = m[k]
  BY <1>2, JoinedIs
<1>4. 1 \in 1..Len(m)
  BY <1>2
<1>5. (m \o r)[1] = m[1] /\ m \o r # <<>>
  BY <1>3, <1>4
<1>. QED
  BY <1>1, <1>3, <1>5 DEF Messages

LEMMA AnswersType ==
  ASSUME NEW m \in Messages, NEW id \in Seq(Char), NEW a \in Answers(m, id)
  PROVE  a = <<>> \/ \E r \in Titled : a = <<r>>
<1>1. m \in Seq(Seq(Char))
  BY DEF Messages
<1>2. <<"uuid">> \in Seq(Char) /\ <<"text">> \in Seq(Char)
  <2>1. "uuid" \in Char /\ "text" \in Char
    BY DEF Char
  <2>. QED
    BY <2>1, OneChar
<1>3. Info \in Titled
  <2>1. <<"deviceinfo">> \in Seq(Char)
    BY TitledIs
  <2>2. Info \in Messages /\ Info[1] = <<"deviceinfo">>
    BY <1>2, <2>1, MessageFrom DEF Info
  <2>. QED
    BY <2>2, TitledIs
<1>4. Err(id) \in Titled
  <2>1. <<"err">> \in Seq(Char)
    BY TitledIs
  <2>2. Err(id) \in Messages /\ Err(id)[1] = <<"err">>
    BY <1>2, <2>1, MessageFrom DEF Err
  <2>. QED
    BY <2>2, TitledIs
<1>5. ASSUME NEW r \in Seq(Seq(Char)) PROVE Ok(id, r) \in Titled
  <2>1. <<"ok">> \in Seq(Char)
    BY TitledIs
  <2>2. PICK b : b = <<<<"ok">>, id>>
    OBVIOUS
  <2>3. b \in Messages /\ b[1] = <<"ok">>
    BY <2>1, <2>2, MessageFrom
  <2>4. b \o r \in Messages /\ (b \o r)[1] = <<"ok">>
    BY <2>3, LongerIs
  <2>5. Ok(id, r) = b \o r
    BY <2>2 DEF Ok
  <2>. QED
    BY <2>4, <2>5, TitledIs
<1>11. <<"identify">> # HubTitle /\ <<"call">> # HubTitle
  <2>1. PICK x, y, z : x = <<"identify">> /\ y = <<"call">> /\ z = HubTitle
    OBVIOUS
  <2>2. Len(x) = 1 /\ Len(y) = 1 /\ Len(z) = 3
    BY <2>1 DEF HubTitle
  <2>3. x # z /\ y # z
    BY <2>2
  <2>. QED
    BY <2>1, <2>3, Zenon
<1>12. <<"identify">> # <<"call">>
  OBVIOUS
<1>6. CASE m[1] = <<"identify">>
  <2>1. a = <<Info>>
    BY <1>6, <1>11, <1>12 DEF Answers
  <2>. QED
    BY <1>3, <2>1
<1>7. CASE m[1] # <<"identify">> /\ m[1] = HubTitle
  <2>1. a \in {<<Ok(id, <<>>)>>, <<Err(id)>>}
    BY <1>7, <1>11, <1>12 DEF Answers
  <2>2. <<>> \in Seq(Seq(Char))
    OBVIOUS
  <2>. QED
    BY <1>4, <1>5, <2>1, <2>2
<1>8. CASE m[1] # <<"identify">> /\ m[1] # HubTitle /\ m[1] = <<"call">> /\ Proper(m)
  <2>1. a \in {<<Ok(id, <<Result(m)>>)>>, <<Err(id)>>}
    BY <1>8 DEF Answers
  <2>2. Result(m) \in Seq(Char)
    <3>1. Len(m) \in Nat /\ Len(m) >= 3 /\ \A k \in 1..Len(m) : m[k] \in Seq(Char)
      BY <1>1, <1>8 DEF Proper
    <3>2. m[3] \in Seq(Char) /\ (Len(m) > 3 => m[4] \in Seq(Char))
      BY <3>1
    <3>. QED
      BY <3>2 DEF Result
  <2>3. PICK x \in Seq(Char) : x = Result(m)
    BY <2>2
  <2>4. <<x>> \in Seq(Seq(Char))
    OBVIOUS
  <2>. QED
    BY <1>4, <1>5, <2>1, <2>3, <2>4
<1>9. CASE m[1] # <<"identify">> /\ m[1] # HubTitle /\ m[1] = <<"call">> /\ ~Proper(m)
  <2>1. a = <<Err(id)>>
    BY <1>9 DEF Answers
  <2>. QED
    BY <1>4, <2>1
<1>10. CASE m[1] \notin {<<"identify">>, HubTitle, <<"call">>}
  <2>1. a = <<>>
    BY <1>10 DEF Answers
  <2>. QED
    BY <2>1
<1>. QED
  BY <1>6, <1>7, <1>8, <1>9, <1>10

RequestTitles == {<<"identify">>, <<"#identify_hub">>, <<"call">>}

LEMMA RequestType ==
  ASSUME NEW i \in 1..9, NEW m \in Requests(<<Digit[i]>>)
  PROVE  m \in Messages /\ m[1] \in RequestTitles
<1>1. PICK d : d = <<Digit[i]>>
  OBVIOUS
<1>2. d \in Seq(Char)
  <2>1. Digit[i] \in Char
    BY DEF Char
  <2>. QED
    BY <1>1, <2>1, OneChar
<1>3. CASE m = Identify
  <2>1. <<"identify">> \in Seq(Char)
    BY TitledIs
  <2>. QED
    BY <1>3, <2>1, MessageFrom DEF Identify, RequestTitles
<1>4. CASE m = IdentifyHub
  <2>1. <<"#identify_hub">> \in Seq(Char)
    BY TitledIs
  <2>. QED
    BY <1>4, <2>1, MessageFrom DEF IdentifyHub, RequestTitles
<1>5. ASSUME NEW c \in Commands, m = Call(d, c)
      PROVE  m \in Messages /\ m[1] \in RequestTitles
  <2>1. c \in Seq(Seq(Char))
    <3>1. c \in Seq(Seq(STRING))
      BY LinkAssumption DEF LinkAssumption
    <3>2. Len(c) \in Nat /\ c = [k \in 1..Len(c) |-> c[k]]
      BY <3>1
    <3>3. \A k \in 1..Len(c) : c[k] \in Seq(Char)
      BY TextIs DEF Texts
    <3>. QED
      BY <3>2, <3>3
  <2>2. PICK b : b = <<<<"call">>, d>>
    OBVIOUS
  <2>3. <<"call">> \in Seq(Char)
    BY TitledIs
  <2>4. b \in Messages /\ b[1] = <<"call">>
    BY <1>2, <2>2, <2>3, MessageFrom
  <2>5. b \o c \in Messages /\ (b \o c)[1] = <<"call">>
    BY <2>1, <2>4, LongerIs
  <2>6. m = b \o c
    BY <1>5, <2>2 DEF Call
  <2>. QED
    BY <2>5, <2>6 DEF RequestTitles
<1>. QED
  BY <1>1, <1>3, <1>4, <1>5 DEF Requests

LEMMA WrittenIs ==
  ASSUME sent \in Seq(Messages), up \in Stream, NEW a, NEW x,
         a = <<>> \/ \E r \in Titled : a = <<r>>,
         DeviceWrites(a, x)
  PROVE  \/ sent' = sent /\ up' = up
         \/ \E r \in Titled : /\ sent' = Append(sent, r)
                                /\ up' = up \o Bytes(r, Len(sent) + 1)
<1>1. Len(sent) \in Nat /\ up \in Seq(Byte)
  BY DEF Stream
<1>2. CASE a = <<>>
  <2>1. Len(a) = 0 /\ 1..0 = {}
    BY <1>2
  <2>2. [k \in 1..Len(a) |-> Bytes(a[k], Len(sent) + k)] = <<>>
    BY <2>1
  <2>3. up' = up \o <<>> /\ sent' = sent \o <<>>
    BY <1>1, <1>2, <2>2, FlattenFew DEF DeviceWrites
  <2>4. up' = up /\ sent' = sent
    BY <1>1, <2>3, ConcatEmptySeq
  <2>. QED
    BY <2>4
<1>3. ASSUME NEW r \in Titled, a = <<r>>
      PROVE  sent' = Append(sent, r) /\ up' = up \o Bytes(r, Len(sent) + 1)
  <2>1. PICK b : b = Bytes(r, Len(sent) + 1)
    OBVIOUS
  <2>2. b \in Seq(Byte)
    <3>1. PICK i : i = Len(sent) + 1
      OBVIOUS
    <3>2. PICK l : l = Len(b)
      OBVIOUS
    <3>3. i \in Nat /\ b = Bytes(r, i)
      BY <1>1, <2>1, <3>1
    <3>4. b \in Stream
      BY <3>2, <3>3, BytesAre DEF Titled
    <3>. QED
      BY <3>4 DEF Stream
  <2>3. Len(a) = 1 /\ a[1] = r
    BY <1>3
  <2>4. [k \in 1..Len(a) |-> Bytes(a[k], Len(sent) + k)] = <<b>>
    <3>1. 1..1 = {1}
      OBVIOUS
    <3>2. \A k \in 1..1 : Bytes(a[k], Len(sent) + k) = b
      BY <2>1, <2>3, <3>1
    <3>3. [k \in 1..1 |-> Bytes(a[k], Len(sent) + k)] = [k \in 1..1 |-> b]
      BY <3>2
    <3>4. [k \in 1..1 |-> b] = <<b>>
      OBVIOUS
    <3>. QED
      BY <2>3, <3>3, <3>4
  <2>5. FlattenSeq(<<b>>) = b
    BY <2>2, FlattenFew
  <2>6. up' = up \o b
    BY <2>4, <2>5 DEF DeviceWrites
  <2>7. sent' = Append(sent, r)
    BY <1>3 DEF DeviceWrites
  <2>. QED
    BY <2>1, <2>6, <2>7
<1>. QED
  BY <1>2, <1>3
-----------------------------------------------------------------------------
(***************************************************************************)
(* The invariant of the bytes to the server.                               *)
(***************************************************************************)
LinkTypeOK ==
  /\ down \in Stream /\ up \in Stream /\ device \in Buffers /\ callId \in Nat
  /\ server \in Parsers /\ chunks \in Seq(Stream)
  /\ written \in Seq(Messages) /\ sent \in Seq(Messages)
  /\ heard \in Seq(0..Len(written)) /\ told \in Seq(Told)
  /\ link \in LinkRecord /\ link.harm <= link.faults

(* A new connection finds at most a part of a message before whole ones.   *)
UpRight ==
  /\ Ordered(<<>>, up, Len(sent))
  /\ \A n \in 0..Len(up) : Good(TRUE, link.joined, FreshParser, SubSeq(up, n + 1, Len(up)), sent)

(* What the call of pushData above the others has not parsed. *)
Pending == IF chunks = <<>> THEN <<>> ELSE Last(chunks)

ServerRight ==
  ~link.nested =>
    /\ \A k \in 1..Len(chunks) : k < Len(chunks) => chunks[k] = <<>>
    /\ ToldRight(told, link.left, link.joined, Len(sent))
    /\ Good(link.left /\ told = <<>>, link.joined, server, Pending \o up, sent)
    /\ Ordered(told, Pending \o up, Len(sent))

LinkInv == LinkTypeOK /\ UpRight /\ ServerRight

LEMMA LinkIs ==
  ASSUME link \in LinkRecord
  PROVE  /\ link.from \in Nat \ {0} /\ link.left \in BOOLEAN /\ link.nested \in BOOLEAN
         /\ link.restarted \in BOOLEAN /\ link.joined \in SUBSET Nat
         /\ link.faults \in 0..MaxFaults
         /\ link.harm \in 0..MaxFaults /\ MaxFaults \in Nat
         /\ link = [from |-> link.from, left |-> link.left, nested |-> link.nested,
                    restarted |-> link.restarted, joined |-> link.joined, faults |-> link.faults,
                    harm |-> link.harm]
  BY LinkAssumption DEF LinkAssumption, LinkRecord

LEMMA PendingIs ==
  ASSUME chunks \in Seq(Stream)
  PROVE  Pending \in Stream
<1>1. CASE chunks = <<>>
  BY <1>1 DEF Pending, Stream
<1>2. CASE chunks # <<>>
  <2>1. chunks[Len(chunks)] \in Stream
    BY <1>2
  <2>. QED
    BY <1>2, <2>1 DEF Pending, Last
<1>. QED
  BY <1>1, <1>2

(* Numbers of more messages. *)
LEMMA FewerIs ==
  ASSUME NEW n \in Nat, NEW t \in Seq(0..n)
  PROVE  t \in Seq(0..(n + 1))
<1>1. \A x \in 1..Len(t) : t[x] \in 0..n
  OBVIOUS
<1>2. \A x \in 1..Len(t) : t[x] \in 0..(n + 1)
  BY <1>1
<1>3. Len(t) \in Nat /\ t = [x \in 1..Len(t) |-> t[x]]
  OBVIOUS
<1>4. [x \in 1..Len(t) |-> t[x]] \in Seq(0..(n + 1))
  BY <1>2, <1>3
<1>. QED
  BY <1>3, <1>4

LEMMA LinkInitInv ==
  LinkInit => LinkInv
<1>. SUFFICES ASSUME LinkInit PROVE LinkInv
  OBVIOUS
<1>1. /\ down = <<>> /\ up = <<>>
      /\ device = FreshBuffer /\ callId = 0 /\ server = FreshParser /\ chunks = <<>>
      /\ written = <<>> /\ sent = <<>> /\ heard = <<>> /\ told = <<>>
      /\ link = [from |-> 1, left |-> FALSE, nested |-> FALSE, restarted |-> FALSE,
                 joined |-> {}, faults |-> 0, harm |-> 0]
  BY DEF LinkInit
<1>2. LinkTypeOK
  <2>1. <<>> \in Stream /\ <<>> \in Seq(Stream) /\ <<>> \in Seq(Messages)
        /\ <<>> \in Seq(Nat \ {0}) /\ Len(<<>>) = 0 /\ <<>> \in Seq(0..0)
        /\ <<>> \in Seq(Told)
    BY DEF Stream
  <2>2. device \in Buffers
    BY <1>1, <2>1 DEF FreshBuffer, Buffers
  <2>3. link \in LinkRecord /\ link.harm <= link.faults
    BY <1>1, LinkAssumption DEF LinkAssumption, LinkRecord
  <2>. QED
    BY <1>1, <2>1, <2>2, <2>3, FreshIs DEF LinkTypeOK
<1>3. Len(<<>>) = 0 /\ 1..0 = {} /\ 0..0 = {0}
  OBVIOUS
<1>4. \A t : Ordered(t, <<>>, 0)
  BY <1>3 DEF Ordered
<1>5. SubSeq(<<>>, 0 + 1, 0) = <<>>
  OBVIOUS
<1>6. UpRight
  BY <1>1, <1>3, <1>4, <1>5, EmptyGood DEF UpRight
<1>7. ServerRight
  <2>1. Pending = <<>> /\ Pending \o up = <<>>
    BY <1>1, ConcatEmptySeq DEF Pending
  <2>2. ToldRight(<<>>, FALSE, {}, 0)
    BY <1>3 DEF ToldRight
  <2>3. Good(link.left /\ told = <<>>, link.joined, FreshParser, <<>>, sent)
    BY EmptyGood
  <2>. QED
    BY <1>1, <1>3, <1>4, <2>1, <2>2, <2>3 DEF ServerRight
<1>. QED
  BY <1>2, <1>6, <1>7 DEF LinkInv

(* What of the invariant is about the bytes to the server. *)
LEMMA WrittenInv ==
  ASSUME LinkInv, NEW r \in Titled,
         sent' = Append(sent, r), up' = up \o Bytes(r, Len(sent) + 1),
         UNCHANGED <<server, chunks, told, link>>
  PROVE  /\ sent' \in Seq(Messages) /\ up' \in Stream /\ told' \in Seq(Told)
         /\ UpRight' /\ ServerRight'
<1>1. /\ up \in Stream /\ sent \in Seq(Messages) /\ server \in Parsers
      /\ chunks \in Seq(Stream) /\ told \in Seq(Told) /\ link \in LinkRecord
  BY DEF LinkInv, LinkTypeOK
<1>2. PICK i : i = Len(sent) + 1
  OBVIOUS
<1>3. PICK b : b = Bytes(r, i)
  OBVIOUS
<1>4. PICK l : l = Len(b)
  OBVIOUS
<1>8. r \in Messages /\ told' = told
  BY DEF Titled
<1>5. /\ Len(sent) \in Nat /\ i \in Nat /\ Len(sent') = i /\ sent' \in Seq(Messages)
      /\ up' = up \o b
  BY <1>1, <1>2, <1>3, <1>8, AppendedIs
<1>6. /\ b \in Stream /\ l \in Nat /\ l >= 1
      /\ \A k \in 1..l : b[k].i = i /\ b[k].c # Nul
      /\ \A k \in 1..l : b[k].c = End <=> k = l
      /\ Parsed(FreshParser, b)[l - 1] = [esc |-> FALSE, fields |-> Tagged(r, i)]
  <2>1. i \in Nat /\ b = Bytes(r, i) /\ l = Len(b)
    BY <1>3, <1>4, <1>5
  <2>2. \A m \in Messages : \A s : s = Bytes(m, i) => \A n : n = Len(s) =>
          /\ s \in Stream /\ n \in Nat /\ n >= 1
          /\ \A k \in 1..n : s[k].i = i /\ s[k].c # Nul
          /\ \A k \in 1..n : s[k].c = End <=> k = n
          /\ Parsed(FreshParser, s)[n - 1] = [esc |-> FALSE, fields |-> Tagged(m, i)]
    BY <2>1, BytesAre
  <2>. QED
    BY <1>8, <2>1, <2>2
<1>7. up' \in Stream
  BY <1>1, <1>5, <1>6, PartsAre
<1>9. Ordered(<<>>, up', Len(sent'))
  <2>1. Ordered(<<>>, up, Len(sent))
    BY DEF LinkInv, UpRight
  <2>2. \A x \in 1..Len(<<>>) : <<>>[x].i \in 1..Len(sent)
    OBVIOUS
  <2>3. Ordered(<<>>, up \o Bytes(r, Len(sent) + 1), Len(sent) + 1)
    BY <1>1, <1>5, <1>8, <2>1, <2>2, OrderedWritten
  <2>. QED
    BY <1>2, <1>5, <2>3
<1>10. ASSUME NEW n \in 0..Len(up')
       PROVE  Good(TRUE, link.joined, FreshParser, SubSeq(up', n + 1, Len(up')), sent')
  <2>1. Len(up') = Len(up) + l /\ Len(up) \in Nat
        /\ \A k \in 1..Len(b) : up'[Len(up) + k] = b[k]
    <3>1. up \in Seq(Byte) /\ b \in Seq(Byte)
      BY <1>1, <1>6 DEF Stream
    <3>2. /\ Len(up \o b) = Len(up) + Len(b) /\ Len(up) \in Nat
          /\ \A k \in 1..Len(b) : (up \o b)[Len(up) + k] = b[k]
      BY <3>1, JoinedIs
    <3>. QED
      BY <1>4, <1>5, <3>2
  <2>2. PICK v : v = SubSeq(up', n + 1, Len(up'))
    OBVIOUS
  <2>3. v \in Stream /\ Tail0(v, up', n)
    BY <1>7, <2>2, TailIs
  <2>4. CASE n \in 0..Len(up)
    <3>1. PICK t : t = SubSeq(up, n + 1, Len(up))
      OBVIOUS
    <3>2. t \in Stream /\ Tail0(t, up, n) /\ Tail0(t \o b, up \o b, n)
      BY <1>1, <1>6, <2>4, <3>1, RestIs, TailIs
    <3>3. Good(TRUE, link.joined, FreshParser, t, sent)
      BY <2>4, <3>1 DEF LinkInv, UpRight
    <3>4. \A k \in 1..Len(t) : t[k].c = End => t[k].i \in 1..Len(sent)
      <4>1. Ordered(<<>>, up, Len(sent)) /\ Within(t, up, n)
        BY <3>2 DEF LinkInv, UpRight, Tail0
      <4>2. Ordered(<<>>, t, Len(sent))
        BY <4>1, OrderedWithin
      <4>. QED
        BY <4>2 DEF Ordered
    <3>5. Good(TRUE, link.joined, FreshParser, t \o Bytes(r, Len(sent) + 1), Append(sent, r))
      BY <1>1, <3>2, <3>3, <3>4, FreshIs, GoodWritten
    <3>6. Good(TRUE, link.joined, FreshParser, t \o b, sent')
      BY <1>2, <1>3, <3>5
    <3>7. v = t \o b
      <4>1. PICK w : w = t \o b
        OBVIOUS
      <4>2. w \in Stream /\ Tail0(w, up', n)
        BY <1>5, <1>6, <3>2, <4>1, PartsAre
      <4>4. v = w
        BY <2>3, <4>2, TailIsOne
      <4>. QED
        BY <4>1, <4>4
    <3>. QED
      BY <2>2, <3>6, <3>7
  <2>5. CASE n \notin 0..Len(up)
    <3>1. \A k \in 1..Len(v) : v[k].c = End => k = Len(v)
      <4>. SUFFICES ASSUME NEW k \in 1..Len(v), v[k].c = End PROVE k = Len(v)
        OBVIOUS
      <4>1. /\ v[k] = up'[n + k] /\ n + Len(v) = Len(up) + l /\ Len(v) \in Nat
            /\ n \in Nat /\ n > Len(up)
        <5>1. /\ Len(v) \in Nat /\ n \in Nat /\ n + Len(v) = Len(up')
              /\ \A x \in 1..Len(v) : v[x] = up'[n + x]
          BY <2>3 DEF Tail0, Within
        <5>2. n > Len(up)
          BY <2>1, <2>5, <5>1
        <5>. QED
          BY <2>1, <5>1, <5>2
      <4>2. PICK j : j = n + k - Len(up)
        OBVIOUS
      <4>3. j \in 1..l /\ n + k = Len(up) + j
        BY <1>6, <2>1, <4>1, <4>2
      <4>4. v[k] = b[j]
        BY <1>4, <2>1, <4>1, <4>3
      <4>5. j = l
        BY <1>6, <4>3, <4>4
      <4>. QED
        BY <1>6, <2>1, <4>1, <4>3, <4>5
    <3>2. Good(TRUE, link.joined, FreshParser, v, sent')
      BY <2>3, <3>1, FreshIs, GoodLast
    <3>. QED
      BY <2>2, <3>2
  <2>. QED
    BY <2>4, <2>5
<1>11. UpRight'
  BY <1>9, <1>10 DEF UpRight
<1>12. ServerRight'
  <2>. SUFFICES ASSUME ~link.nested PROVE ServerRight'
    BY DEF ServerRight
  <2>1. PICK c : c = Pending
    OBVIOUS
  <2>2. c \in Stream /\ Pending' = c
    BY <1>1, <2>1, PendingIs DEF Pending
  <2>3. /\ \A k \in 1..Len(chunks) : k < Len(chunks) => chunks[k] = <<>>
        /\ ToldRight(told, link.left, link.joined, Len(sent))
        /\ Good(link.left /\ told = <<>>, link.joined, server, c \o up, sent)
        /\ Ordered(told, c \o up, Len(sent))
    BY <2>1 DEF LinkInv, ServerRight
  <2>4. PICK s : s = c \o up
    OBVIOUS
  <2>5. s \in Stream /\ c \o up' = s \o b
    <3>1. c \in Seq(Byte) /\ up \in Seq(Byte) /\ b \in Seq(Byte)
      BY <1>1, <1>6, <2>2 DEF Stream
    <3>2. c \o (up \o b) = (c \o up) \o b
      BY <3>1, JoinedAgain
    <3>. QED
      BY <1>1, <1>5, <2>2, <2>4, <3>2, PartsAre
  <2>6. \A k \in 1..Len(s) : s[k].c = End => s[k].i \in 1..Len(sent)
    BY <2>3, <2>4 DEF Ordered
  <2>7. PICK first : first = (link.left /\ told = <<>>)
    OBVIOUS
  <2>8. Good(first, link.joined, server, s, sent)
    BY <2>3, <2>4, <2>7
  <2>9. Good(first, link.joined, server, s \o Bytes(r, Len(sent) + 1), Append(sent, r))
    BY <1>1, <2>5, <2>6, <2>8, GoodWritten
  <2>10. Ordered(told, s, Len(sent))
    BY <2>3, <2>4
  <2>11. Ordered(told, s \o Bytes(r, Len(sent) + 1), Len(sent) + 1)
    <3>1. \A x \in 1..Len(told) : told[x].i \in 1..Len(sent)
      BY <2>3 DEF ToldRight
    <3>. QED
      BY <1>5, <1>8, <2>5, <2>10, <3>1, OrderedWritten
  <2>12. ToldRight(told, link.left, link.joined, i)
    <3>1. \A x \in 1..Len(told) : told[x].i \in 1..i
      BY <1>2, <1>5, <2>3 DEF ToldRight
    <3>. QED
      BY <2>3, <3>1 DEF ToldRight
  <2>13. Good(first, link.joined, server, c \o up', sent') /\ Ordered(told, c \o up', i)
    BY <1>2, <1>3, <2>5, <2>9, <2>11
  <2>. QED
    BY <1>5, <2>2, <2>3, <2>7, <2>12, <2>13 DEF ServerRight
<1>. QED
  BY <1>1, <1>5, <1>7, <1>8, <1>11, <1>12

LEMMA TailOfTailGood ==
  ASSUME NEW s \in Stream, NEW all, NEW J,
         \A x \in 0..Len(s) : Good(TRUE, J, FreshParser, SubSeq(s, x + 1, Len(s)), all),
         NEW n \in 0..Len(s), NEW r \in Stream, Tail0(r, s, n), NEW k \in 0..Len(r)
  PROVE  Good(TRUE, J, FreshParser, SubSeq(r, k + 1, Len(r)), all)
<1>1. PICK v : v = SubSeq(r, k + 1, Len(r))
  OBVIOUS
<1>2. v \in Stream /\ Tail0(v, r, k)
  BY <1>1, TailIs
<1>3. Len(s) \in Nat /\ n \in Nat
  BY DEF Stream
<1>4. n + k \in 0..Len(s) /\ Tail0(v, s, n + k)
  <2>1. /\ Len(v) \in Nat /\ k \in Nat /\ k + Len(v) = Len(r) /\ n + Len(r) = Len(s)
        /\ \A j \in 1..Len(v) : v[j] = r[k + j]
        /\ \A j \in 1..Len(r) : r[j] = s[n + j]
    BY <1>2 DEF Tail0, Within
  <2>2. n + k \in Nat /\ (n + k) + Len(v) = Len(s) /\ n + k \in 0..Len(s)
    <3>1. PICK x1 : x1 = Len(v)
      OBVIOUS
    <3>2. PICK x2 : x2 = Len(s)
      OBVIOUS
    <3>3. x1 \in Nat /\ x2 \in Nat /\ n + (k + x1) = x2 /\ n \in Nat /\ k \in Nat
      BY <1>3, <2>1, <3>1, <3>2
    <3>4. n + k \in Nat /\ (n + k) + x1 = x2 /\ n + k \in 0..x2
      BY <3>3
    <3>. QED
      BY <3>1, <3>2, <3>4
  <2>3. ASSUME NEW j \in 1..Len(v) PROVE v[j] = s[(n + k) + j]
    <3>1. k + j \in 1..Len(r) /\ n + (k + j) = (n + k) + j
      BY <1>3, <2>1
    <3>. QED
      BY <2>1, <3>1
  <2>. QED
    BY <1>3, <2>1, <2>2, <2>3 DEF Tail0, Within
<1>5. PICK w : w = SubSeq(s, (n + k) + 1, Len(s))
  OBVIOUS
<1>6. w \in Stream /\ Tail0(w, s, n + k)
  BY <1>4, <1>5, TailIs
<1>7. v = w
  BY <1>2, <1>4, <1>6, TailIsOne
<1>8. Good(TRUE, J, FreshParser, w, all)
  BY <1>4, <1>5
<1>. QED
  BY <1>1, <1>7, <1>8

LEMMA ServerReadsInv ==
  ASSUME LinkInv, ServerReads
  PROVE  /\ up' \in Stream /\ server' \in Parsers /\ chunks' \in Seq(Stream)
         /\ told' \in Seq(Told) /\ link' \in LinkRecord /\ link'.harm <= link'.faults
         /\ UpRight' /\ ServerRight'
<1>1. /\ up \in Stream /\ sent \in Seq(Messages) /\ server \in Parsers
      /\ chunks \in Seq(Stream) /\ told \in Seq(Told) /\ link \in LinkRecord
      /\ link.harm <= link.faults /\ sent' = sent /\ Len(sent) \in Nat
  BY DEF LinkInv, LinkTypeOK, ServerReads
<1>2. PICK n \in 1..Len(up) : /\ PushData(chunks, SubSeq(up, 1, n))
                              /\ up' = SubSeq(up, n + 1, Len(up))
  BY DEF ServerReads
<1>3. PICK x : x = (link.nested \/ \E k \in 1..Len(chunks) : chunks[k] # <<>>)
  OBVIOUS
<1>4. x \in BOOLEAN
  BY <1>3
<1>5. link' = [link EXCEPT !.nested = x]
  BY <1>1, <1>3, LinkIs DEF ServerReads
<1>6. /\ link' \in LinkRecord /\ link'.harm <= link'.faults /\ link'.left = link.left
      /\ link'.joined = link.joined
      /\ link'.nested = x
  BY <1>1, <1>4, <1>5 DEF LinkRecord
<1>7. PICK a : a = SubSeq(up, 1, n)
  OBVIOUS
<1>8. PICK r : r = SubSeq(up, n + 1, Len(up))
  OBVIOUS
<1>9. n \in 0..Len(up) /\ n \in Nat /\ Len(up) \in Nat
  BY <1>1, <1>2 DEF Stream
<1>10. a \in Stream /\ Len(a) = n /\ \A k \in 1..n : a[k] = up[k]
  BY <1>1, <1>2, <1>7 DEF Stream
<1>11. r \in Stream /\ Tail0(r, up, n) /\ up' = r
  BY <1>1, <1>2, <1>8, <1>9, TailIs
<1>12. up = a \o r
  <2>1. PICK w : w = a \o r
    OBVIOUS
  <2>2. /\ w \in Stream /\ Len(w) = Len(a) + Len(r) /\ Len(r) \in Nat
        /\ \A k \in 1..Len(a) : w[k] = a[k]
        /\ \A k \in 1..Len(r) : w[Len(a) + k] = r[k]
    <3>1. a \in Seq(Byte) /\ r \in Seq(Byte)
      BY <1>10, <1>11 DEF Stream
    <3>2. /\ a \o r \in Seq(Byte) /\ Len(a \o r) = Len(a) + Len(r) /\ Len(r) \in Nat
          /\ \A k \in 1..Len(a) : (a \o r)[k] = a[k]
          /\ \A k \in 1..Len(r) : (a \o r)[Len(a) + k] = r[k]
      BY <3>1, JoinedIs
    <3>. QED
      BY <2>1, <3>2 DEF Stream
  <2>3. Len(w) = Len(up) /\ \A k \in 1..Len(r) : r[k] = up[n + k]
    BY <1>10, <1>11, <2>2 DEF Tail0, Within
  <2>4. ASSUME NEW k \in 1..Len(up) PROVE up[k] = w[k]
    <3>1. CASE k \in 1..n
      BY <1>10, <2>2, <3>1
    <3>2. CASE k \notin 1..n
      <4>1. PICK j : j = k - n
        OBVIOUS
      <4>2. j \in 1..Len(r) /\ k = n + j
        BY <1>9, <1>10, <2>2, <2>3, <3>2, <4>1
      <4>. QED
        BY <1>10, <2>2, <2>3, <4>2
    <3>. QED
      BY <3>1, <3>2
  <2>5. up = w
    BY <1>1, <2>2, <2>3, <2>4, SeqEqual DEF Stream
  <2>. QED
    BY <2>1, <2>5
<1>13. UpRight'
  <2>1. Ordered(<<>>, up', Len(sent'))
    <3>1. Ordered(<<>>, up, Len(sent)) /\ Within(r, up, n)
      BY <1>11 DEF LinkInv, UpRight, Tail0
    <3>2. Ordered(<<>>, r, Len(sent))
      BY <3>1, OrderedWithin
    <3>. QED
      BY <1>1, <1>11, <3>2
  <2>2. ASSUME NEW k \in 0..Len(r)
        PROVE  Good(TRUE, link.joined, FreshParser, SubSeq(r, k + 1, Len(r)), sent)
    BY <1>1, <1>9, <1>11, TailOfTailGood DEF LinkInv, UpRight
  <2>. QED
    BY <1>1, <1>6, <1>11, <2>1, <2>2 DEF UpRight
<1>14. server' \in Parsers /\ chunks' \in Seq(Stream) /\ told' \in Seq(Told)
  BY <1>1, <1>2, <1>7, <1>10, PushedTypes
<1>15. ServerRight'
  <2>. SUFFICES ASSUME ~x PROVE ServerRight'
    BY <1>6 DEF ServerRight
  <2>1. ~link.nested /\ \A k \in 1..Len(chunks) : chunks[k] = <<>>
    BY <1>3
  <2>2. Pending = <<>>
    BY <1>1, <2>1 DEF Pending, Last
  <2>3. Pending \o up = up
    BY <1>1, <2>2, ConcatEmptySeq DEF Stream
  <2>4. /\ ToldRight(told, link.left, link.joined, Len(sent))
        /\ Good(link.left /\ told = <<>>, link.joined, server, a \o r, sent)
        /\ Ordered(told, a \o r, Len(sent))
    BY <1>12, <2>1, <2>3 DEF LinkInv, ServerRight
  <2>5. PushData(chunks, a)
    BY <1>2, <1>7
  <2>6. PICK y \in Stream :
          /\ (chunks' = chunks /\ y = <<>>) \/ chunks' = Append(chunks, y)
          /\ ToldRight(told', link.left, link.joined, Len(sent))
          /\ Good(link.left /\ told' = <<>>, link.joined, server', y \o r, sent)
          /\ Ordered(told', y \o r, Len(sent))
    BY <1>1, <1>10, <1>11, <2>4, <2>5, Pushed
  <2>7. Pending' = y /\ \A k \in 1..Len(chunks') : k < Len(chunks') => chunks'[k] = <<>>
    <3>1. CASE chunks' = chunks /\ y = <<>>
      BY <2>1, <2>2, <3>1 DEF Pending
    <3>2. CASE chunks' = Append(chunks, y)
      <4>1. /\ Len(chunks') = Len(chunks) + 1 /\ Len(chunks) \in Nat
            /\ chunks'[Len(chunks) + 1] = y /\ chunks' # <<>>
            /\ \A k \in 1..Len(chunks) : chunks'[k] = chunks[k]
        BY <1>1, <3>2, AppendedIs
      <4>2. Pending' = y
        BY <4>1 DEF Pending, Last
      <4>. QED
        BY <2>1, <4>1, <4>2
    <3>. QED
      BY <2>6, <3>1, <3>2
  <2>. QED
    BY <1>1, <1>6, <1>11, <2>6, <2>7 DEF ServerRight
<1>. QED
  BY <1>6, <1>11, <1>13, <1>14, <1>15

LEMMA ReceiverReturnsInv ==
  ASSUME LinkInv, ReceiverReturns
  PROVE  /\ server' \in Parsers /\ chunks' \in Seq(Stream) /\ told' \in Seq(Told)
         /\ UpRight' /\ ServerRight'
<1>1. /\ up \in Stream /\ sent \in Seq(Messages) /\ server \in Parsers
      /\ chunks \in Seq(Stream) /\ told \in Seq(Told) /\ Len(sent) \in Nat
      /\ sent' = sent /\ up' = up /\ link' = link
  BY DEF LinkInv, LinkTypeOK, ReceiverReturns
<1>2. chunks # <<>> /\ PushData(Front(chunks), Last(chunks))
  BY DEF ReceiverReturns
<1>3. PICK f : f = Front(chunks)
  OBVIOUS
<1>4. PICK a : a = Last(chunks)
  OBVIOUS
<1>5. /\ a \in Stream /\ f \in Seq(Stream) /\ Len(f) = Len(chunks) - 1
      /\ Len(chunks) \in Nat /\ \A k \in 1..Len(f) : f[k] = chunks[k]
  <2>1. Len(chunks) \in 1..Len(chunks)
    BY <1>1, <1>2
  <2>2. a \in Stream
    BY <1>1, <1>4, <2>1 DEF Last
  <2>. QED
    <3>1. PICK S : S = Stream
      OBVIOUS
    <3>2. PICK n : n = Len(chunks) - 1
      OBVIOUS
    <3>3. chunks \in Seq(S) /\ n \in 0..Len(chunks) /\ f = SubSeq(chunks, 1, n)
      BY <1>1, <1>3, <2>1, <3>1, <3>2 DEF Front
    <3>4. f \in Seq(S) /\ Len(f) = n /\ \A k \in 1..n : f[k] = chunks[k]
      BY <3>3
    <3>. QED
      BY <1>1, <2>2, <3>1, <3>2, <3>4
<1>6. PushData(f, a)
  BY <1>2, <1>3, <1>4
<1>7. server' \in Parsers /\ chunks' \in Seq(Stream) /\ told' \in Seq(Told)
  BY <1>1, <1>5, <1>6, PushedTypes
<1>8. UpRight'
  BY <1>1 DEF LinkInv, UpRight
<1>9. ServerRight'
  <2>. SUFFICES ASSUME ~link.nested PROVE ServerRight'
    BY <1>1 DEF ServerRight
  <2>1. Pending = a
    BY <1>2, <1>4 DEF Pending
  <2>2. /\ \A k \in 1..Len(chunks) : k < Len(chunks) => chunks[k] = <<>>
        /\ ToldRight(told, link.left, link.joined, Len(sent))
        /\ Good(link.left /\ told = <<>>, link.joined, server, a \o up, sent)
        /\ Ordered(told, a \o up, Len(sent))
    BY <2>1 DEF LinkInv, ServerRight
  <2>3. PICK y \in Stream :
          /\ (chunks' = f /\ y = <<>>) \/ chunks' = Append(f, y)
          /\ ToldRight(told', link.left, link.joined, Len(sent))
          /\ Good(link.left /\ told' = <<>>, link.joined, server', y \o up, sent)
          /\ Ordered(told', y \o up, Len(sent))
    BY <1>1, <1>5, <1>6, <2>2, Pushed
  <2>4. \A k \in 1..Len(f) : f[k] = <<>>
    <3>1. \A k \in 1..Len(f) : k \in 1..Len(chunks) /\ k < Len(chunks)
      BY <1>5
    <3>. QED
      BY <1>5, <2>2, <3>1
  <2>5. Pending' = y /\ \A k \in 1..Len(chunks') : k < Len(chunks') => chunks'[k] = <<>>
    <3>1. CASE chunks' = f /\ y = <<>>
      <4>1. CASE f = <<>>
        BY <2>4, <3>1, <4>1 DEF Pending
      <4>2. CASE f # <<>>
        <5>1. Len(f) \in 1..Len(f)
          BY <1>5, <4>2
        <5>2. Pending' = <<>>
          BY <2>4, <3>1, <4>2, <5>1 DEF Pending, Last
        <5>. QED
          BY <2>4, <3>1, <5>2
      <4>. QED
        BY <4>1, <4>2
    <3>2. CASE chunks' = Append(f, y)
      <4>1. /\ Len(chunks') = Len(f) + 1 /\ Len(f) \in Nat
            /\ chunks'[Len(f) + 1] = y /\ chunks' # <<>>
            /\ \A k \in 1..Len(f) : chunks'[k] = f[k]
        BY <1>5, <3>2, AppendedIs
      <4>2. Pending' = y
        BY <4>1 DEF Pending, Last
      <4>. QED
        BY <2>4, <4>1, <4>2
    <3>. QED
      BY <2>3, <3>1, <3>2
  <2>. QED
    BY <1>1, <2>3, <2>5 DEF ServerRight
<1>. QED
  BY <1>7, <1>8, <1>9
LEMMA PartIs ==
  ASSUME NEW s \in Stream, NEW k \in 0..Len(s)
  PROVE  /\ SubSeq(s, 1, k) \in Stream /\ Len(SubSeq(s, 1, k)) = k
         /\ Within(SubSeq(s, 1, k), s, 0)
<1>1. PICK c : c = SubSeq(s, 1, k)
  OBVIOUS
<1>2. c \in Stream /\ Len(c) = k /\ \A j \in 1..k : c[j] = s[j]
  BY <1>1 DEF Stream
<1>3. Len(s) \in Nat /\ k \in Nat /\ k <= Len(s)
  BY DEF Stream
<1>. QED
  BY <1>1, <1>2, <1>3 DEF Within

(* What a first part, or a last part, of bytes is. *)
LEMMA WithinIs ==
  ASSUME NEW x, NEW u, NEW n \in Nat, NEW l \in Nat, NEW lu \in Nat,
         l = Len(x), lu = Len(u), n + l <= lu, \A j \in 1..l : x[j] = u[n + j]
  PROVE  Within(x, u, n) /\ (n + l = lu => Tail0(x, u, n))
<1>1. Len(x) \in Nat /\ Len(u) \in Nat /\ n \in Nat /\ n + Len(x) <= Len(u)
  OBVIOUS
<1>2. \A j \in 1..Len(x) : x[j] = u[n + j]
  OBVIOUS
<1>3. Within(x, u, n)
  BY <1>1, <1>2, Zenon DEF Within
<1>. QED
  BY <1>3, Zenon DEF Tail0

(* The device starts again: the stream to the server is cut. *)
LEMMA PartRight ==
  ASSUME NEW s \in Stream, NEW all, NEW k \in 0..Len(s), Ordered(<<>>, s, Len(all)), NEW J,
         \A n \in 0..Len(s) : Good(TRUE, J, FreshParser, SubSeq(s, n + 1, Len(s)), all),
         NEW u, u = SubSeq(s, 1, k), NEW K, K = J \cup {Len(all) + 1}
  PROVE  /\ u \in Stream
         /\ Ordered(<<>>, u, Len(all))
         /\ \A n \in 0..Len(u) : Good(TRUE, K, FreshParser, SubSeq(u, n + 1, Len(u)), all)
<1>1. u \in Stream /\ Len(u) = k /\ Within(u, s, 0) /\ k \in Nat /\ Len(s) \in Nat
  BY PartIs DEF Stream
<1>2. Ordered(<<>>, u, Len(all))
  BY <1>1, OrderedWithin
<1>3. ASSUME NEW n \in 0..Len(u)
      PROVE  Good(TRUE, K, FreshParser, SubSeq(u, n + 1, Len(u)), all)
  <2>1. PICK t, w : t = SubSeq(u, n + 1, Len(u)) /\ w = SubSeq(s, n + 1, Len(s))
    OBVIOUS
  <2>2. n \in 0..Len(s)
    BY <1>1
  <2>3. /\ t \in Stream /\ Tail0(t, u, n)
        /\ w \in Stream /\ Tail0(w, s, n) /\ Good(TRUE, J, FreshParser, w, all)
    BY <1>1, <2>1, <2>2, TailIs
  <2>4. PICK lt, lw : lt = Len(t) /\ lw = Len(w)
    OBVIOUS
  <2>5. /\ lt \in Nat /\ n \in Nat /\ n + lt = k /\ lw \in Nat /\ n + lw = Len(s)
        /\ \A j \in 1..lt : t[j] = u[n + j]
        /\ \A j \in 1..lw : w[j] = s[n + j]
    BY <1>1, <2>3, <2>4 DEF Tail0, Within
  <2>6. lt <= lw
    BY <1>1, <2>5
  <2>7. ASSUME NEW j \in 1..lt PROVE t[j] = w[j]
    <3>1. n + j \in 1..k /\ j \in 1..lw
      BY <1>1, <2>5, <2>6
    <3>2. u[n + j] = s[n + j]
      BY <1>1, <3>1 DEF Within
    <3>. QED
      BY <2>5, <3>1, <3>2
  <2>8. Within(t, w, 0)
    <3>1. 0 + lt <= lw /\ 0 \in Nat /\ \A j \in 1..lt : t[j] = w[0 + j]
      BY <2>5, <2>6, <2>7
    <3>. QED
      BY <2>4, <2>5, <3>1, WithinIs
  <2>. QED
    BY <2>1, <2>3, <2>8, FreshIs, GoodPart
<1>. QED
  BY <1>1, <1>2, <1>3

(* It writes a zero byte. *)
LEMMA CutRight ==
  ASSUME NEW s \in Stream, NEW all, Len(all) \in Nat, Ordered(<<>>, s, Len(all)), NEW J,
         \A n \in 0..Len(s) : Good(TRUE, J, FreshParser, SubSeq(s, n + 1, Len(s)), all),
         NEW u, u = Append(s, ZeroByte), NEW K, J \subseteq K \cup {Len(all) + 1}
  PROVE  /\ u \in Stream
         /\ Ordered(<<>>, u, Len(all))
         /\ \A n \in 0..Len(u) : Good(TRUE, K, FreshParser, SubSeq(u, n + 1, Len(u)), all)
<1>1. PICK k : k = Len(s)
  OBVIOUS
<1>2. /\ k \in Nat /\ u \in Stream /\ Len(u) = k + 1 /\ u[k + 1] = ZeroByte
      /\ \A j \in 1..k : u[j] = s[j]
  <2>1. s \in Seq(Byte) /\ ZeroByte \in Byte
    BY ZeroByteIs DEF Stream
  <2>. QED
    BY <1>1, <2>1, AppendedIs DEF Stream
<1>3. Ordered(<<>>, u, Len(all))
  BY OrderedCut
<1>4. ASSUME NEW n \in 0..Len(u)
      PROVE  Good(TRUE, K, FreshParser, SubSeq(u, n + 1, Len(u)), all)
  <2>1. PICK v : v = SubSeq(u, n + 1, Len(u))
    OBVIOUS
  <2>2. v \in Stream /\ Tail0(v, u, n)
    BY <1>2, <2>1, TailIs
  <2>3. CASE n \in 0..k
    <3>1. PICK t : t = SubSeq(s, n + 1, Len(s))
      OBVIOUS
    <3>2. t \in Stream /\ Tail0(t, s, n) /\ Good(TRUE, J, FreshParser, t, all)
      BY <1>1, <2>3, <3>1, TailIs
    <3>3. PICK lt : lt = Len(t)
      OBVIOUS
    <3>4. /\ lt \in Nat /\ n \in Nat /\ n + lt = k
          /\ \A j \in 1..lt : t[j] = s[n + j]
      BY <1>1, <3>2, <3>3 DEF Tail0, Within
    <3>5. Within(t, t, 0)
      BY <3>2, <3>3, <3>4 DEF Within, Stream
    <3>6. \A j \in EndsOf(FreshParser, t) : t[j].i # Len(all) + 1
      <4>1. Ordered(<<>>, t, Len(all))
        BY <3>2, OrderedWithin DEF Tail0
      <4>. QED
        BY <4>1 DEF Ordered, EndsOf, MessageEnds
    <3>7. Good(TRUE, K, FreshParser, Append(t, ZeroByte), all)
      BY <3>2, <3>5, <3>6, FreshIs, GoodCut
    <3>8. v = Append(t, ZeroByte)
      <4>1. PICK x : x = Append(t, ZeroByte)
        OBVIOUS
      <4>2. /\ x \in Stream /\ Len(x) = lt + 1 /\ x[lt + 1] = ZeroByte
            /\ \A j \in 1..lt : x[j] = t[j]
        <5>1. t \in Seq(Byte) /\ ZeroByte \in Byte
          BY <3>2, ZeroByteIs DEF Stream
        <5>. QED
          BY <3>3, <4>1, <5>1, AppendedIs DEF Stream
      <4>3. ASSUME NEW j \in 1..Len(x) PROVE x[j] = u[n + j]
        <5>1. CASE j \in 1..lt
          <6>1. n + j \in 1..k
            BY <3>4, <5>1
          <6>. QED
            BY <1>2, <3>4, <4>2, <5>1, <6>1
        <5>2. CASE j \notin 1..lt
          <6>1. j = lt + 1 /\ n + j = k + 1
            BY <3>4, <4>2, <5>2
          <6>. QED
            BY <1>2, <4>2, <6>1
        <5>. QED
          BY <5>1, <5>2
      <4>4. PICK lx, lu : lx = Len(x) /\ lu = Len(u)
        OBVIOUS
      <4>5. lx \in Nat /\ lu \in Nat /\ n + lx = lu
        BY <1>2, <3>4, <4>2, <4>4
      <4>6. n \in Nat /\ n + lx <= lu /\ \A j \in 1..lx : x[j] = u[n + j]
        BY <3>4, <4>3, <4>4, <4>5
      <4>7. Tail0(x, u, n)
        BY <4>4, <4>5, <4>6, WithinIs
      <4>. QED
        BY <2>2, <4>1, <4>2, <4>7, TailIsOne
    <3>. QED
      BY <2>1, <3>7, <3>8
  <2>4. CASE n \notin 0..k
    <3>1. Len(v) \in Nat /\ n + Len(v) = k + 1 /\ n \in Nat /\ n <= k + 1
      BY <1>2, <2>2 DEF Tail0, Within
    <3>2. Len(v) = 0
      BY <1>2, <2>4, <3>1
    <3>3. v = <<>>
      BY <2>2, <3>2, EmptySeq DEF Stream
    <3>. QED
      BY <2>1, <3>3, EmptyGood
  <2>. QED
    BY <2>3, <2>4
<1>. QED
  BY <1>2, <1>3, <1>4

LEMMA DeviceRestartsInv ==
  ASSUME LinkInv, DeviceRestarts
  PROVE  /\ up' \in Stream /\ down' \in Stream /\ link' \in LinkRecord
         /\ link'.harm <= link'.faults
         /\ UpRight' /\ ServerRight'
<1>1. /\ up \in Stream /\ sent \in Seq(Messages) /\ server \in Parsers
      /\ chunks \in Seq(Stream) /\ told \in Seq(Told) /\ Len(sent) \in Nat
      /\ link \in LinkRecord /\ link.harm <= link.faults /\ down \in Stream
      /\ sent' = sent /\ server' = server /\ chunks' = chunks /\ told' = told
  BY DEF LinkInv, LinkTypeOK, DeviceRestarts
<1>2. PICK k \in 0..Len(up) : up' = SubSeq(up, 1, k)
  BY DEF DeviceRestarts
<1>3. link' = [link EXCEPT !.restarted = TRUE, !.joined = @ \cup {Len(sent) + 1},
                           !.faults = @ + 1, !.harm = @ + 1]
      /\ link.faults < MaxFaults
  BY DEF DeviceRestarts
<1>4. /\ link' \in LinkRecord /\ link'.harm <= link'.faults
      /\ link'.nested = link.nested /\ link'.left = link.left
      /\ link'.joined = link.joined \cup {Len(sent) + 1}
  <2>1. PICK f : f = link.faults + 1
    OBVIOUS
  <2>2. PICK h : h = link.harm + 1
    OBVIOUS
  <2>3. f \in 0..MaxFaults /\ h \in 0..MaxFaults /\ h <= f
    BY <1>1, <1>3, <2>1, <2>2, LinkIs
  <2>4. PICK J : J = link.joined \cup {Len(sent) + 1}
    OBVIOUS
  <2>5. J \in SUBSET Nat
    BY <1>1, <2>4, LinkIs
  <2>6. link' = [link EXCEPT !.restarted = TRUE, !.joined = J, !.faults = f, !.harm = h]
    BY <1>3, <2>1, <2>2, <2>4
  <2>. QED
    BY <1>1, <2>3, <2>4, <2>5, <2>6 DEF LinkRecord
<1>5. /\ Ordered(<<>>, up, Len(sent))
      /\ \A n \in 0..Len(up) : Good(TRUE, link.joined, FreshParser, SubSeq(up, n + 1, Len(up)), sent)
  BY DEF LinkInv, UpRight
<1>6. PICK u, J : u = SubSeq(up, 1, k) /\ J = link.joined \cup {Len(sent) + 1}
  OBVIOUS
<1>7. /\ u \in Stream
      /\ Ordered(<<>>, u, Len(sent))
      /\ \A n \in 0..Len(u) : Good(TRUE, J, FreshParser, SubSeq(u, n + 1, Len(u)), sent)
  BY <1>1, <1>5, <1>6, PartRight
<1>8. UpRight' /\ up' \in Stream
  BY <1>1, <1>2, <1>4, <1>6, <1>7 DEF UpRight
<1>9. down' \in Stream
  <2>1. PICK j \in 1..(Len(down) + 1) : down' = SubSeq(down, j, Len(down))
    BY DEF DeviceRestarts
  <2>2. PICK i : i = j - 1
    OBVIOUS
  <2>3. i \in 0..Len(down) /\ j = i + 1
    BY <1>1, <2>2 DEF Stream
  <2>. QED
    BY <1>1, <2>1, <2>3, TailIs
<1>10. ServerRight'
  <2>. SUFFICES ASSUME ~link.nested PROVE ServerRight'
    BY <1>4 DEF ServerRight
  <2>1. PICK c : c = Pending
    OBVIOUS
  <2>2. c \in Stream /\ Pending' = c
    BY <1>1, <2>1, PendingIs DEF Pending
  <2>3. /\ \A x \in 1..Len(chunks) : x < Len(chunks) => chunks[x] = <<>>
        /\ ToldRight(told, link.left, link.joined, Len(sent))
        /\ Good(link.left /\ told = <<>>, link.joined, server, c \o up, sent)
        /\ Ordered(told, c \o up, Len(sent))
    BY <2>1 DEF LinkInv, ServerRight
  <2>4. PICK s : s = c \o up
    OBVIOUS
  <2>5. PICK p : p = SubSeq(up, 1, k)
    OBVIOUS
  <2>6. p \in Stream /\ Within(p, up, 0) /\ Len(p) = k
    BY <1>1, <2>5, PartIs
  <2>7. PICK t : t = c \o p
    OBVIOUS
  <2>8. s \in Stream /\ t \in Stream
    BY <1>1, <2>2, <2>4, <2>6, <2>7, PartsAre
  <2>9. Within(t, s, 0)
    <3>1. c \in Seq(Byte) /\ up \in Seq(Byte) /\ p \in Seq(Byte)
      BY <1>1, <2>2, <2>6 DEF Stream
    <3>2. /\ Len(s) = Len(c) + Len(up) /\ Len(c) \in Nat /\ Len(up) \in Nat
          /\ \A n \in 1..Len(c) : s[n] = c[n]
          /\ \A n \in 1..Len(up) : s[Len(c) + n] = up[n]
      BY <2>4, <3>1, JoinedIs
    <3>3. /\ Len(t) = Len(c) + Len(p) /\ Len(p) \in Nat
          /\ \A n \in 1..Len(c) : t[n] = c[n]
          /\ \A n \in 1..Len(p) : t[Len(c) + n] = p[n]
      BY <2>7, <3>1, JoinedIs
    <3>4. Len(t) \in Nat /\ Len(s) \in Nat /\ Len(t) <= Len(s)
      BY <2>6, <3>2, <3>3
    <3>5. ASSUME NEW n \in 1..Len(t) PROVE t[n] = s[n]
      <4>1. CASE n \in 1..Len(c)
        BY <3>2, <3>3, <4>1
      <4>2. CASE n \notin 1..Len(c)
        <5>1. PICK j : j = n - Len(c)
          OBVIOUS
        <5>2. j \in 1..Len(p) /\ j \in 1..Len(up) /\ n = Len(c) + j
          BY <2>6, <3>2, <3>3, <4>2, <5>1
        <5>3. p[j] = up[j]
          BY <2>6, <5>2 DEF Within
        <5>. QED
          BY <3>2, <3>3, <5>2, <5>3
      <4>. QED
        BY <4>1, <4>2
    <3>. QED
      BY <3>4, <3>5 DEF Within
  <2>10. PICK first : first = (link.left /\ told = <<>>)
    OBVIOUS
  <2>11. Good(first, link.joined, server, s, sent) /\ Ordered(told, s, Len(sent))
    BY <2>3, <2>4, <2>10
  <2>12. Good(first, J, server, t, sent)
    BY <1>1, <1>6, <2>8, <2>9, <2>11, GoodPart
  <2>13. Ordered(told, t, Len(sent))
    BY <2>9, <2>11, OrderedWithin
  <2>14. ToldRight(told, link.left, J, Len(sent))
    BY <1>6, <2>3 DEF ToldRight
  <2>15. c \o up' = t
    BY <1>2, <2>5, <2>7
  <2>. QED
    BY <1>1, <1>4, <1>6, <2>2, <2>3, <2>10, <2>12, <2>13, <2>14, <2>15 DEF ServerRight
<1>. QED
  BY <1>4, <1>8, <1>9, <1>10

LEMMA SetupEndsInv ==
  ASSUME LinkInv, SetupEnds
  PROVE  /\ up' \in Stream /\ link' \in LinkRecord /\ link'.harm <= link'.faults
         /\ UpRight' /\ ServerRight'
<1>1. /\ up \in Stream /\ sent \in Seq(Messages) /\ server \in Parsers
      /\ chunks \in Seq(Stream) /\ told \in Seq(Told) /\ Len(sent) \in Nat
      /\ link \in LinkRecord /\ link.harm <= link.faults
      /\ sent' = sent /\ server' = server /\ chunks' = chunks /\ told' = told
  BY DEF LinkInv, LinkTypeOK, SetupEnds
<1>2. CASE UNCHANGED <<up, link>>
  BY <1>1, <1>2 DEF LinkInv, UpRight, ServerRight, Pending
<1>3. CASE /\ up' = Append(up, ZeroByte)
           /\ link' = [link EXCEPT !.joined = @ \ {Len(sent) + 1}]
  <2>1. PICK u, J, K : /\ u = Append(up, ZeroByte) /\ J = link.joined
                       /\ K = link.joined \ {Len(sent) + 1}
    OBVIOUS
  <2>2. K \in SUBSET Nat /\ link' = [link EXCEPT !.joined = K] /\ J \subseteq K \cup {Len(sent) + 1}
    BY <1>1, <1>3, <2>1, LinkIs
  <2>3. /\ link' \in LinkRecord /\ link'.harm <= link'.faults /\ link'.joined = K
        /\ link'.nested = link.nested /\ link'.left = link.left
    BY <1>1, <2>2 DEF LinkRecord
  <2>4. /\ Ordered(<<>>, up, Len(sent))
        /\ \A n \in 0..Len(up) : Good(TRUE, J, FreshParser, SubSeq(up, n + 1, Len(up)), sent)
    BY <2>1 DEF LinkInv, UpRight
  <2>5. /\ u \in Stream
        /\ Ordered(<<>>, u, Len(sent))
        /\ \A n \in 0..Len(u) : Good(TRUE, K, FreshParser, SubSeq(u, n + 1, Len(u)), sent)
    BY <1>1, <2>1, <2>2, <2>4, CutRight
  <2>6. UpRight' /\ up' \in Stream
    BY <1>1, <1>3, <2>1, <2>3, <2>5 DEF UpRight
  <2>7. ServerRight'
    <3>. SUFFICES ASSUME ~link.nested PROVE ServerRight'
      BY <2>3 DEF ServerRight
    <3>1. PICK c : c = Pending
      OBVIOUS
    <3>2. c \in Stream /\ Pending' = c
      BY <1>1, <3>1, PendingIs DEF Pending
    <3>3. PICK first : first = (link.left /\ told = <<>>)
      OBVIOUS
    <3>4. PICK s : s = c \o up
      OBVIOUS
    <3>5. /\ \A x \in 1..Len(chunks) : x < Len(chunks) => chunks[x] = <<>>
          /\ ToldRight(told, link.left, J, Len(sent))
          /\ Good(first, J, server, s, sent)
          /\ Ordered(told, s, Len(sent))
      BY <2>1, <3>1, <3>3, <3>4 DEF LinkInv, ServerRight
    <3>6. s \in Stream
      BY <1>1, <3>2, <3>4, PartsAre
    <3>7. Within(s, s, 0)
      BY <3>6 DEF Within, Stream
    <3>8. \A k \in EndsOf(server, s) : s[k].i # Len(sent) + 1
      BY <1>1, <3>5 DEF Ordered, EndsOf, MessageEnds
    <3>9. Good(first, K, server, Append(s, ZeroByte), sent)
      BY <1>1, <2>2, <3>5, <3>6, <3>7, <3>8, GoodCut
    <3>10. Ordered(told, Append(s, ZeroByte), Len(sent))
      BY <3>5, <3>6, OrderedCut
    <3>11. ToldRight(told, link.left, K, Len(sent))
      <4>1. \A k \in 1..Len(told) : told[k].i \in J => told[k].i \in K
        BY <1>1, <2>2, <3>5 DEF ToldRight
      <4>. QED
        BY <3>5, <4>1 DEF ToldRight
    <3>12. c \o up' = Append(s, ZeroByte)
      <4>1. PICK b : b = ZeroByte
        OBVIOUS
      <4>2. c \in Seq(Byte) /\ up \in Seq(Byte) /\ b \in Byte
        BY <1>1, <3>2, <4>1, ZeroByteIs DEF Stream
      <4>3. c \o Append(up, b) = Append(c \o up, b)
        BY <4>2
      <4>. QED
        BY <1>3, <3>4, <4>1, <4>3
    <3>. QED
      BY <1>1, <2>3, <3>2, <3>3, <3>5, <3>9, <3>10, <3>11, <3>12 DEF ServerRight
  <2>. QED
    BY <2>3, <2>6, <2>7
<1>. QED
  BY <1>2, <1>3 DEF SetupEnds

LEMMA ConnectsTypes ==
  ASSUME link \in LinkRecord, link.harm <= link.faults, NEW left \in BOOLEAN,
         NEW harm \in 0..1, Len(written) \in Nat, Connects(left, harm)
  PROVE  /\ link' \in LinkRecord /\ link'.harm <= link'.faults
         /\ link'.left = left /\ ~link'.nested
         /\ link'.joined = (IF left THEN link.joined ELSE {})
<1>1. PICK f : f = link.faults + 1
  OBVIOUS
<1>2. PICK h : h = link.harm + harm
  OBVIOUS
<1>3. PICK n : n = Len(written) + 1
  OBVIOUS
<1>4. PICK J : J = (IF left THEN link.joined ELSE {})
  OBVIOUS
<1>5. link' = [from |-> n, left |-> left, nested |-> FALSE, restarted |-> FALSE,
               joined |-> J, faults |-> f, harm |-> h]
      /\ link.faults < MaxFaults
  BY <1>1, <1>2, <1>3, <1>4 DEF Connects
<1>6. f \in 0..MaxFaults /\ h \in 0..MaxFaults /\ h <= f /\ n \in Nat \ {0}
      /\ J \in SUBSET Nat
  BY <1>1, <1>2, <1>3, <1>4, <1>5, LinkIs
<1>. QED
  BY <1>4, <1>5, <1>6 DEF LinkRecord

LEMMA FreshToldRight ==
  ASSUME NEW left, NEW J, NEW n
  PROVE  ToldRight(<<>>, left, J, n) /\ <<>> \in Seq(Told)
<1>1. Len(<<>>) = 0 /\ 1..0 = {} /\ <<>> \in Seq(Told)
  OBVIOUS
<1>. QED
  BY <1>1 DEF ToldRight

LEMMA PortOpenedAgainInv ==
  ASSUME LinkInv, PortOpenedAgain
  PROVE  /\ up' \in Stream /\ down' \in Stream /\ server' \in Parsers
         /\ chunks' \in Seq(Stream) /\ told' \in Seq(Told)
         /\ link' \in LinkRecord /\ link'.harm <= link'.faults
         /\ UpRight' /\ ServerRight'
<1>1. /\ up \in Stream /\ down \in Stream /\ sent \in Seq(Messages) /\ Len(sent) \in Nat
      /\ written \in Seq(Messages) /\ Len(written) \in Nat
      /\ link \in LinkRecord /\ link.harm <= link.faults
  BY DEF LinkInv, LinkTypeOK
<1>2. /\ sent' = sent /\ server' = FreshParser /\ chunks' = <<>> /\ told' = <<>>
      /\ Connects(up' # <<>>, 1)
  BY DEF PortOpenedAgain, Connects
<1>3. down' \in Stream
  <2>1. PICK k \in 0..Len(down) : down' = SubSeq(down, 1, k)
    BY DEF PortOpenedAgain
  <2>. QED
    BY <1>1, <2>1, PartIs
<1>4. PICK n \in 0..Len(up) : up' = SubSeq(up, n + 1, Len(up))
  <2>1. PICK j \in 1..(Len(up) + 1) : up' = SubSeq(up, j, Len(up))
    BY DEF PortOpenedAgain
  <2>2. PICK i : i = j - 1
    OBVIOUS
  <2>3. i \in 0..Len(up) /\ j = i + 1
    BY <1>1, <2>2 DEF Stream
  <2>. QED
    BY <2>1, <2>3
<1>5. PICK u : u = SubSeq(up, n + 1, Len(up))
  OBVIOUS
<1>6. u \in Stream /\ Tail0(u, up, n) /\ Within(u, up, n)
  BY <1>1, <1>5, TailIs DEF Tail0
<1>7. PICK left, J : left = (u # <<>>) /\ J = (IF left THEN link.joined ELSE {})
  OBVIOUS
<1>8. /\ link' \in LinkRecord /\ link'.harm <= link'.faults
      /\ link'.left = left /\ ~link'.nested
      /\ link'.joined = J
  <2>1. left \in BOOLEAN /\ 1 \in 0..1 /\ Connects(left, 1)
    BY <1>2, <1>4, <1>5, <1>7
  <2>. QED
    BY <1>1, <1>7, <2>1, ConnectsTypes
<1>9. Ordered(<<>>, u, Len(sent))
  BY <1>6, OrderedWithin DEF LinkInv, UpRight
<1>10. ASSUME NEW k \in 0..Len(u)
       PROVE  Good(TRUE, J, FreshParser, SubSeq(u, k + 1, Len(u)), sent)
  <2>1. Good(TRUE, link.joined, FreshParser, SubSeq(u, k + 1, Len(u)), sent)
    BY <1>1, <1>6, TailOfTailGood DEF LinkInv, UpRight
  <2>2. CASE left
    BY <1>7, <2>1, <2>2
  <2>3. CASE ~left
    <3>4. u = <<>>
      BY <1>7, <2>3
    <3>5. Len(<<>>) = 0 /\ 0..0 = {0}
      OBVIOUS
    <3>1. u = <<>> /\ Len(<<>>) = 0 /\ 0..0 = {0}
      BY <3>4, <3>5
    <3>2. k = 0 /\ SubSeq(u, k + 1, Len(u)) = SubSeq(<<>>, 1, 0)
      BY <3>1
    <3>3. SubSeq(<<>>, 1, 0) = <<>>
      OBVIOUS
    <3>. QED
      BY <3>2, <3>3, EmptyGood
  <2>. QED
    BY <2>2, <2>3
<1>11. UpRight'
  BY <1>2, <1>4, <1>5, <1>8, <1>9, <1>10 DEF UpRight
<1>12. Good(left, J, FreshParser, u, sent)
  <2>1. CASE u = <<>>
    BY <2>1, EmptyGood
  <2>2. CASE u # <<>>
    <3>1. Good(TRUE, link.joined, FreshParser, u, sent)
      BY <1>5 DEF LinkInv, UpRight
    <3>2. left = TRUE /\ J = link.joined
      BY <1>7, <2>2
    <3>. QED
      BY <3>1, <3>2
  <2>. QED
    BY <2>1, <2>2
<1>13. ServerRight'
  <2>1. Pending' = <<>> /\ Pending' \o up' = u
    BY <1>2, <1>4, <1>5, <1>6, ConcatEmptySeq DEF Pending, Stream
  <2>2. ToldRight(told', link'.left, J, Len(sent'))
    BY <1>2, FreshToldRight
  <2>3. (link'.left /\ told' = <<>>) = left
    BY <1>2, <1>7, <1>8
  <2>4. \A k \in 1..Len(chunks') : k < Len(chunks') => chunks'[k] = <<>>
    <3>1. Len(<<>>) = 0 /\ 1..0 = {}
      OBVIOUS
    <3>. QED
      BY <1>2, <3>1
  <2>. QED
    BY <1>2, <1>8, <1>9, <1>12, <2>1, <2>2, <2>3, <2>4 DEF ServerRight
<1>14. chunks' \in Seq(Stream) /\ told' \in Seq(Told)
  BY <1>2, FreshToldRight
<1>. QED
  BY <1>2, <1>3, <1>4, <1>5, <1>6, <1>8, <1>11, <1>13, <1>14, FreshIs

LEMMA SocketOpenedAgainInv ==
  ASSUME LinkInv, SocketOpenedAgain
  PROVE  /\ up' \in Stream /\ down' \in Stream /\ server' \in Parsers
         /\ chunks' \in Seq(Stream) /\ told' \in Seq(Told)
         /\ device' \in Buffers
         /\ link' \in LinkRecord /\ link'.harm <= link'.faults
         /\ UpRight' /\ ServerRight'
<1>1. /\ device \in Buffers /\ sent \in Seq(Messages) /\ Len(sent) \in Nat
      /\ written \in Seq(Messages) /\ Len(written) \in Nat
      /\ link \in LinkRecord /\ link.harm <= link.faults
  BY DEF LinkInv, LinkTypeOK
<1>2. /\ sent' = sent /\ server' = FreshParser /\ chunks' = <<>> /\ told' = <<>>
      /\ Connects(FALSE, 0) /\ down' = <<>> /\ up' = <<ZeroByte>>
      /\ device' = ResetBuffer(device)
  BY DEF SocketOpenedAgain, Connects
<1>3. device' \in Buffers
  <2>1. <<>> \in Stream /\ <<>> \in Seq(Nat \ {0})
    BY DEF Stream
  <2>. QED
    BY <1>1, <1>2, <2>1 DEF ResetBuffer, Buffers
<1>4. /\ link' \in LinkRecord /\ link'.harm <= link'.faults
      /\ ~link'.left /\ ~link'.nested /\ link'.joined = {}
  <2>1. FALSE \in BOOLEAN /\ 0 \in 0..1
    OBVIOUS
  <2>2. PICK left : left = FALSE
    OBVIOUS
  <2>3. left \in BOOLEAN /\ Connects(left, 0)
    BY <1>2, <2>2
  <2>4. /\ link' \in LinkRecord /\ link'.harm <= link'.faults
        /\ link'.left = left /\ ~link'.nested
        /\ link'.joined = (IF left THEN link.joined ELSE {})
    BY <1>1, <2>1, <2>3, ConnectsTypes
  <2>. QED
    BY <2>2, <2>4
<1>5. Len(<<>>) = 0 /\ 1..0 = {} /\ 0 \in 0..0 /\ <<>> \in Stream /\ 0..0 = {0}
  BY DEF Stream
<1>6. PICK u : u = <<ZeroByte>>
  OBVIOUS
<1>7. PICK s : s = <<>>
  OBVIOUS
<1>8. /\ Ordered(<<>>, s, Len(sent))
      /\ \A n \in 0..Len(s) : Good(TRUE, {}, FreshParser, SubSeq(s, n + 1, Len(s)), sent)
  <2>1. Ordered(<<>>, <<>>, Len(sent))
    BY <1>5 DEF Ordered
  <2>2. SubSeq(<<>>, 0 + 1, 0) = <<>>
    OBVIOUS
  <2>. QED
    BY <1>5, <1>7, <2>1, <2>2, EmptyGood
<1>9. /\ u \in Stream
      /\ Ordered(<<>>, u, Len(sent))
      /\ \A n \in 0..Len(u) : Good(TRUE, {}, FreshParser, SubSeq(u, n + 1, Len(u)), sent)
  <2>1. PICK b : b = ZeroByte
    OBVIOUS
  <2>2. Append(s, b) = <<b>> /\ s \in Stream
    BY <1>5, <1>7
  <2>3. PICK none : none = {}
    OBVIOUS
  <2>4. u = Append(s, ZeroByte) /\ none \subseteq none \cup {Len(sent) + 1}
    BY <1>6, <2>1, <2>2
  <2>5. \A n \in 0..Len(s) : Good(TRUE, none, FreshParser, SubSeq(s, n + 1, Len(s)), sent)
    BY <1>8, <2>3
  <2>6. /\ u \in Stream
        /\ Ordered(<<>>, u, Len(sent))
        /\ \A n \in 0..Len(u) : Good(TRUE, none, FreshParser, SubSeq(u, n + 1, Len(u)), sent)
    BY <1>1, <1>8, <2>2, <2>4, <2>5, CutRight
  <2>. QED
    BY <2>3, <2>6
<1>10. UpRight' /\ up' \in Stream
  BY <1>2, <1>4, <1>6, <1>9 DEF UpRight
<1>11. Good(FALSE, {}, FreshParser, u, sent)
  <2>1. Within(<<>>, <<>>, 0)
    BY <1>5 DEF Within
  <2>2. Good(FALSE, {}, FreshParser, <<>>, sent)
    BY EmptyGood
  <2>3. Good(FALSE, {}, FreshParser, Append(<<>>, ZeroByte), sent)
    <3>1. EndsOf(FreshParser, <<>>) = {} /\ {} \subseteq {} \cup {0}
      BY <1>5 DEF EndsOf, MessageEnds
    <3>. QED
      BY <1>5, <2>1, <2>2, <3>1, FreshIs, GoodCut
  <2>4. PICK b : b = ZeroByte
    OBVIOUS
  <2>5. Append(<<>>, b) = <<b>>
    OBVIOUS
  <2>. QED
    BY <1>6, <2>3, <2>4, <2>5
<1>12. ServerRight'
  <2>1. Pending' = <<>> /\ Pending' \o up' = u
    BY <1>2, <1>6, <1>9, ConcatEmptySeq DEF Pending, Stream
  <2>2. ToldRight(told', link'.left, {}, Len(sent'))
    BY <1>2, FreshToldRight
  <2>3. (link'.left /\ told' = <<>>) = FALSE
    BY <1>4
  <2>4. \A k \in 1..Len(chunks') : k < Len(chunks') => chunks'[k] = <<>>
    BY <1>2, <1>5
  <2>. QED
    BY <1>2, <1>4, <1>9, <1>11, <2>1, <2>2, <2>3, <2>4 DEF ServerRight
<1>13. chunks' \in Seq(Stream) /\ told' \in Seq(Told) /\ down' \in Stream
  BY <1>2, <1>5, FreshToldRight
<1>. QED
  BY <1>2, <1>3, <1>4, <1>10, <1>12, <1>13, FreshIs
LEMMA ServerWritesInv ==
  ASSUME LinkInv, ServerWrites
  PROVE  /\ down' \in Stream /\ written' \in Seq(Messages)
         /\ heard' \in Seq(0..Len(written'))
<1>1. /\ down \in Stream /\ written \in Seq(Messages) /\ Len(written) \in Nat
      /\ heard \in Seq(0..Len(written)) /\ heard' = heard
  BY DEF LinkInv, LinkTypeOK, ServerWrites
<1>2. PICK i : i = Len(written) + 1
  OBVIOUS
<1>3. i \in 1..9 /\ i \in Nat
  <2>1. PICK n : n = Len(written)
    OBVIOUS
  <2>2. n < MaxWritten
    BY <2>1 DEF ServerWrites
  <2>3. MaxWritten \in Nat /\ MaxWritten <= 9
    BY LinkAssumption DEF LinkAssumption
  <2>4. n \in Nat /\ i = n + 1
    BY <1>1, <1>2, <2>1
  <2>. QED
    BY <2>2, <2>3, <2>4
<1>4. PICK m \in Requests(<<Digit[i]>>) :
        written' = Append(written, m) /\ down' = down \o Bytes(m, i)
  BY <1>2 DEF ServerWrites
<1>5. m \in Messages
  BY <1>3, RequestType
<1>6. PICK b : b = Bytes(m, i)
  OBVIOUS
<1>7. b \in Stream
  <2>1. PICK l : l = Len(b)
    OBVIOUS
  <2>. QED
    BY <1>3, <1>5, <1>6, <2>1, BytesAre
<1>8. down' \in Stream
  BY <1>1, <1>4, <1>6, <1>7, PartsAre
<1>9. written' \in Seq(Messages) /\ Len(written') = Len(written) + 1
  BY <1>1, <1>4, <1>5, AppendedIs
<1>10. heard' \in Seq(0..Len(written'))
  BY <1>1, <1>9, FewerIs
<1>. QED
  BY <1>8, <1>9, <1>10

LEMMA DeviceWritesInv ==
  ASSUME LinkInv, NEW a, NEW x, a = <<>> \/ \E r \in Titled : a = <<r>>,
         DeviceWrites(a, x), UNCHANGED <<server, chunks, told, link>>
  PROVE  /\ sent' \in Seq(Messages) /\ up' \in Stream /\ told' \in Seq(Told)
         /\ UpRight' /\ ServerRight'
<1>1. up \in Stream /\ sent \in Seq(Messages) /\ told \in Seq(Told)
  BY DEF LinkInv, LinkTypeOK
<1>2. \/ sent' = sent /\ up' = up
      \/ \E r \in Titled : /\ sent' = Append(sent, r)
                             /\ up' = up \o Bytes(r, Len(sent) + 1)
  BY <1>1, WrittenIs
<1>3. CASE sent' = sent /\ up' = up
  BY <1>1, <1>3 DEF LinkInv, UpRight, ServerRight, Pending
<1>4. ASSUME NEW r \in Titled, sent' = Append(sent, r),
             up' = up \o Bytes(r, Len(sent) + 1)
      PROVE  /\ sent' \in Seq(Messages) /\ up' \in Stream /\ told' \in Seq(Told)
             /\ UpRight' /\ ServerRight'
  BY <1>4, WrittenInv
<1>. QED
  BY <1>2, <1>3, <1>4

LEMMA DeviceReadsInv ==
  ASSUME LinkInv, DeviceReads
  PROVE  LinkInv'
<1>1. /\ up \in Stream /\ down \in Stream /\ device \in Buffers /\ Len(down) \in Nat
      /\ sent \in Seq(Messages) /\ written \in Seq(Messages) /\ Len(written) \in Nat
      /\ heard \in Seq(0..Len(written)) /\ told \in Seq(Told)
      /\ server \in Parsers /\ chunks \in Seq(Stream) /\ link \in LinkRecord
      /\ link.harm <= link.faults /\ callId \in Nat
  BY DEF LinkInv, LinkTypeOK, Stream
<1>2. server' = server /\ chunks' = chunks /\ written' = written /\ told' = told /\ link' = link
  BY DEF DeviceReads
<1>3. PICK after : after = Put(device, down)
  OBVIOUS
<1>4. PICK n \in 1..Len(down) :
        /\ down' = SubSeq(down, n + 1, Len(down))
        /\ device' = after[n]
        /\ \/ UNCHANGED <<up, callId, sent, heard>>
           \/ LET p      == after[n - 1]
                  fields == FieldsOf(p)
                  m      == MessageOf(fields)
              IN  /\ heard' = Append(heard, Origin(fields, down[n], written))
                  /\ callId' = CallPlace(p)
                  /\ \E a \in Answers(m, CallId(p, CallPlace(p))) :
                       DeviceWrites(a, Len(heard) + 1)
  BY <1>3 DEF DeviceReads
<1>5. \A k \in 0..Len(down) : after[k] \in Buffers
  BY <1>1, <1>3, PutType
<1>6. n \in 0..Len(down) /\ n - 1 \in 0..Len(down)
  BY <1>1, <1>4
<1>7. down' \in Stream /\ device' \in Buffers
  BY <1>1, <1>4, <1>5, <1>6, TailIs
<1>8. CASE UNCHANGED <<up, callId, sent, heard>>
  BY <1>1, <1>2, <1>7, <1>8 DEF LinkInv, LinkTypeOK, UpRight, ServerRight, Pending
<1>9. ASSUME NEW p, p = after[n - 1], NEW fields, fields = FieldsOf(p),
             heard' = Append(heard, Origin(fields, down[n], written)),
             callId' = CallPlace(p), NEW id, id = CallId(p, CallPlace(p)),
             NEW m, m = MessageOf(fields),
             NEW a \in Answers(m, id), DeviceWrites(a, Len(heard) + 1)
      PROVE  LinkInv'
  <2>1. /\ fields \in Seq(Stream) /\ Len(fields) >= 1
        /\ callId' \in Nat /\ id \in Seq(Char)
    <3>1. p \in Buffers
      BY <1>5, <1>6, <1>9
    <3>2. FieldsOf(p) \in Seq(Stream) /\ Len(FieldsOf(p)) = Len(p.args) + 1
          /\ Len(p.args) \in Nat
      BY <3>1, FieldsOfType
    <3>3. CallPlace(p) \in Nat /\ CallId(p, CallPlace(p)) \in Seq(Char)
      BY <1>1, <3>1, CallIdType
    <3>. QED
      BY <1>9, <3>2, <3>3
  <2>2. m \in Messages
    BY <1>9, <2>1, TextOfType
  <2>3. a = <<>> \/ \E r \in Titled : a = <<r>>
    BY <1>9, <2>1, <2>2, AnswersType
  <2>4. /\ sent' \in Seq(Messages) /\ up' \in Stream /\ told' \in Seq(Told)
        /\ UpRight' /\ ServerRight'
    BY <1>2, <1>9, <2>3, DeviceWritesInv
  <2>5. PICK o : o = Origin(fields, down[n], written)
    OBVIOUS
  <2>6. o \in 0..Len(written)
    <3>1. o \in {down[n].i, Damaged} /\ (o # Damaged => down[n].i \in 1..Len(written))
      BY <2>5, OriginIs
    <3>. QED
      BY <1>1, <3>1 DEF Damaged
  <2>7. heard' \in Seq(0..Len(written'))
    BY <1>1, <1>2, <1>9, <2>5, <2>6, AppendedIs
  <2>. QED
    BY <1>1, <1>2, <1>7, <2>1, <2>4, <2>7 DEF LinkInv, LinkTypeOK
<1>. QED
  BY <1>4, <1>8, <1>9

LEMMA LinkNextInv ==
  LinkInv /\ [LinkNext]_linkVars => LinkInv'
<1>. SUFFICES ASSUME LinkInv, [LinkNext]_linkVars PROVE LinkInv'
  OBVIOUS
<1>1. LinkTypeOK
  BY DEF LinkInv
<1>2. CASE ServerWrites
  <2>1. /\ down' \in Stream /\ written' \in Seq(Messages)
        /\ heard' \in Seq(0..Len(written'))
    BY <1>2, ServerWritesInv
  <2>2. UNCHANGED <<up, device, callId, server, chunks, sent, told, link>>
    BY <1>2 DEF ServerWrites
  <2>. QED
    BY <1>1, <2>1, <2>2 DEF LinkInv, LinkTypeOK, UpRight, ServerRight, Pending
<1>3. CASE DeviceReads
  BY <1>3, DeviceReadsInv
<1>4. CASE DeviceMeasures
  <2>1. PICK v \in Values : DeviceWrites(<<Meas(v)>>, 0)
    BY <1>4 DEF DeviceMeasures
  <2>2. UNCHANGED <<down, device, callId, server, chunks, written, heard, told, link>>
    BY <1>4 DEF DeviceMeasures
  <2>3. Meas(v) \in Titled
    <3>1. <<"meas">> \in Seq(Char) /\ v \in Seq(Char)
      BY TitledIs, TextIs DEF Texts
    <3>2. Meas(v) \in Messages /\ Meas(v)[1] = <<"meas">>
      BY <3>1, MessageFrom DEF Meas
    <3>. QED
      BY <3>2, TitledIs
  <2>4. PICK a : a = <<Meas(v)>>
    OBVIOUS
  <2>5. \E r \in Titled : a = <<r>>
    BY <2>3, <2>4
  <2>6. /\ sent' \in Seq(Messages) /\ up' \in Stream /\ told' \in Seq(Told)
        /\ UpRight' /\ ServerRight'
    BY <2>1, <2>2, <2>4, <2>5, DeviceWritesInv
  <2>. QED
    BY <1>1, <2>2, <2>6 DEF LinkInv, LinkTypeOK
<1>5. CASE ServerReads
  <2>1. UNCHANGED <<down, device, callId, written, sent, heard>>
    BY <1>5 DEF ServerReads
  <2>2. /\ up' \in Stream /\ server' \in Parsers /\ chunks' \in Seq(Stream)
        /\ told' \in Seq(Told) /\ link' \in LinkRecord /\ link'.harm <= link'.faults
        /\ UpRight' /\ ServerRight'
    BY <1>5, ServerReadsInv
  <2>. QED
    BY <1>1, <2>1, <2>2 DEF LinkInv, LinkTypeOK
<1>6. CASE ReceiverReturns
  <2>1. UNCHANGED <<down, up, device, callId, written, sent, heard, link>>
    BY <1>6 DEF ReceiverReturns
  <2>2. /\ server' \in Parsers /\ chunks' \in Seq(Stream) /\ told' \in Seq(Told)
        /\ UpRight' /\ ServerRight'
    BY <1>6, ReceiverReturnsInv
  <2>. QED
    BY <1>1, <2>1, <2>2 DEF LinkInv, LinkTypeOK
<1>7. CASE DeviceRestarts
  <2>1. /\ UNCHANGED <<server, chunks, written, sent, heard, told>>
        /\ device' = FreshBuffer /\ callId' = 0
    BY <1>7 DEF DeviceRestarts
  <2>2. /\ up' \in Stream /\ down' \in Stream /\ link' \in LinkRecord
        /\ link'.harm <= link'.faults
        /\ UpRight' /\ ServerRight'
    BY <1>7, DeviceRestartsInv
  <2>3. FreshBuffer \in Buffers
    <3>1. <<>> \in Stream /\ <<>> \in Seq(Nat \ {0})
      BY DEF Stream
    <3>. QED
      BY <3>1 DEF FreshBuffer, Buffers
  <2>. QED
    BY <1>1, <2>1, <2>2, <2>3 DEF LinkInv, LinkTypeOK
<1>8. CASE PortOpenedAgain
  <2>1. UNCHANGED <<device, callId, written, sent, heard>>
    BY <1>8 DEF PortOpenedAgain, Connects
  <2>2. /\ up' \in Stream /\ down' \in Stream /\ server' \in Parsers
        /\ chunks' \in Seq(Stream) /\ told' \in Seq(Told)
        /\ link' \in LinkRecord /\ link'.harm <= link'.faults
        /\ UpRight' /\ ServerRight'
    BY <1>8, PortOpenedAgainInv
  <2>. QED
    BY <1>1, <2>1, <2>2 DEF LinkInv, LinkTypeOK
<1>9. CASE SocketOpenedAgain
  <2>1. UNCHANGED <<callId, written, sent, heard>>
    BY <1>9 DEF SocketOpenedAgain, Connects
  <2>2. /\ up' \in Stream /\ down' \in Stream /\ server' \in Parsers
        /\ chunks' \in Seq(Stream) /\ told' \in Seq(Told)
        /\ device' \in Buffers
        /\ link' \in LinkRecord /\ link'.harm <= link'.faults
        /\ UpRight' /\ ServerRight'
    BY <1>9, SocketOpenedAgainInv
  <2>. QED
    BY <1>1, <2>1, <2>2 DEF LinkInv, LinkTypeOK
<1>10. CASE UNCHANGED linkVars
  BY <1>1, <1>10 DEF LinkInv, LinkTypeOK, UpRight, ServerRight, Pending, linkVars
<1>11. CASE SetupEnds
  <2>1. UNCHANGED <<down, device, callId, server, chunks, written, sent, heard, told>>
    BY <1>11 DEF SetupEnds
  <2>2. /\ up' \in Stream /\ link' \in LinkRecord /\ link'.harm <= link'.faults
        /\ UpRight' /\ ServerRight'
    BY <1>11, SetupEndsInv
  <2>. QED
    BY <1>1, <2>1, <2>2 DEF LinkInv, LinkTypeOK
<1>. QED
  BY <1>2, <1>3, <1>4, <1>5, <1>6, <1>7, <1>8, <1>9, <1>10, <1>11 DEF LinkNext

(* The server is given the messages of its device once and in order, and   *)
(* whole but for the first of a connection that begins with old bytes and  *)
(* the first that the device writes after a restart with no zero byte      *)
(* (StreamParser::pushData of the server); connections in which a receiver *)
(* of a message waited before bytes that had been read are excepted.       *)
THEOREM LinkHeard == LinkSpec => []ServerHearsDevice
<1>1. LinkInv => ServerHearsDevice
  BY DEF LinkInv, ServerRight, ToldRight, ServerHearsDevice
<1>. QED
  BY <1>1, LinkInitInv, LinkNextInv, PTL DEF LinkSpec
-----------------------------------------------------------------------------
(***************************************************************************)
(* The device's buffer holds what the server's parser has in its fields.   *)
(***************************************************************************)
Start(args, k) == IF k = 1 THEN 1 ELSE args[k - 1]

(* The bytes in the buffer, and one more, that some fields take.           *)
Size(F) == Len(FlattenSeq(F)) + Len(F)

LaidOut(buf, args, F) ==
  /\ Len(args) + 1 = Len(F)
  /\ \A k \in 1..Len(F) :
       /\ Start(args, k) \in Nat /\ Start(args, k) >= 1
       /\ Start(args, k) + Len(F[k]) <= Len(buf) + 1
       /\ \A j \in 1..Len(F[k]) : buf[Start(args, k) + j - 1] = F[k][j]
       /\ k < Len(F) => /\ Start(args, k + 1) = Start(args, k) + Len(F[k]) + 1
                        /\ buf[Start(args, k) + Len(F[k])].c = Nul
       /\ k = Len(F) => Start(args, k) + Len(F[k]) = Len(buf) + 1
  /\ Len(buf) + 1 = Size(F)

LEMMA FlattenSteps ==
  ASSUME NEW F \in Seq(Stream)
  PROVE  \E e : /\ e[0] = <<>> /\ e[Len(F)] = FlattenSeq(F)
                /\ \A k \in 0..Len(F) : e[k] \in Stream
                /\ \A k \in 1..Len(F) : e[k] = e[k - 1] \o F[k]
<1>1. PICK S : S = Byte
  OBVIOUS
<1>2. F \in Seq(Seq(S))
  BY <1>1 DEF Stream
<1>3. \E e : /\ e[0] = <<>> /\ e[Len(F)] = FlattenSeq(F)
             /\ \A k \in 0..Len(F) : e[k] \in Seq(S)
             /\ \A k \in 1..Len(F) : e[k] = e[k - 1] \o F[k]
  BY <1>2, FlattenIs
<1>. QED
  BY <1>1, <1>3 DEF Stream

LEMMA FlattenGrown ==
  ASSUME NEW F \in Seq(Stream), NEW x \in Stream
  PROVE  /\ FlattenSeq(F) \in Stream
         /\ FlattenSeq(Append(F, x)) = FlattenSeq(F) \o x
<1>1. PICK G : G = Append(F, x)
  OBVIOUS
<1>2. /\ G \in Seq(Stream) /\ Len(G) = Len(F) + 1 /\ Len(F) \in Nat
      /\ \A k \in 1..Len(F) : G[k] = F[k]
      /\ G[Len(F) + 1] = x
  BY <1>1, AppendedIs
<1>4. PICK e : /\ e[0] = <<>> /\ e[Len(F)] = FlattenSeq(F)
               /\ \A k \in 0..Len(F) : e[k] \in Stream
               /\ \A k \in 1..Len(F) : e[k] = e[k - 1] \o F[k]
  BY FlattenSteps
<1>5. PICK d : /\ d[0] = <<>> /\ d[Len(G)] = FlattenSeq(G)
               /\ \A k \in 0..Len(G) : d[k] \in Stream
               /\ \A k \in 1..Len(G) : d[k] = d[k - 1] \o G[k]
  BY <1>2, FlattenSteps
<1>3. PICK n : n = Len(F)
  OBVIOUS
<1> DEFINE T == {k \in 0..n : d[k] = e[k]}
<1>6. 0 \in T
  BY <1>2, <1>3, <1>4, <1>5
<1>7. ASSUME NEW k \in 0..n, k \in T, k + 1 <= n PROVE k + 1 \in T
  <2>1. k + 1 \in 1..n /\ k + 1 \in 1..(n + 1) /\ (k + 1) - 1 = k /\ k + 1 \in 0..n
    BY <1>2, <1>3, <1>7
  <2>2. d[k + 1] = d[k] \o G[k + 1] /\ e[k + 1] = e[k] \o F[k + 1]
    <3>1. k + 1 \in 1..Len(G) /\ k + 1 \in 1..Len(F)
      BY <1>2, <1>3, <2>1
    <3>. QED
      BY <1>4, <1>5, <2>1, <3>1
  <2>3. d[k] = e[k] /\ G[k + 1] = F[k + 1]
    BY <1>2, <1>3, <1>7, <2>1
  <2>. QED
    BY <2>1, <2>2, <2>3
<1>8. \A k \in 0..n : k \in T
  <2> HIDE DEF T
  <2>. QED
    BY <1>2, <1>3, <1>6, <1>7, UpTo
<1>9. d[n] = e[n] /\ n \in 0..n /\ n + 1 \in 1..(n + 1) /\ (n + 1) - 1 = n
  BY <1>2, <1>3, <1>8
<1>10. d[n + 1] = d[n] \o G[n + 1] /\ G[n + 1] = x
  BY <1>2, <1>3, <1>5, <1>9
<1>. QED
  <2>1. Len(G) = n + 1 /\ n \in 0..Len(F)
    BY <1>2, <1>3
  <2>2. FlattenSeq(G) = FlattenSeq(F) \o x
    BY <1>3, <1>4, <1>5, <1>9, <1>10, <2>1
  <2>3. FlattenSeq(F) \in Stream
    BY <1>3, <1>4, <2>1
  <2>. QED
    BY <1>1, <2>2, <2>3

LEMMA SizeGrown ==
  ASSUME NEW F \in Seq(Stream), NEW cur \in Stream, NEW b \in Byte
  PROVE  /\ Size(Append(F, cur)) \in Nat
         /\ Size(Append(F, Append(cur, b))) = Size(Append(F, cur)) + 1
         /\ Size(Append(Append(F, cur), <<>>)) = Size(Append(F, cur)) + 1
<1>1. PICK x : x = FlattenSeq(F)
  OBVIOUS
<1>2. PICK d : d = Append(cur, b)
  OBVIOUS
<1>3. PICK G : G = Append(F, cur)
  OBVIOUS
<1>4. x \in Stream /\ FlattenSeq(G) = x \o cur
  BY <1>1, <1>3, FlattenGrown
<1>5. d \in Stream /\ Len(d) = Len(cur) + 1 /\ Len(cur) \in Nat
  BY <1>2, AppendedIs DEF Stream
<1>6. FlattenSeq(Append(F, d)) = x \o d
  BY <1>1, <1>5, FlattenGrown
<1>7. G \in Seq(Stream) /\ Len(G) = Len(F) + 1 /\ Len(F) \in Nat
  BY <1>3, AppendedIs
<1>8. Len(Append(F, d)) = Len(F) + 1
  BY <1>5, AppendedIs
<1>9. <<>> \in Stream /\ Len(<<>>) = 0
  BY DEF Stream
<1>10. FlattenSeq(Append(G, <<>>)) = (x \o cur) \o <<>>
  BY <1>4, <1>7, <1>9, FlattenGrown
<1>11. Len(Append(G, <<>>)) = Len(G) + 1
  BY <1>7, <1>9, AppendedIs
<1>12. /\ x \o cur \in Stream /\ Len(x \o cur) = Len(x) + Len(cur) /\ Len(x) \in Nat
       /\ Len(x \o d) = Len(x) + Len(d)
  BY <1>4, <1>5, JoinedIs DEF Stream
<1>13. Len((x \o cur) \o <<>>) = Len(x \o cur) + 0
  <2>1. PICK y : y = x \o cur
    OBVIOUS
  <2>2. y \in Seq(Byte) /\ <<>> \in Seq(Byte)
    BY <1>12, <2>1 DEF Stream
  <2>. QED
    BY <1>9, <2>1, <2>2, JoinedIs
<1>14. Size(G) = Len(x) + Len(cur) + Len(F) + 1
  BY <1>4, <1>7, <1>12, <1>5 DEF Size
<1>15. Size(Append(F, d)) = Len(x) + Len(cur) + 1 + Len(F) + 1
  BY <1>5, <1>6, <1>7, <1>8, <1>12 DEF Size
<1>16. Size(Append(G, <<>>)) = Len(x) + Len(cur) + Len(F) + 1 + 1
  <2>1. PICK y : y = FlattenSeq(Append(G, <<>>))
    OBVIOUS
  <2>2. Len(y) = Len(x) + Len(cur)
    BY <1>5, <1>10, <1>12, <1>13, <2>1
  <2>3. Size(Append(G, <<>>)) = Len(y) + (Len(G) + 1)
    BY <1>11, <2>1 DEF Size
  <2>. QED
    BY <1>5, <1>7, <1>12, <2>2, <2>3
<1>. QED
  BY <1>2, <1>3, <1>5, <1>7, <1>12, <1>14, <1>15, <1>16

LEMMA LastField ==
  ASSUME NEW F \in Seq(Stream), F # <<>>
  PROVE  \E H \in Seq(Stream), cur \in Stream : F = Append(H, cur)
<1>1. PICK n : n = Len(F)
  OBVIOUS
<1>2. n \in Nat /\ n >= 1 /\ \A k \in 1..n : F[k] \in Stream
  BY <1>1
<1>3. PICK H : H = SubSeq(F, 1, n - 1)
  OBVIOUS
<1>4. H \in Seq(Stream) /\ Len(H) = n - 1 /\ \A k \in 1..(n - 1) : H[k] = F[k]
  BY <1>1, <1>2, <1>3
<1>5. PICK cur : cur = F[n]
  OBVIOUS
<1>6. cur \in Stream
  BY <1>2, <1>5
<1>7. PICK G : G = Append(H, cur)
  OBVIOUS
<1>8. /\ G \in Seq(Stream) /\ Len(G) = (n - 1) + 1
      /\ \A k \in 1..(n - 1) : G[k] = F[k]
      /\ G[(n - 1) + 1] = cur
  BY <1>4, <1>6, <1>7, AppendedIs
<1>9. ASSUME NEW k \in 1..n PROVE G[k] = F[k]
  <2>1. CASE k = n
    BY <1>2, <1>5, <1>8, <2>1
  <2>2. CASE k # n
    BY <1>2, <1>8, <2>2
  <2>. QED
    BY <2>1, <2>2
<1>10. Len(G) = n
  BY <1>2, <1>8
<1>11. G = F
  BY <1>1, <1>8, <1>9, <1>10
<1>. QED
  BY <1>4, <1>6, <1>7, <1>11

LEMMA LaidGrow ==
  ASSUME NEW buf \in Stream, NEW args \in Seq(Nat \ {0}), NEW F \in Seq(Stream), F # <<>>,
         NEW b \in Byte, LaidOut(buf, args, F)
  PROVE  LaidOut(Append(buf, b), args, Grow(F, b))
<1>1. PICK n, l, G, nb : n = Len(F) /\ l = Len(buf) /\ G = Grow(F, b) /\ nb = Append(buf, b)
  OBVIOUS
<1>2. /\ n \in 1..n /\ n \in Nat /\ G \in Seq(Stream) /\ Len(G) = n /\ F[n] \in Stream
      /\ \A k \in 1..n : G[k] = IF k = n THEN Append(F[n], b) ELSE F[k]
  BY <1>1, GrowIs
<1>3. /\ Len(nb) = l + 1 /\ l \in Nat /\ nb[l + 1] = b
      /\ \A j \in 1..l : nb[j] = buf[j]
  BY <1>1, AppendedIs DEF Stream
<1>4. PICK cur : cur = F[n]
  OBVIOUS
<1>5. PICK nc : nc = Append(cur, b)
  OBVIOUS
<1>6. /\ cur \in Stream /\ Len(cur) \in Nat /\ Len(nc) = Len(cur) + 1 /\ nc[Len(cur) + 1] = b
      /\ \A j \in 1..Len(cur) : nc[j] = cur[j]
  BY <1>2, <1>4, <1>5, AppendedIs DEF Stream
<1>7. G[n] = nc /\ \A k \in 1..n : k # n => G[k] = F[k]
  BY <1>2, <1>4, <1>5
<1>8. Size(G) = Size(F) + 1
  <2>1. PICK H \in Seq(Stream), last \in Stream : F = Append(H, last)
    BY LastField
  <2>2. G = Append(H, Append(last, b))
    BY <1>1, <2>1, Grown
  <2>. QED
    BY <2>1, <2>2, SizeGrown
<1>9. ASSUME NEW k \in 1..n
      PROVE  /\ Start(args, k) \in Nat /\ Start(args, k) >= 1
             /\ Start(args, k) + Len(G[k]) <= Len(nb) + 1
             /\ \A j \in 1..Len(G[k]) : nb[Start(args, k) + j - 1] = G[k][j]
             /\ k < n => /\ Start(args, k + 1) = Start(args, k) + Len(G[k]) + 1
                         /\ nb[Start(args, k) + Len(G[k])].c = Nul
             /\ k = n => Start(args, k) + Len(G[k]) = Len(nb) + 1
  <2>1. PICK s, f : s = Start(args, k) /\ f = F[k]
    OBVIOUS
  <2>2. /\ s \in Nat /\ s >= 1 /\ s + Len(f) <= l + 1
        /\ \A j \in 1..Len(f) : buf[s + j - 1] = f[j]
        /\ k < n => Start(args, k + 1) = s + Len(f) + 1 /\ buf[s + Len(f)].c = Nul
        /\ k = n => s + Len(f) = l + 1
    BY <1>1, <2>1 DEF LaidOut
  <2>3. f \in Stream /\ Len(f) \in Nat
    BY <1>1, <2>1 DEF Stream
  <2>4. CASE k < n
    <3>1. G[k] = f
      BY <1>7, <2>1, <2>4
    <3>2. Start(args, k + 1) \in Nat /\ Start(args, k + 1) <= l + 1
      <4>1. k + 1 \in 1..n
        BY <1>2, <2>4
      <4>2. /\ Start(args, k + 1) \in Nat
            /\ Start(args, k + 1) + Len(F[k + 1]) <= l + 1
        BY <1>1, <4>1 DEF LaidOut
      <4>3. Len(F[k + 1]) \in Nat
        BY <1>1, <4>1 DEF Stream
      <4>. QED
        BY <1>3, <4>2, <4>3
    <3>3. s + Len(f) \in 1..l
      BY <1>3, <2>2, <2>3, <2>4, <3>2
    <3>4. ASSUME NEW j \in 1..Len(f) PROVE nb[s + j - 1] = f[j]
      <4>1. s + j - 1 \in 1..l
        BY <1>3, <2>2, <2>3, <3>3
      <4>. QED
        BY <1>3, <2>2, <4>1
    <3>. QED
      BY <1>3, <2>1, <2>2, <2>3, <2>4, <3>1, <3>3, <3>4
  <2>5. CASE k = n
    <3>1. G[k] = nc /\ f = cur
      BY <1>4, <1>7, <2>1, <2>5
    <3>2. s + Len(cur) = l + 1
      BY <2>2, <2>5, <3>1
    <3>3. ASSUME NEW j \in 1..Len(nc) PROVE nb[s + j - 1] = nc[j]
      <4>1. CASE j = Len(cur) + 1
        <5>1. s + j - 1 = l + 1
          BY <1>3, <1>6, <2>2, <3>2, <4>1
        <5>. QED
          BY <1>3, <1>6, <4>1, <5>1
      <4>2. CASE j # Len(cur) + 1
        <5>3. PICK c : c = Len(cur)
          OBVIOUS
        <5>4. c \in Nat /\ j \in 1..(c + 1) /\ j # c + 1 /\ s + c = l + 1
          BY <1>6, <3>2, <4>2, <5>3
        <5>5. j \in 1..c /\ s + j - 1 \in 1..l
          BY <1>3, <2>2, <5>4
        <5>1. j \in 1..Len(cur) /\ s + j - 1 \in 1..l
          BY <5>3, <5>5
        <5>2. buf[s + j - 1] = cur[j]
          BY <2>2, <3>1, <5>1
        <5>. QED
          BY <1>3, <1>6, <5>1, <5>2
      <4>. QED
        BY <4>1, <4>2
    <3>4. s + Len(nc) = Len(nb) + 1
      <4>1. PICK lc, ln, lk : lc = Len(cur) /\ ln = Len(nb) /\ lk = Len(nc)
        OBVIOUS
      <4>2. lc \in Nat /\ lk = lc + 1 /\ ln = l + 1 /\ l \in Nat /\ s \in Nat
        BY <1>3, <1>6, <2>2, <4>1
      <4>3. s + lc = l + 1
        BY <3>2, <4>1
      <4>. QED
        BY <4>1, <4>2, <4>3
    <3>. QED
      BY <1>2, <1>3, <2>1, <2>2, <2>5, <3>1, <3>3, <3>4
  <2>. QED
    BY <1>2, <2>4, <2>5
<1>10. Len(nb) + 1 = Size(G) /\ Len(args) + 1 = Len(G)
  BY <1>1, <1>2, <1>3, <1>8 DEF LaidOut
<1>. QED
  BY <1>1, <1>2, <1>9, <1>10 DEF LaidOut


LEMMA LaidNext ==
  ASSUME NEW buf \in Stream, NEW args \in Seq(Nat \ {0}), NEW F \in Seq(Stream), F # <<>>,
         NEW b \in Byte, b.c = Nul, LaidOut(buf, args, F)
  PROVE  LaidOut(Append(buf, b), Append(args, Len(buf) + 2), Append(F, <<>>))
<1>1. PICK n, l, G, nb, na :
        /\ n = Len(F) /\ l = Len(buf) /\ G = Append(F, <<>>) /\ nb = Append(buf, b)
        /\ na = Append(args, l + 2)
  OBVIOUS
<1>2. /\ Len(nb) = l + 1 /\ l \in Nat /\ nb[l + 1] = b
      /\ \A j \in 1..l : nb[j] = buf[j]
  BY <1>1, AppendedIs DEF Stream
<1>3. /\ n \in Nat /\ n >= 1 /\ Len(G) = n + 1 /\ G[n + 1] = <<>>
      /\ \A k \in 1..n : G[k] = F[k]
  <2>1. <<>> \in Stream
    BY DEF Stream
  <2>2. PICK z \in Stream : z = <<>>
    BY <2>1
  <2>. QED
    BY <1>1, <2>2, AppendedIs
<1>4. Len(args) + 1 = n
  BY <1>1 DEF LaidOut
<1>5. /\ Len(na) = n /\ na[n] = l + 2
      /\ \A k \in 1..(n - 1) : na[k] = args[k]
  <2>1. PICK a : a = l + 2
    OBVIOUS
  <2>2. a \in Nat \ {0}
    BY <1>2, <2>1
  <2>3. PICK S : S = Nat \ {0}
    OBVIOUS
  <2>4. args \in Seq(S) /\ a \in S
    BY <2>2, <2>3
  <2>5. /\ Len(na) = Len(args) + 1 /\ Len(args) \in Nat /\ na[Len(args) + 1] = a
        /\ \A k \in 1..Len(args) : na[k] = args[k]
    BY <1>1, <2>1, <2>4, AppendedIs
  <2>. QED
    BY <1>3, <1>4, <2>1, <2>5
<1>6. /\ \A k \in 1..n : Start(na, k) = Start(args, k)
      /\ Start(na, n + 1) = l + 2
  <2>1. ASSUME NEW k \in 1..n PROVE Start(na, k) = Start(args, k)
    <3>1. CASE k = 1
      BY <3>1 DEF Start
    <3>2. CASE k # 1
      <4>1. k - 1 \in 1..(n - 1)
        BY <1>3, <3>2
      <4>. QED
        BY <1>5, <3>2, <4>1 DEF Start
    <3>. QED
      BY <3>1, <3>2
  <2>2. n + 1 # 1 /\ (n + 1) - 1 = n
    BY <1>3
  <2>. QED
    BY <1>5, <2>1, <2>2 DEF Start
<1>7. Len(<<>>) = 0
  OBVIOUS
<1>8. ASSUME NEW k \in 1..n
      PROVE  /\ Start(na, k) \in Nat /\ Start(na, k) >= 1
             /\ Start(na, k) + Len(G[k]) <= Len(nb) + 1
             /\ \A j \in 1..Len(G[k]) : nb[Start(na, k) + j - 1] = G[k][j]
             /\ /\ Start(na, k + 1) = Start(na, k) + Len(G[k]) + 1
                /\ nb[Start(na, k) + Len(G[k])].c = Nul
  <2>1. PICK s, f : s = Start(args, k) /\ f = F[k]
    OBVIOUS
  <2>2. /\ s \in Nat /\ s >= 1 /\ s + Len(f) <= l + 1
        /\ \A j \in 1..Len(f) : buf[s + j - 1] = f[j]
        /\ k < n => Start(args, k + 1) = s + Len(f) + 1 /\ buf[s + Len(f)].c = Nul
        /\ k = n => s + Len(f) = l + 1
    BY <1>1, <2>1 DEF LaidOut
  <2>3. f \in Stream /\ Len(f) \in Nat
    BY <1>1, <2>1 DEF Stream
  <2>4. G[k] = f /\ Start(na, k) = s
    BY <1>3, <1>6, <2>1
  <2>5. ASSUME NEW j \in 1..Len(f) PROVE nb[s + j - 1] = f[j]
    <3>1. s + j - 1 \in 1..l
      BY <1>2, <2>2, <2>3
    <3>. QED
      BY <1>2, <2>2, <3>1
  <2>6. CASE k < n
    <3>1. k + 1 \in 1..n
      BY <1>3, <2>6
    <3>2. /\ Start(args, k + 1) \in Nat
          /\ Start(args, k + 1) + Len(F[k + 1]) <= l + 1
      BY <1>1, <3>1 DEF LaidOut
    <3>3. Len(F[k + 1]) \in Nat
      BY <1>1, <3>1 DEF Stream
    <3>4. s + Len(f) \in 1..l
      BY <1>2, <2>2, <2>3, <2>6, <3>2, <3>3
    <3>5. nb[s + Len(f)].c = Nul /\ Start(na, k + 1) = s + Len(f) + 1
      BY <1>2, <1>6, <2>2, <2>6, <3>1, <3>4
    <3>. QED
      BY <1>2, <2>2, <2>3, <2>4, <2>5, <3>5
  <2>7. CASE k = n
    <3>1. s + Len(f) = l + 1
      BY <2>2, <2>7
    <3>2. nb[s + Len(f)].c = Nul /\ Start(na, k + 1) = s + Len(f) + 1
      BY <1>2, <1>6, <2>7, <3>1
    <3>. QED
      BY <1>2, <2>2, <2>3, <2>4, <2>5, <3>2
  <2>. QED
    BY <1>3, <2>6, <2>7
<1>9. Size(G) = Size(F) + 1 /\ l + 1 = Size(F)
  <2>1. PICK H \in Seq(Stream), last \in Stream : F = Append(H, last)
    BY LastField
  <2>2. G = Append(Append(H, last), <<>>)
    BY <1>1, <2>1
  <2>. QED
    BY <1>1, <2>1, <2>2, SizeGrown DEF LaidOut
<1>10. ASSUME NEW k \in 1..(n + 1)
       PROVE  /\ Start(na, k) \in Nat /\ Start(na, k) >= 1
              /\ Start(na, k) + Len(G[k]) <= Len(nb) + 1
              /\ \A j \in 1..Len(G[k]) : nb[Start(na, k) + j - 1] = G[k][j]
              /\ k < n + 1 => /\ Start(na, k + 1) = Start(na, k) + Len(G[k]) + 1
                              /\ nb[Start(na, k) + Len(G[k])].c = Nul
              /\ k = n + 1 => Start(na, k) + Len(G[k]) = Len(nb) + 1
  <2>1. CASE k \in 1..n
    BY <1>3, <1>8, <2>1
  <2>2. CASE k = n + 1
    <3>1. G[k] = <<>> /\ Start(na, k) = l + 2
      BY <1>3, <1>6, <2>2
    <3>2. Len(G[k]) = 0 /\ 1..Len(G[k]) = {}
      BY <1>7, <3>1
    <3>. QED
      BY <1>2, <1>3, <2>2, <3>1, <3>2
  <2>. QED
    BY <1>3, <2>1, <2>2
<1>11. Len(na) + 1 = Len(G) /\ Len(nb) + 1 = Size(G)
  BY <1>2, <1>3, <1>5, <1>9
<1>. QED
  BY <1>1, <1>3, <1>10, <1>11 DEF LaidOut

LEMMA LaidFresh ==
  LaidOut(<<>>, <<>>, NoMessage)
<1>1. PICK z : z = <<>>
  OBVIOUS
<1>2. z \in Stream /\ Len(z) = 0
  BY <1>1 DEF Stream
<1>3. PICK F : F = <<z>>
  OBVIOUS
<1>4. NoMessage = F /\ Len(F) = 1 /\ F[1] = z
  BY <1>1, <1>3 DEF NoMessage
<1>5. Size(F) = 1
  <2>1. FlattenSeq(F) = z
    BY <1>2, <1>3, FlattenFew DEF Stream
  <2>. QED
    BY <1>2, <1>4, <2>1 DEF Size
<1>6. \A k \in 1..Len(F) : Start(z, k) = 1 /\ k = 1
  BY <1>4 DEF Start
<1>. QED
  BY <1>1, <1>2, <1>4, <1>5, <1>6 DEF LaidOut


LEMMA StringAtIs ==
  ASSUME NEW q \in Buffers, NEW f \in Stream, NEW s \in Nat, s >= 1,
         s + Len(f) <= Len(q.buf) + 1,
         \A j \in 1..Len(f) : q.buf[s + j - 1] = f[j] /\ f[j].c # Nul,
         s + Len(f) <= Len(q.buf) => q.buf[s + Len(f)].c = Nul
  PROVE  StringAt(q, s) = f
<1>1. PICK b, l, n : b = q.buf /\ l = Len(b) /\ n = Len(f)
  OBVIOUS
<1>2. b \in Seq(Byte) /\ l \in Nat /\ n \in Nat /\ f \in Seq(Byte)
  BY <1>1 DEF Buffers, Stream
<1>3. /\ s + n <= l + 1
      /\ \A j \in 1..n : b[s + j - 1] = f[j] /\ f[j].c # Nul
      /\ s + n <= l => b[s + n].c = Nul
  BY <1>1
<1>4. PICK rest : rest = SubSeq(b, s, l)
  OBVIOUS
<1>5. /\ rest \in Seq(Byte) /\ Len(rest) = l - s + 1
      /\ \A j \in 1..(l - s + 1) : rest[j] = b[s + j - 1]
  BY <1>1, <1>2, <1>3, <1>4
<1>6. PICK I : I = {i \in 1..Len(rest) : rest[i].c = Nul}
  OBVIOUS
<1>7. PICK k : k = SelectInSeq(rest, LAMBDA e : e.c = Nul)
  OBVIOUS
<1>8. StringAt(q, s) = IF k = 0 THEN rest ELSE SubSeq(rest, 1, k - 1)
  BY <1>1, <1>4, <1>7 DEF StringAt
<1>9. k = IF I # {} THEN CHOOSE x \in I : \A y \in I : x <= y ELSE 0
  BY <1>6, <1>7 DEF SelectInSeq, Min
<1>10. \A j \in 1..n : rest[j] = f[j] /\ j \notin I
  <2>1. ASSUME NEW j \in 1..n PROVE j \in 1..(l - s + 1)
    BY <1>2, <1>3
  <2>2. ASSUME NEW j \in 1..n PROVE rest[j] = f[j] /\ rest[j].c # Nul
    BY <1>3, <1>5, <2>1
  <2>. QED
    BY <1>6, <2>2
<1>11. CASE s + n <= l
  <2>1. n + 1 \in I
    <3>1. n + 1 \in 1..(l - s + 1) /\ s + (n + 1) - 1 = s + n
      BY <1>2, <1>11
    <3>. QED
      BY <1>3, <1>5, <1>6, <1>11, <3>1
  <2>2. \A y \in I : n + 1 <= y
    <3>1. ASSUME NEW y \in I PROVE n + 1 <= y
      <4>1. y \in Nat /\ y >= 1 /\ y \notin 1..n
        BY <1>6, <1>10
      <4>. QED
        BY <1>2, <4>1
    <3>. QED
      BY <3>1
  <2>3. k \in I /\ \A y \in I : k <= y
    <3>1. I # {} /\ \E x \in I : \A y \in I : x <= y
      BY <2>1, <2>2
    <3>. QED
      BY <1>9, <3>1
  <2>4. k = n + 1 /\ k # 0 /\ k - 1 = n
    <3>1. k <= n + 1 /\ n + 1 <= k /\ k \in Nat
      BY <1>6, <2>1, <2>2, <2>3
    <3>. QED
      BY <1>2, <3>1
  <2>5. StringAt(q, s) = SubSeq(rest, 1, n)
    BY <1>8, <2>4
  <2>6. SubSeq(rest, 1, n) = f
    <3>1. PICK u : u = SubSeq(rest, 1, n)
      OBVIOUS
    <3>2. n <= Len(rest)
      BY <1>2, <1>5, <1>11
    <3>3. u \in Seq(Byte) /\ Len(u) = n /\ \A j \in 1..n : u[j] = rest[j]
      BY <1>2, <1>5, <3>1, <3>2
    <3>4. \A j \in 1..n : u[j] = f[j]
      BY <1>10, <3>3
    <3>. QED
      BY <1>1, <1>2, <3>1, <3>3, <3>4
  <2>. QED
    BY <2>5, <2>6
<1>12. CASE ~(s + n <= l)
  <2>1. Len(rest) = n
    BY <1>2, <1>3, <1>5, <1>12
  <2>2. I = {}
    BY <1>6, <1>10, <2>1
  <2>3. StringAt(q, s) = rest
    BY <1>8, <1>9, <2>2
  <2>4. rest = f
    BY <1>1, <1>2, <1>5, <1>10, <2>1
  <2>. QED
    BY <2>3, <2>4
<1>. QED
  BY <1>11, <1>12

LEMMA LaidFields ==
  ASSUME NEW q \in Buffers, NEW F \in Seq(Stream), F # <<>>, LaidOut(q.buf, q.args, F),
         \A k \in 1..Len(F) : \A j \in 1..Len(F[k]) : F[k][j].c # Nul
  PROVE  FieldsOf(q) = F
<1>1. PICK n : n = Len(F)
  OBVIOUS
<1>2. n \in Nat /\ n >= 1 /\ Len(q.args) + 1 = n /\ Len(q.args) \in Nat
  <2>1. n \in Nat /\ n >= 1
    BY <1>1
  <2>2. Len(q.args) + 1 = n
    BY <1>1 DEF LaidOut
  <2>3. Len(q.args) \in Nat
    BY DEF Buffers
  <2>. QED
    BY <2>1, <2>2, <2>3
<1>3. ASSUME NEW k \in 1..n PROVE StringAt(q, Start(q.args, k)) = F[k]
  <2>1. PICK s, f : s = Start(q.args, k) /\ f = F[k]
    OBVIOUS
  <2>2. /\ s \in Nat /\ s >= 1 /\ s + Len(f) <= Len(q.buf) + 1
        /\ \A j \in 1..Len(f) : q.buf[s + j - 1] = f[j]
        /\ k < n => q.buf[s + Len(f)].c = Nul
        /\ k = n => s + Len(f) = Len(q.buf) + 1
    BY <1>1, <2>1 DEF LaidOut
  <2>3. f \in Stream /\ \A j \in 1..Len(f) : f[j].c # Nul
    BY <1>1, <2>1
  <2>4. s + Len(f) <= Len(q.buf) => q.buf[s + Len(f)].c = Nul
    <3>1. CASE k < n
      BY <2>2, <3>1
    <3>2. CASE k = n
      <4>1. Len(q.buf) \in Nat
        BY DEF Buffers, Stream
      <4>2. ~(s + Len(f) <= Len(q.buf))
        BY <2>2, <3>2, <4>1
      <4>. QED
        BY <4>2
    <3>. QED
      BY <1>2, <3>1, <3>2
  <2>5. \A j \in 1..Len(f) : q.buf[s + j - 1] = f[j] /\ f[j].c # Nul
    BY <2>2, <2>3
  <2>6. StringAt(q, s) = f
    BY <2>2, <2>3, <2>4, <2>5, StringAtIs
  <2>. QED
    BY <2>1, <2>6
<1>4. PICK A, r : A = FieldsOf(q) /\ r = [k \in 1..Len(q.args) |-> StringAt(q, q.args[k])]
  OBVIOUS
<1>5. A = <<StringAt(q, 1)>> \o r
  BY <1>4 DEF FieldsOf
<1>6. A \in Seq(Stream) /\ Len(A) = n
  BY <1>2, <1>4, FieldsOfType
<1>7. PICK h : h = <<StringAt(q, 1)>>
  OBVIOUS
<1>8. /\ h \in Seq(Stream) /\ Len(h) = 1 /\ h[1] = StringAt(q, 1)
      /\ r \in Seq(Stream) /\ Len(r) = n - 1
      /\ \A k \in 1..(n - 1) : r[k] = StringAt(q, q.args[k])
  <2>1. StringAt(q, 1) \in Stream
    BY StringAtType
  <2>2. \A k \in 1..Len(q.args) : StringAt(q, q.args[k]) \in Stream
    BY StringAtType DEF Buffers
  <2>3. Len(q.args) = n - 1
    BY <1>2
  <2>. QED
    BY <1>2, <1>4, <1>7, <2>1, <2>2, <2>3
<1>9. A[1] = h[1] /\ \A k \in 1..(n - 1) : A[1 + k] = r[k]
  <2>1. PICK S : S = Stream
    OBVIOUS
  <2>0. h \in Seq(S) /\ r \in Seq(S)
    BY <1>8, <2>1
  <2>2. /\ \A k \in 1..Len(h) : (h \o r)[k] = h[k]
        /\ \A k \in 1..Len(r) : (h \o r)[Len(h) + k] = r[k]
    BY <2>0, JoinedIs
  <2>3. 1 \in 1..Len(h)
    BY <1>8
  <2>4. A = h \o r
    BY <1>5, <1>7
  <2>5. A[1] = h[1]
    BY <2>2, <2>3, <2>4
  <2>6. \A k \in 1..(n - 1) : A[1 + k] = r[k]
    BY <1>8, <2>2, <2>4
  <2>. QED
    BY <2>5, <2>6
<1>10. ASSUME NEW k \in 1..n PROVE A[k] = F[k]
  <2>1. CASE k = 1
    BY <1>3, <1>8, <1>9, <2>1 DEF Start
  <2>2. CASE k # 1
    <3>1. k - 1 \in 1..(n - 1) /\ 1 + (k - 1) = k
      BY <1>2, <2>2
    <3>2. A[k] = r[k - 1] /\ r[k - 1] = StringAt(q, q.args[k - 1])
      <4>1. A[1 + (k - 1)] = r[k - 1]
        BY <1>9, <3>1
      <4>. QED
        BY <1>8, <3>1, <4>1
    <3>3. Start(q.args, k) = q.args[k - 1]
      BY <2>2 DEF Start
    <3>. QED
      BY <1>3, <3>2, <3>3
  <2>. QED
    BY <2>1, <2>2
<1>. QED
  BY <1>1, <1>4, <1>6, <1>10

-----------------------------------------------------------------------------
LEMMA PutWithin ==
  ASSUME NEW p, NEW s, NEW t, NEW n, Within(t, s, n)
  PROVE  \A j \in 0..Len(t) : Put(Put(p, s)[n], t)[j] = Put(p, s)[n + j]
<1>1. PICK q : q = Put(p, s)[n]
  OBVIOUS
<1> DEFINE T == {j \in 0..Len(t) : Put(q, t)[j] = Put(p, s)[n + j]}
<1>2. /\ Len(s) \in Nat /\ Len(t) \in Nat /\ n \in Nat /\ n + Len(t) <= Len(s)
      /\ \A j \in 1..Len(t) : t[j] = s[n + j]
  BY DEF Within
<1>3. 0 \in T
  BY <1>1, <1>2, PutIs
<1>4. ASSUME NEW j \in 0..Len(t), j \in T, j + 1 <= Len(t) PROVE j + 1 \in T
  <2>1. j + 1 \in 1..Len(t) /\ n + (j + 1) \in 1..Len(s) /\ (j + 1) - 1 = j
        /\ (n + (j + 1)) - 1 = n + j
    BY <1>2, <1>4
  <2>2. Put(q, t)[j + 1] = PutByte(Put(q, t)[j], t[j + 1])
    BY <1>2, <2>1, PutIs
  <2>3. Put(p, s)[n + (j + 1)] = PutByte(Put(p, s)[n + j], s[n + (j + 1)])
    BY <1>2, <2>1, PutIs
  <2>4. t[j + 1] = s[n + (j + 1)]
    BY <1>2, <2>1
  <2>5. Put(q, t)[j] = Put(p, s)[n + j]
    BY <1>4
  <2>. QED
    BY <2>1, <2>2, <2>3, <2>4, <2>5
<1>. QED
  <2>1. \A j \in 0..Len(t) : j \in T
    <3> HIDE DEF T
    <3>. QED
      BY <1>2, <1>3, <1>4, UpTo
  <2>. QED
    BY <1>1, <2>1

LEMMA PutFirst ==
  ASSUME NEW p, NEW s, NEW t, Within(t, s, 0)
  PROVE  \A j \in 0..Len(t) : Put(p, t)[j] = Put(p, s)[j]
<1>1. Len(s) \in Nat /\ Len(t) \in Nat
  BY DEF Within
<1>2. \A j \in 0..Len(t) : Put(Put(p, s)[0], t)[j] = Put(p, s)[0 + j]
  BY PutWithin
<1>3. Put(p, s)[0] = p
  BY <1>1, PutIs
<1>4. \A j \in 0..Len(t) : 0 + j = j
  BY <1>1
<1>. QED
  BY <1>2, <1>3, <1>4

(* The bytes at which the device's parser completes a message. *)
PutEnds(q, s) == MessageEnds(Put(q, s), s)

LEMMA PutEndsWithin ==
  ASSUME NEW p, NEW s, NEW t, NEW n, Within(t, s, n)
  PROVE  \A k \in 1..Len(t) : k \in PutEnds(Put(p, s)[n], t) <=> n + k \in PutEnds(p, s)
<1>0. PICK q : q = Put(p, s)[n]
  OBVIOUS
<1>1. /\ Len(s) \in Nat /\ Len(t) \in Nat /\ n \in Nat /\ n + Len(t) <= Len(s)
      /\ \A j \in 1..Len(t) : t[j] = s[n + j]
  BY DEF Within
<1>2. \A j \in 0..Len(t) : Put(Put(p, s)[n], t)[j] = Put(p, s)[n + j]
  BY PutWithin
<1>3. \A j \in 0..Len(t) : Put(q, t)[j] = Put(p, s)[n + j]
  BY <1>0, <1>2
<1>4. ASSUME NEW k \in 1..Len(t) PROVE k \in PutEnds(q, t) <=> n + k \in PutEnds(p, s)
  <2>1. PICK j : j = k - 1
    OBVIOUS
  <2>2. j \in 0..Len(t) /\ n + j = (n + k) - 1 /\ n + k \in 1..Len(s)
    BY <1>1, <2>1
  <2>3. Put(q, t)[k - 1] = Put(p, s)[(n + k) - 1] /\ t[k] = s[n + k]
    BY <1>1, <1>3, <2>1, <2>2
  <2>. QED
    BY <2>2, <2>3 DEF PutEnds, MessageEnds
<1>. QED
  BY <1>0, <1>4
-----------------------------------------------------------------------------
(* A byte that does not end the message adds at most a byte to the fields. *)
LEMMA SizeStep ==
  ASSUME NEW p \in Parsers, NEW b \in Byte, b.c # Nul, b.c # End \/ p.esc
  PROVE  /\ Size(p.fields) \in Nat /\ Size(ParseByte(p, b).fields) \in Nat
         /\ Size(p.fields) <= Size(ParseByte(p, b).fields)
<1>1. p.fields \in Seq(Stream) /\ p.fields # <<>> /\ p.esc \in BOOLEAN
  BY DEF Parsers
<1>2. PICK H \in Seq(Stream), cur \in Stream : p.fields = Append(H, cur)
  BY <1>1, LastField
<1>3. Size(p.fields) \in Nat
  BY <1>2, SizeGrown
<1>4. ASSUME NEW e \in Byte PROVE Size(Grow(p.fields, e)) = Size(p.fields) + 1
  <2>1. Grow(p.fields, e) = Append(H, Append(cur, e))
    BY <1>2, Grown
  <2>. QED
    BY <1>2, <2>1, SizeGrown
<1>5. Size(Append(p.fields, <<>>)) = Size(p.fields) + 1
  BY <1>2, SizeGrown
<1>6. CASE p.esc
  <2>1. ParseByte(p, b).fields = Grow(p.fields, Unescaped(b))
    BY <1>6, ParseByteForm
  <2>. QED
    BY <1>3, <1>4, <2>1, UnescapedIs
<1>7. CASE ~p.esc /\ b.c = Esc
  <2>1. ParseByte(p, b).fields = p.fields
    BY <1>7, ParseByteForm
  <2>. QED
    BY <1>3, <2>1
<1>8. CASE ~p.esc /\ b.c = Sep
  <2>1. ParseByte(p, b).fields = Append(p.fields, <<>>)
    BY <1>8, ParseByteForm
  <2>. QED
    BY <1>3, <1>5, <2>1
<1>9. CASE ~p.esc /\ b.c \notin {Esc, Sep, End}
  <2>1. ParseByte(p, b).fields = Grow(p.fields, b)
    BY <1>9, ParseByteForm
  <2>. QED
    BY <1>3, <1>4, <2>1
<1>. QED
  BY <1>6, <1>7, <1>8, <1>9

(* The characters that mean something else than themselves. *)
Special == {Esc, Sep, End, "n", "0"}

(* The device's parser stays with the server's, unless its buffer is full. *)
LEMMA LayoutStep ==
  ASSUME NEW q \in Buffers, NEW p \in Parsers, NEW b \in Byte, b.c # Nul,
         b.c # End \/ p.esc, q.esc = p.esc \/ b.c \notin Special,
         LaidOut(q.buf, q.args, p.fields), bufSize \in Nat,
         Size(ParseByte(p, b).fields) <= bufSize
  PROVE  /\ PutByte(q, b).esc = ParseByte(p, b).esc
         /\ LaidOut(PutByte(q, b).buf, PutByte(q, b).args, ParseByte(p, b).fields)
<1>1. PICK x, F, G : x = PutInBuffer(q, b) /\ F = p.fields /\ G = ParseByte(p, b).fields
  OBVIOUS
<1>2. /\ q.buf \in Stream /\ q.args \in Seq(Nat \ {0}) /\ q.esc \in BOOLEAN
      /\ F \in Seq(Stream) /\ F # <<>> /\ p.esc \in BOOLEAN
      /\ LaidOut(q.buf, q.args, F)
  BY <1>1 DEF Buffers, Parsers
<1>3. LaidOut(x.buf, x.args, G)
  <2>1. CASE p.esc /\ q.esc
    <3>1. PICK e : e = Unescaped(b)
      OBVIOUS
    <3>2. e \in Byte
      BY <3>1, UnescapedIs
    <3>3. x = [esc |-> FALSE, buf |-> Append(q.buf, e), args |-> q.args]
      BY <1>1, <2>1, <3>1, PutInBufferIs
    <3>4. G = Grow(F, e)
      BY <1>1, <2>1, <3>1, ParseByteForm
    <3>5. LaidOut(Append(q.buf, e), q.args, Grow(F, e))
      BY <1>2, <3>2, LaidGrow
    <3>. QED
      BY <3>3, <3>4, <3>5
  <2>2. CASE b.c \notin Special
    <3>1. b.c \notin {"n", "0"} /\ b.c \notin {Esc, Sep, End}
      BY <2>2 DEF Special
    <3>2. Unescaped(b) = b
      BY <3>1, UnescapedIs
    <3>3. x.buf = Append(q.buf, b) /\ x.args = q.args
      <4>1. CASE q.esc
        <5>1. x = [esc |-> FALSE, buf |-> Append(q.buf, Unescaped(b)), args |-> q.args]
          BY <1>1, <4>1, PutInBufferIs
        <5>. QED
          BY <3>2, <5>1
      <4>2. CASE ~q.esc
        <5>1. x = [esc |-> FALSE, buf |-> Append(q.buf, b), args |-> q.args]
          BY <1>1, <3>1, <4>2, PutInBufferIs
        <5>. QED
          BY <5>1
      <4>. QED
        BY <4>1, <4>2
    <3>4. G = Grow(F, b)
      <4>1. CASE p.esc
        BY <1>1, <3>2, <4>1, ParseByteForm
      <4>2. CASE ~p.esc
        BY <1>1, <3>1, <4>2, ParseByteForm
      <4>. QED
        BY <4>1, <4>2
    <3>5. LaidOut(Append(q.buf, b), q.args, Grow(F, b))
      BY <1>2, LaidGrow
    <3>. QED
      BY <3>3, <3>4, <3>5
  <2>3. CASE ~p.esc /\ ~q.esc /\ b.c = Esc
    <3>1. x = [esc |-> TRUE, buf |-> q.buf, args |-> q.args]
      BY <1>1, <2>3, PutInBufferIs
    <3>2. G = F
      BY <1>1, <2>3, ParseByteForm
    <3>. QED
      BY <1>2, <3>1, <3>2
  <2>4. CASE ~p.esc /\ ~q.esc /\ b.c = Sep
    <3>1. PICK e : e = [b EXCEPT !.c = Nul]
      OBVIOUS
    <3>2. e \in Byte /\ e.c = Nul
      BY <3>1 DEF Byte, Char
    <3>3. x = [esc |-> FALSE, buf |-> Append(q.buf, e), args |-> Append(q.args, Len(q.buf) + 2)]
      BY <1>1, <2>4, <3>1, PutInBufferIs
    <3>4. G = Append(F, <<>>)
      BY <1>1, <2>4, ParseByteForm
    <3>5. LaidOut(Append(q.buf, e), Append(q.args, Len(q.buf) + 2), Append(F, <<>>))
      BY <1>2, <3>2, LaidNext
    <3>. QED
      BY <3>3, <3>4, <3>5
  <2>5. CASE ~p.esc /\ ~q.esc /\ b.c \notin {Esc, Sep, End}
    <3>1. x = [esc |-> FALSE, buf |-> Append(q.buf, b), args |-> q.args]
      BY <1>1, <2>5, PutInBufferIs
    <3>2. G = Grow(F, b)
      BY <1>1, <2>5, ParseByteForm
    <3>3. LaidOut(Append(q.buf, b), q.args, Grow(F, b))
      BY <1>2, LaidGrow
    <3>. QED
      BY <3>1, <3>2, <3>3
  <2>. QED
    BY <1>2, <2>1, <2>2, <2>3, <2>4, <2>5
<1>4. PutByte(q, b) = x
  <2>1. Len(x.buf) + 1 = Size(G)
    BY <1>3 DEF LaidOut
  <2>2. x \in Buffers
    BY <1>1, PutByteIs
  <2>3. Len(x.buf) \in Nat
    BY <2>2 DEF Buffers, Stream
  <2>4. Len(x.buf) # bufSize
    <3>1. PICK l : l = Len(x.buf)
      OBVIOUS
    <3>2. l + 1 <= bufSize /\ l \in Nat
      BY <1>1, <2>1, <2>3, <3>1
    <3>. QED
      BY <3>1, <3>2
  <2>. QED
    BY <1>1, <2>4, PutByteIs
<1>5. q.esc = p.esc \/ b.c # Esc
  BY DEF Special
<1>6. PutByte(q, b).esc = ParseByte(p, b).esc
  BY <1>5, EscAgrees
<1>. QED
  BY <1>1, <1>3, <1>4, <1>6

LEMMA TaggedSize ==
  ASSUME NEW m \in Messages, NEW i \in Nat
  PROVE  /\ Size(Tagged(m, i)) = Len(FlattenSeq(m)) + Len(m)
         /\ Len(FlattenSeq(m)) \in Nat /\ Len(m) \in Nat
<1>1. PICK F, n : F = Tagged(m, i) /\ n = Len(m)
  OBVIOUS
<1>2. m \in Seq(Seq(Char)) /\ n \in Nat
  BY <1>1 DEF Messages
<1>3. F \in Seq(Stream) /\ Len(F) = n /\ \A k \in 1..n : F[k] = Tag(m[k], i)
  BY <1>1, <1>2, TaggedIs
<1>4. PICK e : /\ e[0] = <<>> /\ e[Len(F)] = FlattenSeq(F)
               /\ \A k \in 0..Len(F) : e[k] \in Stream
               /\ \A k \in 1..Len(F) : e[k] = e[k - 1] \o F[k]
  BY <1>3, FlattenSteps
<1>5. PICK d : /\ d[0] = <<>> /\ d[Len(m)] = FlattenSeq(m)
               /\ \A k \in 0..Len(m) : d[k] \in Seq(Char)
               /\ \A k \in 1..Len(m) : d[k] = d[k - 1] \o m[k]
  BY <1>2, FlattenIs
<1> DEFINE T == {k \in 0..n : Len(e[k]) = Len(d[k])}
<1>6. 0 \in T
  BY <1>2, <1>4, <1>5
<1>7. ASSUME NEW k \in 0..n, k \in T, k + 1 <= n PROVE k + 1 \in T
  <2>1. k + 1 \in 1..n /\ (k + 1) - 1 = k /\ k + 1 \in 0..n
    BY <1>2, <1>7
  <2>2. PICK x, y, u, w : x = e[k] /\ y = F[k + 1] /\ u = d[k] /\ w = m[k + 1]
    OBVIOUS
  <2>3. x \in Seq(Byte) /\ y \in Seq(Byte) /\ u \in Seq(Char) /\ w \in Seq(Char)
    BY <1>1, <1>2, <1>3, <1>4, <1>5, <2>1, <2>2 DEF Stream
  <2>4. e[k + 1] = x \o y /\ d[k + 1] = u \o w
    BY <1>1, <1>3, <1>4, <1>5, <2>1, <2>2
  <2>5. Len(x) = Len(u)
    BY <1>7, <2>2
  <2>6. Len(y) = Len(w)
    <3>1. y = Tag(w, i)
      BY <1>3, <2>1, <2>2
    <3>. QED
      BY <2>3, <3>1, TagIs
  <2>7. Len(x \o y) = Len(x) + Len(y) /\ Len(u \o w) = Len(u) + Len(w)
    BY <2>3, JoinedIs
  <2>. QED
    BY <2>1, <2>4, <2>5, <2>6, <2>7
<1>8. n \in T
  <2>1. \A k \in 0..n : k \in T
    <3> HIDE DEF T
    <3>. QED
      BY <1>2, <1>6, <1>7, UpTo
  <2>. QED
    BY <1>2, <2>1
<1>9. d[n] \in Seq(Char) /\ n \in 0..n
  BY <1>1, <1>2, <1>5
<1>10. PICK x, y : x = FlattenSeq(F) /\ y = FlattenSeq(m)
  OBVIOUS
<1>11. y \in Seq(Char) /\ Len(x) = Len(y)
  BY <1>1, <1>3, <1>4, <1>5, <1>8, <1>9, <1>10
<1>12. Size(F) = Len(x) + n
  BY <1>3, <1>10 DEF Size
<1>. QED
  BY <1>1, <1>2, <1>10, <1>11, <1>12

-----------------------------------------------------------------------------
(* A message that fits, read as a whole by a parser with an empty buffer.  *)
LEMMA WholeIsRead ==
  ASSUME NEW m \in Messages, NEW i \in Nat,
         Len(Bytes(m, i)) >= 2, Bytes(m, i)[1].c \notin Special,
         bufSize \in Nat, Fits(m), NEW e \in BOOLEAN
  PROVE  FieldsOf(Put(Clean(e), Bytes(m, i))[Len(Bytes(m, i)) - 1]) = Tagged(m, i)
<1>0. PICK s, n : s = Bytes(m, i) /\ n = Len(s)
  OBVIOUS
<1>1. /\ n = Len(s) /\ n >= 2 /\ s[1].c \notin Special
      /\ s \in Stream /\ n \in Nat /\ n - 1 \in Nat /\ n - 1 \in 0..(n - 1)
      /\ \A k \in 1..(n - 1) : s[k] \in Byte /\ s[k].c # Nul /\ s[k].c # End
      /\ Parsed(FreshParser, s)[n - 1] = [esc |-> FALSE, fields |-> Tagged(m, i)]
  <2>1. /\ s \in Stream /\ n \in Nat
        /\ \A k \in 1..n : s[k].c # Nul
        /\ \A k \in 1..n : s[k].c = End <=> k = n
        /\ Parsed(FreshParser, s)[n - 1] = [esc |-> FALSE, fields |-> Tagged(m, i)]
    BY <1>0, BytesAre
  <2>2. \A k \in 1..(n - 1) : k \in 1..n /\ k # n
    BY <2>1
  <2>. QED
    BY <1>0, <2>1, <2>2 DEF Stream
<1>2. PICK p, q : p = Parsed(FreshParser, s) /\ q = Put(Clean(e), s)
  OBVIOUS
<1>3. /\ p[0] = FreshParser /\ q[0] = Clean(e)
      /\ \A k \in 0..(n - 1) : p[k] \in Parsers /\ q[k] \in Buffers
      /\ \A k \in 1..(n - 1) : p[k] = ParseByte(p[k - 1], s[k])
      /\ \A k \in 1..(n - 1) : q[k] = PutByte(q[k - 1], s[k])
  <2>1. \A k \in 0..(n - 1) : k \in 0..n
    BY <1>1
  <2>2. \A k \in 1..(n - 1) : k \in 1..n
    BY <1>1
  <2>. QED
    <3>1. s \in Stream /\ Len(s) = n /\ Len(s) \in Nat /\ Clean(e) \in Buffers /\ FreshParser \in Parsers
      BY <1>1, CleanIs, FreshIs
    <3>2. \A k \in 0..n : p[k] \in Parsers /\ q[k] \in Buffers
      BY <1>2, <3>1, PutType, ParsedType
    <3>3. /\ p[0] = FreshParser /\ q[0] = Clean(e)
          /\ \A k \in 1..n : p[k] = ParseByte(p[k - 1], s[k])
          /\ \A k \in 1..n : q[k] = PutByte(q[k - 1], s[k])
      BY <1>2, <3>1, PutIs, ParsedIs
    <3>. QED
      BY <2>1, <2>2, <3>2, <3>3
<1>4. \A k \in 0..(n - 1) : Size(p[k].fields) <= bufSize
  <2> DEFINE T == {k \in 0..(n - 1) : Size(p[(n - 1) - k].fields) <= bufSize}
  <2>1. 0 \in T
    <3>1. Size(Tagged(m, i)) = Len(FlattenSeq(m)) + Len(m) /\ Len(FlattenSeq(m)) \in Nat
          /\ Len(m) \in Nat
      BY TaggedSize
    <3>2. Len(FlattenSeq(m)) + Len(m) - 1 < bufSize
      BY DEF Fits
    <3>3. Size(Tagged(m, i)) <= bufSize
      BY <3>1, <3>2
    <3>4. (n - 1) - 0 = n - 1 /\ 0 \in 0..(n - 1)
      BY <1>1
    <3>5. p[n - 1].fields = Tagged(m, i)
      BY <1>1, <1>2
    <3>. QED
      BY <3>3, <3>4, <3>5
  <2>2. ASSUME NEW k \in 0..(n - 1), k \in T, k + 1 <= n - 1 PROVE k + 1 \in T
    <3>1. PICK j : j = (n - 1) - k
      OBVIOUS
    <3>2. /\ j \in 1..(n - 1) /\ j - 1 = (n - 1) - (k + 1) /\ j - 1 \in 0..(n - 1)
          /\ k + 1 \in 0..(n - 1)
      <4>1. PICK l : l = n - 1
        OBVIOUS
      <4>2. l \in Nat /\ k \in 0..l /\ k + 1 <= l /\ j = l - k
        BY <1>1, <2>2, <3>1, <4>1
      <4>3. j \in 1..l /\ j - 1 = l - (k + 1) /\ j - 1 \in 0..l /\ k + 1 \in 0..l
        BY <4>2
      <4>. QED
        BY <4>1, <4>3
    <3>3. PICK a, b : a = p[j - 1] /\ b = s[j]
      OBVIOUS
    <3>4. a \in Parsers /\ b \in Byte /\ b.c # Nul /\ b.c # End /\ p[j] = ParseByte(a, b)
      BY <1>1, <1>3, <3>2, <3>3
    <3>5. /\ Size(a.fields) \in Nat /\ Size(ParseByte(a, b).fields) \in Nat
          /\ Size(a.fields) <= Size(ParseByte(a, b).fields)
      BY <3>4, SizeStep
    <3>6. Size(p[j].fields) <= bufSize
      BY <2>2, <3>1
    <3>7. Size(a.fields) <= bufSize
      BY <3>4, <3>5, <3>6
    <3>. QED
      BY <3>2, <3>3, <3>7
  <2>3. \A k \in 0..(n - 1) : k \in T
    <3> HIDE DEF T
    <3>. QED
      BY <1>1, <2>1, <2>2, UpTo
  <2>4. ASSUME NEW k \in 0..(n - 1) PROVE Size(p[k].fields) <= bufSize
    <3>1. (n - 1) - k \in 0..(n - 1) /\ (n - 1) - ((n - 1) - k) = k
      BY <1>1
    <3>2. (n - 1) - k \in T
      BY <2>3, <3>1
    <3>. QED
      BY <3>1, <3>2
  <2>. QED
    BY <2>4
<1>5. \A k \in 0..(n - 1) : /\ k = 0 \/ q[k].esc = p[k].esc
                            /\ LaidOut(q[k].buf, q[k].args, p[k].fields)
  <2> DEFINE T == {k \in 0..(n - 1) : /\ k = 0 \/ q[k].esc = p[k].esc
                                      /\ LaidOut(q[k].buf, q[k].args, p[k].fields)}
  <2>1. 0 \in T
    <3>1. q[0].buf = <<>> /\ q[0].args = <<>> /\ p[0].fields = NoMessage
      BY <1>3, CleanIs DEF FreshParser
    <3>2. 0 \in 0..(n - 1)
      BY <1>1
    <3>. QED
      BY <3>1, <3>2, LaidFresh
  <2>2. ASSUME NEW k \in 0..(n - 1), k \in T, k + 1 <= n - 1 PROVE k + 1 \in T
    <3>1. k + 1 \in 1..(n - 1) /\ (k + 1) - 1 = k /\ k + 1 \in 0..(n - 1)
      BY <1>1, <2>2
    <3>2. PICK a, b, c : a = p[k] /\ b = s[k + 1] /\ c = q[k]
      OBVIOUS
    <3>3. /\ a \in Parsers /\ b \in Byte /\ c \in Buffers /\ b.c # Nul /\ b.c # End
          /\ p[k + 1] = ParseByte(a, b) /\ q[k + 1] = PutByte(c, b)
          /\ LaidOut(c.buf, c.args, a.fields)
      BY <1>1, <1>3, <2>2, <3>1, <3>2
    <3>4. c.esc = a.esc \/ b.c \notin Special
      <4>1. CASE k = 0
        BY <1>1, <3>2, <4>1
      <4>2. CASE k # 0
        BY <2>2, <3>2, <4>2
      <4>. QED
        BY <4>1, <4>2
    <3>5. Size(ParseByte(a, b).fields) <= bufSize
      BY <1>4, <3>1, <3>3
    <3>6. /\ PutByte(c, b).esc = ParseByte(a, b).esc
          /\ LaidOut(PutByte(c, b).buf, PutByte(c, b).args, ParseByte(a, b).fields)
      BY <3>3, <3>4, <3>5, LayoutStep
    <3>. QED
      BY <3>1, <3>3, <3>6
  <2>3. \A k \in 0..(n - 1) : k \in T
    <3> HIDE DEF T
    <3>. QED
      BY <1>1, <2>1, <2>2, UpTo
  <2>. QED
    BY <2>3
<1>6. PICK l, F : l = q[n - 1] /\ F = Tagged(m, i)
  OBVIOUS
<1>7. /\ l \in Buffers /\ l.esc = FALSE /\ LaidOut(l.buf, l.args, F)
  <2>1. n - 1 # 0
    BY <1>1
  <2>2. p[n - 1].esc = FALSE /\ p[n - 1].fields = F
    BY <1>1, <1>2, <1>6
  <2>. QED
    BY <1>1, <1>3, <1>5, <1>6, <2>1, <2>2
<1>8. /\ F \in Seq(Stream) /\ F # <<>>
      /\ \A k \in 1..Len(F) : \A j \in 1..Len(F[k]) : F[k][j].c # Nul
  <2>1. m \in Seq(Seq(Char)) /\ Len(m) \in Nat /\ Len(m) # 0
    BY DEF Messages
  <2>2. F \in Seq(Stream) /\ Len(F) = Len(m) /\ \A k \in 1..Len(m) : F[k] = Tag(m[k], i)
    BY <1>6, <2>1, TaggedIs
  <2>3. ASSUME NEW k \in 1..Len(F), NEW j \in 1..Len(F[k]) PROVE F[k][j].c # Nul
    <3>1. PICK t : t = m[k]
      OBVIOUS
    <3>2. t \in Seq(Char) /\ F[k] = Tag(t, i)
      BY <2>1, <2>2, <3>1
    <3>3. j \in 1..Len(t) /\ F[k][j] = [c |-> t[j], i |-> i]
      <4>1. Len(Tag(t, i)) = Len(t) /\ \A x \in 1..Len(t) : Tag(t, i)[x] = [c |-> t[x], i |-> i]
        BY <3>2, TagIs
      <4>. QED
        BY <3>2, <4>1
    <3>4. ~Contains(t, Nul)
      BY <2>2, <3>1 DEF Fits
    <3>5. t[j] # Nul
      BY <3>3, <3>4 DEF Contains
    <3>. QED
      BY <3>3, <3>5
  <2>. QED
    BY <2>1, <2>2, <2>3
<1>9. FieldsOf(l) = F
  BY <1>7, <1>8, LaidFields
<1>. QED
  BY <1>0, <1>2, <1>6, <1>7, <1>9

-----------------------------------------------------------------------------
(***************************************************************************)
(* What the device has still to read, with what it has read of a message.  *)
(***************************************************************************)
(* The bytes of n messages, in order, and none after the last of its own.  *)
Placed(s, n) ==
  /\ \A k \in 1..Len(s) : s[k].i \in 1..n /\ s[k].c # Nul
  /\ \A j, k \in 1..Len(s) :
       j < k => s[j].i <= s[k].i /\ (s[j].c = End => s[j].i < s[k].i)

(* These bytes have all of message i. *)
Whole(s, i, all) ==
  \E k \in 0..Len(s) : Within(Bytes(all[i], i), s, k) /\ (k = 0 \/ s[k].i # i)

(* The messages that the device may not be given as they were written. *)
Broken(s, all) ==
  {i \in 1..Len(all) : /\ \E k \in 1..Len(s) : s[k].i = i
                       /\ ~(Fits(all[i]) /\ Whole(s, i, all))}

AllRequests(all) ==
  all \in Seq(Messages) /\ \A i \in 1..Len(all) : all[i][1] \in RequestTitles

(* The bytes of request number i. *)
RequestBytes(s, i) ==
  /\ s \in Stream /\ Len(s) \in Nat /\ Len(s) >= 2 /\ i \in Nat /\ i # 0
  /\ s[1].c \notin Special
  /\ \A k \in 1..Len(s) : s[k].i = i /\ s[k].c # Nul
  /\ \A k \in 1..Len(s) : s[k].c = End <=> k = Len(s)
  /\ Parsed(FreshParser, s)[Len(s) - 1].esc = FALSE

LEMMA RequestIs ==
  ASSUME NEW all, AllRequests(all), NEW i \in 1..Len(all)
  PROVE  all[i] \in Messages /\ RequestBytes(Bytes(all[i], i), i)
<1>0. PICK s, n : s = Bytes(all[i], i) /\ n = Len(s)
  OBVIOUS
<1>1. PICK m : m = all[i]
  OBVIOUS
<1>2. m \in Messages /\ i \in Nat /\ i # 0 /\ m[1] \in RequestTitles
  BY <1>1 DEF AllRequests
<1>3. PICK ch : ch \in {"identify", "#identify_hub", "call"} /\ m[1] = <<ch>>
  BY <1>2 DEF RequestTitles
<1>4. ch \in Char \ {End, Nul, Esc, Sep} /\ ch \notin Special
  BY <1>3 DEF Char, End, Nul, Esc, Sep, Special
<1>5. s[1] = [c |-> ch, i |-> i] /\ n >= 2
  BY <1>0, <1>1, <1>2, <1>3, <1>4, FirstByte
<1>6. /\ s \in Stream /\ n \in Nat
      /\ \A k \in 1..n : s[k].i = i /\ s[k].c # Nul
      /\ \A k \in 1..n : s[k].c = End <=> k = n
      /\ Parsed(FreshParser, s)[n - 1] = [esc |-> FALSE, fields |-> Tagged(m, i)]
  BY <1>0, <1>1, <1>2, BytesAre
<1>. QED
  BY <1>0, <1>1, <1>2, <1>4, <1>5, <1>6 DEF RequestBytes

(* Where a whole message ends the device's parser completes one, whatever  *)
(* it has read before.                                                     *)
LEMMA WholeEnds ==
  ASSUME NEW all, AllRequests(all), NEW i \in 1..Len(all), NEW s \in Stream, NEW k,
         Within(Bytes(all[i], i), s, k), NEW q \in Buffers
  PROVE  k + Len(Bytes(all[i], i)) \in PutEnds(q, s)
<1>1. PICK b, n, r : b = Bytes(all[i], i) /\ n = Len(b) /\ r = Put(q, s)[k]
  OBVIOUS
<1>2. /\ b \in Stream /\ n \in Nat /\ n >= 2 /\ b[1].c \notin Special
      /\ \A j \in 1..n : b[j].c # Nul
      /\ b[n].c = End
      /\ Parsed(FreshParser, b)[n - 1].esc = FALSE
  <2>1. RequestBytes(b, i)
    BY <1>1, RequestIs
  <2>. QED
    BY <1>1, <2>1 DEF RequestBytes
<1>3. r \in Buffers
  <2>1. k \in 0..Len(s)
    BY DEF Within
  <2>. QED
    BY <1>1, <2>1, PutType
<1>4. Put(r, b)[n - 1].esc = FALSE
  <2>1. FreshParser \in Parsers
    BY FreshIs
  <2>2. b[1].c # Esc
    BY <1>2 DEF Special
  <2>3. \A j \in 1..Len(b) : Put(r, b)[j].esc = Parsed(FreshParser, b)[j].esc
    BY <1>1, <1>2, <1>3, <2>1, <2>2, Aligned
  <2>4. n - 1 \in 1..Len(b)
    BY <1>1, <1>2
  <2>. QED
    BY <1>2, <2>3, <2>4
<1>5. n \in PutEnds(r, b)
  BY <1>1, <1>2, <1>4 DEF PutEnds, MessageEnds
<1>6. \A j \in 1..Len(b) : j \in PutEnds(Put(q, s)[k], b) <=> k + j \in PutEnds(q, s)
  BY <1>1, PutEndsWithin
<1>7. n \in 1..Len(b)
  BY <1>1, <1>2
<1>. QED
  BY <1>1, <1>5, <1>6, <1>7

(* The message that the bytes begin with is whole only from their first.   *)
LEMMA WholeFirst ==
  ASSUME NEW all, AllRequests(all), NEW s \in Stream, s # <<>>, Placed(s, Len(all)),
         NEW i, i = s[1].i, Whole(s, i, all)
  PROVE  i \in 1..Len(all) /\ Within(Bytes(all[i], i), s, 0)
<1>1. Len(s) \in Nat /\ Len(s) >= 1 /\ 1 \in 1..Len(s)
  BY DEF Stream
<1>2. i \in 1..Len(all)
  BY <1>1 DEF Placed
<1>3. PICK b, n : b = Bytes(all[i], i) /\ n = Len(b)
  OBVIOUS
<1>4. n \in Nat /\ n >= 2 /\ b[1].i = i
  <2>0. RequestBytes(b, i)
    BY <1>2, <1>3, RequestIs
  <2>1. n \in Nat /\ n >= 2 /\ \A j \in 1..n : b[j].i = i
    BY <1>3, <2>0 DEF RequestBytes
  <2>2. 1 \in 1..n
    BY <2>1
  <2>. QED
    BY <2>1, <2>2
<1>5. PICK k \in 0..Len(s) : Within(b, s, k) /\ (k = 0 \/ s[k].i # i)
  BY <1>3 DEF Whole
<1>6. s[k + 1].i = i /\ k + 1 \in 1..Len(s)
  <2>1. k + n <= Len(s) /\ \A j \in 1..n : b[j] = s[k + j]
    BY <1>3, <1>5 DEF Within
  <2>2. 1 \in 1..n
    BY <1>4
  <2>. QED
    BY <1>1, <1>4, <2>1, <2>2
<1>7. CASE k # 0
  <2>1. k \in 1..Len(s) /\ k < k + 1 /\ (k = 1 \/ 1 < k)
    BY <1>1, <1>7
  <2>2. s[k].i <= s[k + 1].i
    BY <1>6, <2>1 DEF Placed
  <2>3. s[1].i <= s[k].i
    <3>1. CASE k = 1
      <4>1. s[1].i \in 1..Len(all)
        BY <1>2
      <4>. QED
        BY <3>1, <4>1
    <3>2. CASE 1 < k
      BY <1>1, <2>1, <3>2 DEF Placed
    <3>. QED
      BY <2>1, <3>1, <3>2
  <2>4. s[k].i \in Nat
    BY <2>1 DEF Placed
  <2>5. s[k].i = i
    <3>1. PICK a : a = s[k].i
      OBVIOUS
    <3>2. i \in Nat
      BY <1>2
    <3>. QED
      BY <1>6, <2>2, <2>3, <2>4, <3>1, <3>2
  <2>. QED
    BY <1>5, <1>7, <2>5
<1>8. CASE k = 0
  BY <1>2, <1>3, <1>5, <1>8
<1>. QED
  BY <1>7, <1>8

(* The device reads a message that its bytes begin with.                   *)
LEMMA FirstIsRead ==
  ASSUME NEW all, AllRequests(all), NEW i \in 1..Len(all), NEW s \in Stream,
         Within(Bytes(all[i], i), s, 0), NEW e \in BOOLEAN,
         NEW n \in PutEnds(Clean(e), s), \A k \in PutEnds(Clean(e), s) : n <= k
  PROVE  /\ n = Len(Bytes(all[i], i)) /\ s[n].i = i
         /\ bufSize \in Nat /\ Fits(all[i])
              => Origin(FieldsOf(Put(Clean(e), s)[n - 1]), s[n], all) = i
<1>1. PICK b, l : b = Bytes(all[i], i) /\ l = Len(b)
  OBVIOUS
<1>2. /\ all[i] \in Messages /\ i \in Nat /\ i # 0
      /\ b \in Stream /\ l \in Nat /\ l >= 2 /\ b[1].c \notin Special
      /\ \A j \in 1..l : b[j].i = i
      /\ \A j \in 1..l : b[j].c = End <=> j = l
  <2>1. RequestBytes(b, i) /\ all[i] \in Messages
    BY <1>1, RequestIs
  <2>. QED
    BY <1>1, <2>1 DEF RequestBytes
<1>3. \A j \in 1..l : b[j] = s[j]
  <2>1. \A j \in 1..l : b[j] = s[0 + j] /\ 0 + j = j
    BY <1>1, <1>2 DEF Within
  <2>. QED
    BY <2>1
<1>4. Clean(e) \in Buffers
  BY CleanIs
<1>5. n <= l
  <2>1. 0 + Len(Bytes(all[i], i)) \in PutEnds(Clean(e), s)
    BY <1>4, WholeEnds
  <2>. QED
    BY <1>1, <1>2, <2>1
<1>6. n \in 1..Len(s) /\ s[n].c = End /\ n \in Nat /\ n >= 1
  BY DEF PutEnds, MessageEnds
<1>7. n = l
  <2>1. n \in 1..l
    BY <1>2, <1>5, <1>6
  <2>. QED
    BY <1>2, <1>3, <1>6, <2>1
<1>8. n \in 1..l /\ s[n].i = i
  BY <1>2, <1>3, <1>7
<1>9. ASSUME bufSize \in Nat, Fits(all[i])
      PROVE  Origin(FieldsOf(Put(Clean(e), s)[n - 1]), s[n], all) = i
  <2>1. FieldsOf(Put(Clean(e), b)[l - 1]) = Tagged(all[i], i)
    <3>1. PICK m : m = all[i]
      OBVIOUS
    <3>2. m \in Messages /\ b = Bytes(m, i) /\ Fits(m)
      BY <1>1, <1>2, <1>9, <3>1
    <3>3. Len(Bytes(m, i)) >= 2 /\ Bytes(m, i)[1].c \notin Special
      BY <1>1, <1>2, <3>2
    <3>4. FieldsOf(Put(Clean(e), Bytes(m, i))[Len(Bytes(m, i)) - 1]) = Tagged(m, i)
      BY <1>2, <1>9, <3>2, <3>3, WholeIsRead
    <3>. QED
      BY <1>1, <3>1, <3>4
  <2>2. l - 1 \in 0..Len(b)
    BY <1>1, <1>2
  <2>3. Put(Clean(e), b)[l - 1] = Put(Clean(e), s)[l - 1]
    <3>1. Within(b, s, 0)
      BY <1>1
    <3>. QED
      BY <2>2, <3>1, PutFirst
  <2>4. Len(all) \in Nat
    BY DEF AllRequests
  <2>5. Origin(Tagged(all[i], i), s[n], all) = i
    BY <1>2, <1>8, <2>4, OriginOfWhole
  <2>. QED
    BY <1>7, <2>1, <2>3, <2>5
<1>. QED
  BY <1>1, <1>7, <1>8, <1>9

LEMMA PlacedIs ==
  ASSUME NEW s, NEW n, Placed(s, n), NEW j \in 1..Len(s), NEW k \in 1..Len(s), j <= k
  PROVE  s[j].i \in Nat /\ s[k].i \in Nat /\ s[j].i <= s[k].i
<1>1. s[j].i \in Nat /\ s[k].i \in Nat
  BY DEF Placed
<1>2. CASE j = k
  BY <1>1, <1>2
<1>3. CASE j < k
  BY <1>1, <1>3 DEF Placed
<1>. QED
  BY <1>1, <1>2, <1>3

LEMMA PlacedWithin ==
  ASSUME NEW s, NEW n, Placed(s, n), NEW t, NEW x, Within(t, s, x)
  PROVE  Placed(t, n)
<1>1. /\ Len(s) \in Nat /\ Len(t) \in Nat /\ x \in Nat /\ x + Len(t) <= Len(s)
      /\ \A j \in 1..Len(t) : t[j] = s[x + j]
  BY DEF Within
<1>2. \A k \in 1..Len(t) : x + k \in 1..Len(s)
  BY <1>1
<1>3. \A k \in 1..Len(t) : t[k].i \in 1..n /\ t[k].c # Nul
  BY <1>1, <1>2 DEF Placed
<1>4. ASSUME NEW j \in 1..Len(t), NEW k \in 1..Len(t), j < k
      PROVE  t[j].i <= t[k].i /\ (t[j].c = End => t[j].i < t[k].i)
  <2>1. x + j < x + k
    BY <1>1, <1>4
  <2>. QED
    BY <1>1, <1>2, <2>1 DEF Placed
<1>. QED
  BY <1>3, <1>4 DEF Placed

(* What is left of the bytes has the messages that were whole, but for the *)
(* one it was cut in.                                                      *)
LEMMA WholeInTail ==
  ASSUME NEW all, AllRequests(all), NEW s \in Stream, Placed(s, Len(all)),
         NEW t, NEW n, Tail0(t, s, n), NEW i \in 1..Len(all),
         \E k \in 1..Len(t) : t[k].i = i, n = 0 \/ s[n].i # i, Whole(s, i, all)
  PROVE  Whole(t, i, all)
<1>1. PICK b, l : b = Bytes(all[i], i) /\ l = Len(b)
  OBVIOUS
<1>2. l \in Nat /\ l >= 2 /\ i \in Nat /\ \A j \in 1..l : b[j].i = i
  <2>1. RequestBytes(b, i)
    BY <1>1, RequestIs
  <2>. QED
    BY <1>1, <2>1 DEF RequestBytes
<1>3. PICK k \in 0..Len(s) : Within(b, s, k) /\ (k = 0 \/ s[k].i # i)
  BY <1>1 DEF Whole
<1>4. /\ Len(s) \in Nat /\ Len(t) \in Nat /\ n \in Nat /\ n + Len(t) = Len(s)
      /\ \A j \in 1..Len(t) : t[j] = s[n + j]
  BY DEF Tail0, Within
<1>5. k \in Nat /\ k + l <= Len(s) /\ \A j \in 1..l : b[j] = s[k + j]
  BY <1>1, <1>3 DEF Within
<1>6. PICK x \in 1..Len(t) : t[x].i = i
  OBVIOUS
<1>7. k >= n
  <2>1. ASSUME k < n PROVE FALSE
    <3>1. k + 1 \in 1..Len(s) /\ n \in 1..Len(s) /\ n + x \in 1..Len(s) /\ k + 1 <= n /\ n <= n + x
          /\ 1 \in 1..l
      BY <1>2, <1>4, <1>5, <2>1
    <3>2. s[k + 1].i = i /\ s[n + x].i = i
      BY <1>2, <1>4, <1>5, <1>6, <3>1
    <3>3. s[k + 1].i <= s[n].i /\ s[n].i <= s[n + x].i /\ s[n].i \in Nat
      BY <3>1, PlacedIs
    <3>4. s[n].i = i
      <4>1. PICK a : a = s[n].i
        OBVIOUS
      <4>. QED
        BY <1>2, <3>2, <3>3, <4>1
    <3>. QED
      BY <2>1, <1>5, <3>4
  <2>. QED
    BY <1>4, <1>5, <2>1
<1>8. PICK y : y = k - n
  OBVIOUS
<1>9. y \in 0..Len(t) /\ n + y = k /\ y + l <= Len(t)
  BY <1>2, <1>4, <1>5, <1>7, <1>8
<1>10. Within(b, t, y)
  <2>1. ASSUME NEW j \in 1..l PROVE b[j] = t[y + j]
    <3>1. y + j \in 1..Len(t) /\ n + (y + j) = k + j
      BY <1>2, <1>4, <1>9
    <3>. QED
      BY <1>4, <1>5, <3>1
  <2>. QED
    BY <1>1, <1>2, <1>4, <1>9, <2>1 DEF Within
<1>11. y = 0 \/ t[y].i # i
  <2>1. CASE y # 0
    <3>1. y \in 1..Len(t) /\ k # 0
      BY <1>4, <1>9, <2>1
    <3>. QED
      BY <1>3, <1>4, <1>9, <3>1
  <2>. QED
    BY <2>1
<1>. QED
  BY <1>1, <1>9, <1>10, <1>11 DEF Whole

LEMMA WholeInPart ==
  ASSUME NEW all, AllRequests(all), NEW s \in Stream, Placed(s, Len(all)),
         NEW t, Within(t, s, 0), NEW n, n = Len(t), NEW i \in 1..Len(all),
         \E k \in 1..n : t[k].i = i, s[n].i # i, Whole(s, i, all)
  PROVE  Whole(t, i, all)
<1>1. PICK b, l : b = Bytes(all[i], i) /\ l = Len(b)
  OBVIOUS
<1>2. l \in Nat /\ l >= 2 /\ i \in Nat /\ \A j \in 1..l : b[j].i = i
  <2>1. RequestBytes(b, i)
    BY <1>1, RequestIs
  <2>. QED
    BY <1>1, <2>1 DEF RequestBytes
<1>3. PICK k \in 0..Len(s) : Within(b, s, k) /\ (k = 0 \/ s[k].i # i)
  BY <1>1 DEF Whole
<1>4. /\ Len(s) \in Nat /\ n \in Nat /\ n <= Len(s) /\ n = Len(t)
      /\ \A j \in 1..n : t[j] = s[j]
  <2>1. /\ Len(s) \in Nat /\ Len(t) \in Nat /\ 0 + Len(t) <= Len(s)
        /\ \A j \in 1..Len(t) : t[j] = s[0 + j]
    BY DEF Within
  <2>2. \A j \in 1..Len(t) : 0 + j = j
    BY <2>1
  <2>. QED
    BY <2>1, <2>2
<1>5. k \in Nat /\ k + l <= Len(s) /\ \A j \in 1..l : b[j] = s[k + j]
  BY <1>1, <1>3 DEF Within
<1>6. PICK x \in 1..n : t[x].i = i
  OBVIOUS
<1>7. s[x].i = i /\ x \in 1..Len(s) /\ n \in 1..Len(s)
  BY <1>4, <1>6
<1>8. n \notin (k + 1)..(k + l)
  <2>1. ASSUME n \in (k + 1)..(k + l) PROVE FALSE
    <3>1. n - k \in 1..l /\ k + (n - k) = n
      BY <1>2, <1>4, <1>5, <2>1
    <3>2. s[n].i = i
      BY <1>2, <1>5, <3>1
    <3>. QED
      BY <3>2
  <2>. QED
    BY <2>1
<1>9. n > k
  <2>1. ASSUME n <= k PROVE FALSE
    <3>1. k \in 1..Len(s) /\ k + 1 \in 1..Len(s) /\ x <= k /\ k <= k + 1 /\ 1 \in 1..l
      BY <1>2, <1>4, <1>5, <1>7, <2>1
    <3>2. s[k + 1].i = i
      BY <1>2, <1>5, <3>1
    <3>3. s[x].i <= s[k].i /\ s[k].i <= s[k + 1].i /\ s[k].i \in Nat
      BY <1>7, <3>1, PlacedIs
    <3>4. s[k].i = i
      <4>1. PICK a : a = s[k].i
        OBVIOUS
      <4>. QED
        BY <1>2, <1>7, <3>2, <3>3, <4>1
    <3>. QED
      BY <1>3, <3>1, <3>4
  <2>. QED
    BY <1>4, <1>5, <2>1
<1>10. k + l <= n /\ k \in 0..n
  BY <1>2, <1>4, <1>5, <1>8, <1>9
<1>11. Within(b, t, k)
  <2>1. ASSUME NEW j \in 1..l PROVE b[j] = t[k + j]
    <3>1. k + j \in 1..n
      BY <1>2, <1>4, <1>5, <1>10
    <3>. QED
      BY <1>4, <1>5, <3>1
  <2>. QED
    BY <1>1, <1>2, <1>4, <1>5, <1>10, <2>1 DEF Within
<1>12. k = 0 \/ t[k].i # i
  <2>1. CASE k # 0
    <3>1. k \in 1..n
      BY <1>4, <1>10, <2>1
    <3>. QED
      BY <1>3, <1>4, <2>1, <3>1
  <2>. QED
    BY <2>1
<1>. QED
  BY <1>1, <1>4, <1>10, <1>11, <1>12 DEF Whole

(* The device has read a message.                                          *)
LEMMA ReadIs ==
  ASSUME NEW all, AllRequests(all), NEW s \in Stream, Placed(s, Len(all)), bufSize \in Nat,
         NEW e \in BOOLEAN, NEW n \in PutEnds(Clean(e), s),
         \A k \in PutEnds(Clean(e), s) : n <= k, NEW t, Tail0(t, s, n)
  PROVE  /\ Placed(t, Len(all)) /\ s[n].i \in 1..Len(all) /\ s # <<>>
         /\ \A k \in 1..Len(t) : s[n].i < t[k].i
         /\ \A i \in 1..Len(all) :
              (\E k \in 1..Len(t) : t[k].i = i) /\ Whole(s, i, all) => Whole(t, i, all)
         /\ Broken(t, all) \subseteq Broken(s, all)
         /\ Origin(FieldsOf(Put(Clean(e), s)[n - 1]), s[n], all) = Damaged
              => s[1].i \in Broken(s, all) /\ s[1].i \notin Broken(t, all)
<1>1. /\ Len(s) \in Nat /\ Len(t) \in Nat /\ n \in Nat /\ n + Len(t) = Len(s)
      /\ \A j \in 1..Len(t) : t[j] = s[n + j]
  BY DEF Tail0, Within
<1>2. n \in 1..Len(s) /\ s[n].c = End /\ 1 \in 1..Len(s) /\ 1 <= n
  BY <1>1 DEF PutEnds, MessageEnds
<1>3. Placed(t, Len(all))
  BY PlacedWithin DEF Tail0
<1>4. s[n].i \in 1..Len(all) /\ s[1].i \in 1..Len(all) /\ s[1].i <= s[n].i /\ s # <<>>
  BY <1>2, PlacedIs DEF Placed
<1>5. ASSUME NEW k \in 1..Len(t) PROVE s[n].i < t[k].i /\ n + k \in 1..Len(s) /\ t[k] = s[n + k]
  <2>1. n + k \in 1..Len(s) /\ n < n + k
    BY <1>1
  <2>. QED
    BY <1>1, <1>2, <2>1 DEF Placed
<1>6. ASSUME NEW i \in 1..Len(all), \E k \in 1..Len(t) : t[k].i = i, Whole(s, i, all)
      PROVE  Whole(t, i, all)
  <2>1. s[n].i # i
    <3>1. PICK k \in 1..Len(t) : t[k].i = i
      BY <1>6
    <3>2. s[n].i < i /\ i \in Nat /\ s[n].i \in Nat
      BY <1>4, <1>5, <3>1
    <3>. QED
      BY <3>2
  <2>. QED
    BY <1>6, <2>1, WholeInTail
<1>7. Broken(t, all) \subseteq Broken(s, all)
  <2>1. ASSUME NEW i \in Broken(t, all) PROVE i \in Broken(s, all)
    <3>1. /\ i \in 1..Len(all) /\ \E k \in 1..Len(t) : t[k].i = i
          /\ ~(Fits(all[i]) /\ Whole(t, i, all))
      BY <2>1 DEF Broken
    <3>2. \E k \in 1..Len(s) : s[k].i = i
      BY <1>5, <3>1
    <3>3. ~(Fits(all[i]) /\ Whole(s, i, all))
      BY <1>6, <3>1
    <3>. QED
      BY <3>1, <3>2, <3>3 DEF Broken
  <2>. QED
    BY <2>1
<1>8. s[1].i \notin Broken(t, all)
  <2>1. ASSUME s[1].i \in Broken(t, all) PROVE FALSE
    <3>1. PICK k \in 1..Len(t) : t[k].i = s[1].i
      BY <2>1 DEF Broken
    <3>2. PICK x, y : x = s[1].i /\ y = s[n].i
      OBVIOUS
    <3>3. x \in Nat /\ y \in Nat /\ x <= y /\ y < x
      BY <1>4, <1>5, <3>1, <3>2
    <3>. QED
      BY <3>3
  <2>. QED
    BY <2>1
<1>9. ASSUME s[1].i \notin Broken(s, all)
      PROVE  Origin(FieldsOf(Put(Clean(e), s)[n - 1]), s[n], all) # Damaged
  <2>1. PICK i : i = s[1].i
    OBVIOUS
  <2>2. i \in 1..Len(all) /\ Fits(all[i]) /\ Whole(s, i, all)
    <3>1. \E k \in 1..Len(s) : s[k].i = i
      BY <1>2, <2>1
    <3>. QED
      BY <1>4, <1>9, <2>1, <3>1 DEF Broken
  <2>3. Within(Bytes(all[i], i), s, 0)
    BY <1>4, <2>1, <2>2, WholeFirst
  <2>4. Origin(FieldsOf(Put(Clean(e), s)[n - 1]), s[n], all) = i
    BY <2>2, <2>3, FirstIsRead
  <2>5. i # 0
    BY <2>2
  <2>. QED
    BY <2>4, <2>5 DEF Damaged
<1>. QED
  BY <1>3, <1>4, <1>5, <1>6, <1>7, <1>8, <1>9

-----------------------------------------------------------------------------
(* The messages that the device was given but not as they were written, and *)
(* those that do not fit into its buffer.                                   *)
Hurt(h) == {k \in 1..Len(h) : h[k] = Damaged}
TooLong(all) == {i \in 1..Len(all) : ~Fits(all[i])}

LEMMA FewOf ==
  ASSUME NEW n \in Nat, NEW S, S \subseteq 1..n
  PROVE  IsFiniteSet(S) /\ Cardinality(S) \in Nat
<1>1. IsFiniteSet(1..n)
  BY FS_Interval
<1>2. S \in SUBSET (1..n)
  OBVIOUS
<1>3. IsFiniteSet(S)
  BY <1>1, <1>2, FS_Subset
<1>. QED
  BY <1>3, FS_CardinalityType

LEMMA SizesAre ==
  ASSUME NEW s, NEW all, Len(all) \in Nat, NEW h, Len(h) \in Nat
  PROVE  /\ IsFiniteSet(Broken(s, all)) /\ Cardinality(Broken(s, all)) \in Nat
         /\ IsFiniteSet(TooLong(all)) /\ Cardinality(TooLong(all)) \in Nat
         /\ IsFiniteSet(Hurt(h)) /\ Cardinality(Hurt(h)) \in Nat
<1>1. Broken(s, all) \subseteq 1..Len(all)
  BY DEF Broken
<1>2. TooLong(all) \subseteq 1..Len(all)
  BY DEF TooLong
<1>3. Hurt(h) \subseteq 1..Len(h)
  BY DEF Hurt
<1>. QED
  BY <1>1, <1>2, <1>3, FewOf

LEMMA OneMore ==
  ASSUME NEW S, NEW T, NEW x, IsFiniteSet(S), T \subseteq S \cup {x}
  PROVE  Cardinality(T) <= Cardinality(S) + 1
<1>1. PICK U : U = S \cup {x}
  OBVIOUS
<1>2. /\ IsFiniteSet(U) /\ Cardinality(S) \in Nat
      /\ Cardinality(U) = Cardinality(S) \/ Cardinality(U) = Cardinality(S) + 1
  BY <1>1, FS_AddElement, FS_CardinalityType
<1>3. T \in SUBSET U
  BY <1>1
<1>4. IsFiniteSet(T) /\ Cardinality(T) <= Cardinality(U)
  BY <1>2, <1>3, FS_Subset
<1>5. PICK a, b, c : a = Cardinality(T) /\ b = Cardinality(U) /\ c = Cardinality(S)
  OBVIOUS
<1>6. a \in Nat
  BY <1>4, <1>5, FS_CardinalityType
<1>. QED
  BY <1>2, <1>4, <1>5, <1>6

LEMMA OneLess ==
  ASSUME NEW S, NEW T, NEW x, IsFiniteSet(S), T \subseteq S, x \in S, x \notin T
  PROVE  Cardinality(T) + 1 <= Cardinality(S)
<1>1. PICK U : U = S \ {x}
  OBVIOUS
<1>2. IsFiniteSet(U) /\ Cardinality(S) \in Nat /\ Cardinality(U) = Cardinality(S) - 1
  BY <1>1, FS_RemoveElement, FS_CardinalityType
<1>3. T \in SUBSET U
  BY <1>1
<1>4. IsFiniteSet(T) /\ Cardinality(T) <= Cardinality(U)
  BY <1>2, <1>3, FS_Subset
<1>5. PICK a, b, c : a = Cardinality(T) /\ b = Cardinality(U) /\ c = Cardinality(S)
  OBVIOUS
<1>6. a \in Nat
  BY <1>4, <1>5, FS_CardinalityType
<1>. QED
  BY <1>2, <1>4, <1>5, <1>6

LEMMA NoMore ==
  ASSUME NEW S, NEW T, IsFiniteSet(S), T \subseteq S
  PROVE  Cardinality(T) <= Cardinality(S)
<1>1. T \in SUBSET S
  OBVIOUS
<1>. QED
  BY <1>1, FS_Subset

LEMMA HurtGrown ==
  ASSUME NEW h \in Seq(Nat), NEW x \in Nat
  PROVE  /\ x # Damaged => Cardinality(Hurt(Append(h, x))) = Cardinality(Hurt(h))
         /\ x = Damaged => Cardinality(Hurt(Append(h, x))) = Cardinality(Hurt(h)) + 1
<1>1. PICK g, n : g = Append(h, x) /\ n = Len(h)
  OBVIOUS
<1>2. /\ n \in Nat /\ Len(g) = n + 1 /\ g[n + 1] = x
      /\ \A k \in 1..n : g[k] = h[k]
  BY <1>1, AppendedIs
<1>3. CASE x # Damaged
  <2>1. Hurt(g) = Hurt(h)
    <3>1. ASSUME NEW k \in Hurt(g) PROVE k \in Hurt(h)
      BY <1>1, <1>2, <1>3, <3>1 DEF Hurt
    <3>2. ASSUME NEW k \in Hurt(h) PROVE k \in Hurt(g)
      BY <1>1, <1>2, <1>3, <3>2 DEF Hurt
    <3>. QED
      BY <3>1, <3>2
  <2>. QED
    BY <1>1, <1>3, <2>1
<1>4. CASE x = Damaged
  <2>1. Hurt(g) = Hurt(h) \cup {n + 1}
    <3>1. ASSUME NEW k \in Hurt(g) PROVE k \in Hurt(h) \cup {n + 1}
      BY <1>1, <1>2, <3>1 DEF Hurt
    <3>2. ASSUME NEW k \in Hurt(h) \cup {n + 1} PROVE k \in Hurt(g)
      BY <1>1, <1>2, <1>4, <3>2 DEF Hurt
    <3>. QED
      BY <3>1, <3>2
  <2>2. n + 1 \notin Hurt(h)
    BY <1>1, <1>2 DEF Hurt
  <2>3. IsFiniteSet(Hurt(h))
    BY <1>1, <1>2, SizesAre
  <2>. QED
    BY <1>1, <1>4, <2>1, <2>2, <2>3, FS_AddElement
<1>. QED
  BY <1>3, <1>4

LEMMA IncreasingGrown ==
  ASSUME NEW h \in Seq(Nat), Increasing(h), NEW x \in Nat,
         x # Damaged => \A k \in 1..Len(h) : h[k] < x
  PROVE  Increasing(Append(h, x))
<1>1. PICK g, n : g = Append(h, x) /\ n = Len(h)
  OBVIOUS
<1>2. /\ n \in Nat /\ Len(g) = n + 1 /\ g[n + 1] = x
      /\ \A k \in 1..n : g[k] = h[k]
  BY <1>1, AppendedIs
<1>3. ASSUME NEW j \in 1..(n + 1), NEW k \in 1..(n + 1), j < k, g[j] # Damaged, g[k] # Damaged
      PROVE  g[j] < g[k]
  <2>1. j \in 1..n
    BY <1>2, <1>3
  <2>2. CASE k \in 1..n
    BY <1>1, <1>2, <1>3, <2>1, <2>2 DEF Increasing
  <2>3. CASE k = n + 1
    BY <1>1, <1>2, <1>3, <2>1, <2>3
  <2>. QED
    BY <1>2, <2>2, <2>3
<1>. QED
  BY <1>1, <1>2, <1>3 DEF Increasing
-----------------------------------------------------------------------------
(* Broken messages when the bytes are cut and when more are written.       *)
LEMMA BrokenInTail ==
  ASSUME NEW all, AllRequests(all), NEW s \in Stream, Placed(s, Len(all)),
         NEW t, NEW n, Tail0(t, s, n)
  PROVE  Broken(t, all) \subseteq Broken(s, all) \cup {s[n].i}
<1>1. ASSUME NEW i \in Broken(t, all), i # s[n].i PROVE i \in Broken(s, all)
  <2>1. /\ i \in 1..Len(all) /\ \E k \in 1..Len(t) : t[k].i = i
        /\ ~(Fits(all[i]) /\ Whole(t, i, all))
    BY <1>1 DEF Broken
  <2>2. \E k \in 1..Len(s) : s[k].i = i
    <3>1. PICK k \in 1..Len(t) : t[k].i = i
      BY <2>1
    <3>2. n + k \in 1..Len(s) /\ t[k] = s[n + k]
      BY DEF Tail0, Within
    <3>. QED
      BY <3>1, <3>2
  <2>3. Whole(s, i, all) => Whole(t, i, all)
    BY <1>1, <2>1, WholeInTail
  <2>. QED
    BY <2>1, <2>2, <2>3 DEF Broken
<1>. QED
  BY <1>1

LEMMA BrokenInPart ==
  ASSUME NEW all, AllRequests(all), NEW s \in Stream, Placed(s, Len(all)),
         NEW t, Within(t, s, 0), NEW n, n = Len(t)
  PROVE  Broken(t, all) \subseteq Broken(s, all) \cup {s[n].i}
<1>1. ASSUME NEW i \in Broken(t, all), i # s[n].i PROVE i \in Broken(s, all)
  <2>1. /\ i \in 1..Len(all) /\ \E k \in 1..n : t[k].i = i
        /\ ~(Fits(all[i]) /\ Whole(t, i, all))
    BY <1>1 DEF Broken
  <2>2. \E k \in 1..Len(s) : s[k].i = i
    <3>1. PICK k \in 1..Len(t) : t[k].i = i
      BY <2>1
    <3>2. 0 + k = k /\ k \in 1..Len(s) /\ t[k] = s[0 + k]
      BY DEF Within
    <3>. QED
      BY <3>1, <3>2
  <2>3. Whole(s, i, all) => Whole(t, i, all)
    BY <1>1, <2>1, WholeInPart
  <2>. QED
    BY <2>1, <2>2, <2>3 DEF Broken
<1>. QED
  BY <1>1

(* The server writes a request. *)
MoreRequests(all, m, more) ==
  /\ AllRequests(more) /\ Len(all) \in Nat /\ Len(more) = Len(all) + 1
  /\ more[Len(all) + 1] = m /\ \A i \in 1..Len(all) : more[i] = all[i]

LEMMA RequestWritten ==
  ASSUME NEW all, AllRequests(all), NEW m \in Messages, m[1] \in RequestTitles
  PROVE  MoreRequests(all, m, Append(all, m))
<1>0. PICK more : more = Append(all, m)
  OBVIOUS
<1>1. all \in Seq(Messages)
  BY DEF AllRequests
<1>2. /\ more \in Seq(Messages) /\ Len(all) \in Nat /\ Len(more) = Len(all) + 1
      /\ more[Len(all) + 1] = m /\ \A i \in 1..Len(all) : more[i] = all[i]
  BY <1>0, <1>1, AppendedIs
<1>3. ASSUME NEW i \in 1..Len(more) PROVE more[i][1] \in RequestTitles
  <2>1. CASE i = Len(all) + 1
    BY <1>2, <2>1
  <2>2. CASE i # Len(all) + 1
    <3>1. i \in 1..Len(all)
      BY <1>2, <2>2
    <3>. QED
      BY <1>2, <3>1 DEF AllRequests
  <2>. QED
    BY <2>1, <2>2
<1>. QED
  BY <1>0, <1>2, <1>3 DEF AllRequests, MoreRequests

LEMMA PlacedWritten ==
  ASSUME NEW s \in Stream, NEW n \in Nat, Placed(s, n),
         NEW b, RequestBytes(b, n + 1), NEW t, t = s \o b
  PROVE  t \in Stream /\ Placed(t, n + 1)
<1>1. PICK l, lb : l = Len(s) /\ lb = Len(b)
  OBVIOUS
<1>2. /\ b \in Stream /\ l \in Nat /\ lb \in Nat
      /\ \A k \in 1..lb : b[k].i = n + 1 /\ b[k].c # Nul
      /\ \A k \in 1..lb : b[k].c = End <=> k = lb
  BY <1>1 DEF RequestBytes, Stream
<1>3. /\ t \in Stream /\ Len(t) = l + lb
      /\ \A k \in 1..l : t[k] = s[k]
      /\ \A k \in 1..lb : t[l + k] = b[k]
  <2>1. PICK S : S = Byte
    OBVIOUS
  <2>2. s \in Seq(S) /\ b \in Seq(S)
    BY <1>2, <2>1 DEF Stream
  <2>3. /\ s \o b \in Seq(S) /\ Len(s \o b) = Len(s) + Len(b)
        /\ \A k \in 1..Len(s) : (s \o b)[k] = s[k]
        /\ \A k \in 1..Len(b) : (s \o b)[Len(s) + k] = b[k]
    BY <2>2, JoinedIs
  <2>. QED
    BY <1>1, <2>1, <2>3 DEF Stream
<1>4. ASSUME NEW k \in 1..(l + lb)
      PROVE  \/ k \in 1..l /\ t[k] = s[k] /\ s[k].i \in 1..n /\ s[k].c # Nul
             \/ k \notin 1..l /\ k - l \in 1..lb /\ t[k] = b[k - l]
  <2>1. CASE k \in 1..l
    BY <1>1, <1>3, <2>1 DEF Placed
  <2>2. CASE k \notin 1..l
    <3>1. k - l \in 1..lb /\ l + (k - l) = k
      BY <1>2, <2>2
    <3>2. t[l + (k - l)] = b[k - l]
      BY <1>3, <3>1
    <3>. QED
      BY <2>2, <3>1, <3>2
  <2>. QED
    BY <2>1, <2>2
<1>5. ASSUME NEW k \in 1..(l + lb) PROVE t[k].i \in 1..(n + 1) /\ t[k].c # Nul
  <2>1. CASE k \in 1..l
    <3>1. t[k].i \in 1..n /\ t[k].c # Nul
      BY <1>4, <2>1
    <3>2. PICK x : x = t[k].i
      OBVIOUS
    <3>3. x \in 1..(n + 1)
      <4>1. x \in 1..n
        BY <3>1, <3>2
      <4>. QED
        BY <4>1
    <3>. QED
      BY <3>1, <3>2, <3>3
  <2>2. CASE k \notin 1..l
    <3>1. t[k] = b[k - l] /\ k - l \in 1..lb
      BY <1>4, <2>2
    <3>. QED
      BY <1>2, <3>1
  <2>. QED
    BY <2>1, <2>2
<1>6. ASSUME NEW j \in 1..(l + lb), NEW k \in 1..(l + lb), j < k
      PROVE  t[j].i <= t[k].i /\ (t[j].c = End => t[j].i < t[k].i)
  <2>1. CASE k \in 1..l
    <3>1. j \in 1..l
      BY <1>2, <1>6, <2>1
    <3>2. t[j] = s[j] /\ t[k] = s[k]
      BY <1>4, <2>1, <3>1
    <3>. QED
      BY <1>1, <1>6, <2>1, <3>1, <3>2 DEF Placed
  <2>2. CASE k \notin 1..l
    <3>1. t[k].i = n + 1 /\ k - l \in 1..lb
      BY <1>2, <1>4, <2>2
    <3>2. CASE j \in 1..l
      <4>1. t[j].i \in 1..n
        BY <1>4, <3>2
      <4>2. PICK x, y : x = t[j].i /\ y = t[k].i
        OBVIOUS
      <4>3. x < y /\ x <= y
        <5>1. x \in 1..n /\ y = n + 1
          BY <3>1, <4>1, <4>2
        <5>. QED
          BY <5>1
      <4>. QED
        BY <4>2, <4>3
    <3>3. CASE j \notin 1..l
      <4>1. t[j] = b[j - l] /\ j - l \in 1..lb
        BY <1>4, <3>3
      <4>2. j - l # lb
        BY <1>2, <1>6, <3>1
      <4>3. t[j].i = n + 1 /\ t[j].c # End
        BY <1>2, <4>1, <4>2
      <4>4. PICK x, y : x = t[j].i /\ y = t[k].i
        OBVIOUS
      <4>5. x <= y
        BY <3>1, <4>3, <4>4
      <4>. QED
        BY <4>3, <4>4, <4>5
    <3>. QED
      BY <3>2, <3>3
  <2>. QED
    BY <2>1, <2>2
<1>. QED
  BY <1>3, <1>5, <1>6 DEF Placed

(* From s to t: with one more message. *)
Wrote(s, all, t, more) ==
  /\ t \in Stream /\ Placed(t, Len(more)) /\ t # <<>>
  /\ Whole(t, Len(more), more)
  /\ \A i \in 1..Len(all) : Whole(s, i, all) => Whole(t, i, more)
  /\ s # <<>> => t[1] = s[1]
  /\ s = <<>> => t[1].i = Len(more)
  /\ \A k \in 1..Len(t) : t[k].i = Len(more) \/ \E j \in 1..Len(s) : t[k] = s[j]

LEMMA WholeWritten ==
  ASSUME NEW all, AllRequests(all), NEW m \in Messages, m[1] \in RequestTitles,
         NEW s \in Stream, Placed(s, Len(all))
  PROVE  Wrote(s, all, s \o Bytes(m, Len(all) + 1), Append(all, m))
<1>0. PICK t, more : t = s \o Bytes(m, Len(all) + 1) /\ more = Append(all, m)
  OBVIOUS
<1>1. PICK n, b : n = Len(all) + 1 /\ b = Bytes(m, n)
  OBVIOUS
<1>2. /\ AllRequests(more) /\ Len(all) \in Nat /\ Len(more) = n
      /\ more[n] = m /\ \A i \in 1..Len(all) : more[i] = all[i]
  <2>1. MoreRequests(all, m, Append(all, m))
    BY RequestWritten
  <2>. QED
    BY <1>0, <1>1, <2>1 DEF MoreRequests
<1>3. n \in 1..Len(more) /\ n \in Nat
  BY <1>1, <1>2
<1>4. RequestBytes(b, n)
  BY <1>1, <1>2, <1>3, RequestIs
<1>5. t \in Stream /\ Placed(t, n) /\ t = s \o b
  <2>1. RequestBytes(b, Len(all) + 1) /\ t = s \o b
    BY <1>0, <1>1, <1>4
  <2>2. t \in Stream /\ Placed(t, Len(all) + 1)
    BY <1>2, <2>1, PlacedWritten
  <2>. QED
    BY <1>1, <2>1, <2>2
<1>6. b \in Stream /\ Len(b) \in Nat /\ Len(b) >= 2 /\ b # <<>> /\ \A k \in 1..Len(b) : b[k].i = n
  BY <1>4 DEF RequestBytes
<1>7. Within(s, t, 0) /\ Tail0(b, t, Len(s))
  BY <1>5, <1>6, PartsAre
<1>8. /\ Len(s) \in Nat /\ Len(t) = Len(s) + Len(b)
      /\ \A k \in 1..Len(s) : t[k] = s[k]
      /\ \A k \in 1..Len(b) : t[Len(s) + k] = b[k]
  <2>1. \A k \in 1..Len(s) : s[k] = t[0 + k] /\ 0 + k = k
    BY <1>7 DEF Within
  <2>2. /\ Len(s) \in Nat /\ Len(s) + Len(b) = Len(t)
        /\ \A k \in 1..Len(b) : b[k] = t[Len(s) + k]
    BY <1>7 DEF Tail0, Within
  <2>. QED
    BY <2>1, <2>2
<1>9. Whole(t, n, more)
  <2>1. Within(Bytes(more[n], n), t, Len(s)) /\ Len(s) \in 0..Len(t)
    BY <1>1, <1>2, <1>6, <1>7, <1>8 DEF Tail0
  <2>2. Len(s) = 0 \/ t[Len(s)].i # n
    <3>1. CASE Len(s) # 0
      <4>1. Len(s) \in 1..Len(s)
        BY <1>8, <3>1
      <4>2. t[Len(s)].i \in 1..Len(all)
        BY <1>8, <4>1 DEF Placed
      <4>. QED
        BY <1>1, <1>2, <4>2
    <3>. QED
      BY <3>1
  <2>. QED
    BY <2>1, <2>2 DEF Whole
<1>10. ASSUME NEW i \in 1..Len(all), Whole(s, i, all) PROVE Whole(t, i, more)
  <2>1. PICK k \in 0..Len(s) : Within(Bytes(all[i], i), s, k) /\ (k = 0 \/ s[k].i # i)
    BY <1>10 DEF Whole
  <2>2. PICK c : c = Bytes(all[i], i)
    OBVIOUS
  <2>3. /\ Len(c) \in Nat /\ k \in Nat /\ k + Len(c) <= Len(s)
        /\ \A j \in 1..Len(c) : c[j] = s[k + j]
    BY <2>1, <2>2 DEF Within
  <2>4. \A j \in 1..Len(c) : c[j] = t[k + j]
    <3>1. \A j \in 1..Len(c) : k + j \in 1..Len(s)
      BY <1>8, <2>3
    <3>. QED
      BY <1>8, <2>3, <3>1
  <2>5. k + Len(c) <= Len(t) /\ Len(t) \in Nat /\ k \in 0..Len(t)
    BY <1>6, <1>8, <2>3
  <2>6. Within(c, t, k)
    BY <2>3, <2>4, <2>5 DEF Within
  <2>7. k = 0 \/ t[k].i # i
    <3>1. CASE k # 0
      <4>1. k \in 1..Len(s)
        BY <2>1, <3>1
      <4>. QED
        BY <1>8, <2>1, <3>1, <4>1
    <3>. QED
      BY <3>1
  <2>8. more[i] = all[i]
    BY <1>2
  <2>. QED
    BY <2>2, <2>5, <2>6, <2>7, <2>8 DEF Whole
<1>11. s # <<>> => t[1] = s[1]
  BY <1>8
<1>12. s = <<>> => t[1].i = n
  <2>1. ASSUME s = <<>> PROVE t[1].i = n
    <3>1. Len(s) = 0 /\ 1 \in 1..Len(b) /\ 0 + 1 = 1
      BY <1>6, <2>1
    <3>. QED
      BY <1>6, <1>8, <3>1
  <2>. QED
    BY <2>1
<1>13. ASSUME NEW k \in 1..Len(t) PROVE t[k].i = n \/ \E j \in 1..Len(s) : t[k] = s[j]
  <2>1. CASE k \in 1..Len(s)
    BY <1>8, <2>1
  <2>2. CASE k \notin 1..Len(s)
    <3>1. k - Len(s) \in 1..Len(b) /\ Len(s) + (k - Len(s)) = k
      BY <1>6, <1>8, <2>2
    <3>. QED
      BY <1>6, <1>8, <3>1
  <2>. QED
    BY <2>1, <2>2
<1>14. t # <<>>
  BY <1>6, <1>8
<1>. QED
  BY <1>0, <1>2, <1>5, <1>9, <1>10, <1>11, <1>12, <1>13, <1>14 DEF Wrote

LEMMA BrokenWritten ==
  ASSUME NEW all, AllRequests(all), NEW m \in Messages, m[1] \in RequestTitles,
         NEW more, more = Append(all, m), NEW s \in Stream, Placed(s, Len(all)),
         NEW t, t = s \o Bytes(m, Len(all) + 1)
  PROVE  Cardinality(Broken(t, more)) + Cardinality(TooLong(all))
           <= Cardinality(Broken(s, all)) + Cardinality(TooLong(more))
<1>1. PICK n : n = Len(all) + 1
  OBVIOUS
<1>2. /\ AllRequests(more) /\ Len(all) \in Nat /\ Len(more) = n
      /\ more[n] = m /\ \A i \in 1..Len(all) : more[i] = all[i]
  <2>1. MoreRequests(all, m, Append(all, m))
    BY RequestWritten
  <2>. QED
    BY <1>1, <2>1 DEF MoreRequests
<1>3. /\ Whole(t, n, more)
      /\ \A i \in 1..Len(all) : Whole(s, i, all) => Whole(t, i, more)
      /\ \A k \in 1..Len(t) : t[k].i = n \/ \E j \in 1..Len(s) : t[k] = s[j]
  <2>1. Wrote(s, all, s \o Bytes(m, Len(all) + 1), Append(all, m))
    BY WholeWritten
  <2>. QED
    BY <1>2, <2>1 DEF Wrote
<1>4. ASSUME NEW i \in Broken(t, more) PROVE i \in Broken(s, all) \/ (i = n /\ ~Fits(m))
  <2>1. /\ i \in 1..n /\ \E k \in 1..Len(t) : t[k].i = i
        /\ ~(Fits(more[i]) /\ Whole(t, i, more))
    BY <1>2, <1>4 DEF Broken
  <2>2. CASE i = n
    BY <1>2, <1>3, <2>1, <2>2
  <2>3. CASE i # n
    <3>1. i \in 1..Len(all)
      BY <1>1, <1>2, <2>1, <2>3
    <3>2. ~(Fits(all[i]) /\ Whole(s, i, all))
      BY <1>2, <1>3, <2>1, <3>1
    <3>3. \E k \in 1..Len(s) : s[k].i = i
      BY <1>3, <2>1, <2>3
    <3>. QED
      BY <3>1, <3>2, <3>3 DEF Broken
  <2>. QED
    BY <2>2, <2>3
<1>5. /\ TooLong(all) \subseteq TooLong(more) /\ n \notin TooLong(all)
      /\ ~Fits(m) => n \in TooLong(more)
  BY <1>1, <1>2 DEF TooLong
<1>6. PICK a, b, c, d : /\ a = Cardinality(Broken(t, more)) /\ b = Cardinality(TooLong(all))
                        /\ c = Cardinality(Broken(s, all)) /\ d = Cardinality(TooLong(more))
  OBVIOUS
<1>7. /\ a \in Nat /\ b \in Nat /\ c \in Nat /\ d \in Nat
      /\ IsFiniteSet(Broken(s, all)) /\ IsFiniteSet(TooLong(more))
  <2>1. Len(more) \in Nat
    BY <1>1, <1>2
  <2>. QED
    BY <1>2, <1>6, <2>1, SizesAre
<1>8. CASE Fits(m)
  <2>1. Broken(t, more) \subseteq Broken(s, all)
    BY <1>4, <1>8
  <2>2. a <= c /\ b <= d
    BY <1>5, <1>6, <1>7, <2>1, NoMore
  <2>. QED
    BY <1>6, <1>7, <2>2
<1>9. CASE ~Fits(m)
  <2>1. Broken(t, more) \subseteq Broken(s, all) \cup {n}
    BY <1>4
  <2>2. a <= c + 1
    BY <1>6, <1>7, <2>1, OneMore
  <2>3. b + 1 <= d
    BY <1>5, <1>6, <1>7, <1>9, OneLess
  <2>. QED
    BY <1>6, <1>7, <2>2, <2>3
<1>. QED
  BY <1>8, <1>9

-----------------------------------------------------------------------------
(* Of the messages since from, each that the bytes reach is whole, and none *)
(* but the first was passed over.                                           *)
Unlost(s, h, all, from) ==
  /\ \A i \in from..Len(all) : s # <<>> /\ s[1].i <= i => Whole(s, i, all)
  /\ \A i \in (from + 1)..Len(all) :
       Fits(all[i]) => (s # <<>> /\ s[1].i <= i) \/ Contains(h, i)

LEMMA UnlostFresh ==
  ASSUME NEW all, Len(all) \in Nat, NEW s, NEW h
  PROVE  Unlost(s, h, all, Len(all) + 1)
<1>1. (Len(all) + 1)..Len(all) = {} /\ ((Len(all) + 1) + 1)..Len(all) = {}
  OBVIOUS
<1>. QED
  BY <1>1 DEF Unlost

LEMMA UnlostWritten ==
  ASSUME NEW all, NEW m, NEW more, MoreRequests(all, m, more), NEW s, NEW t,
         Wrote(s, all, t, more), NEW h, NEW from \in Nat, Unlost(s, h, all, from)
  PROVE  Unlost(t, h, more, from)
<1>1. /\ Len(all) \in Nat /\ Len(more) = Len(all) + 1
      /\ \A i \in 1..Len(all) : more[i] = all[i]
  BY DEF MoreRequests
<1>2. /\ t # <<>> /\ Whole(t, Len(more), more)
      /\ \A i \in 1..Len(all) : Whole(s, i, all) => Whole(t, i, more)
      /\ s # <<>> => t[1] = s[1]
      /\ s = <<>> => t[1].i = Len(more)
  BY DEF Wrote
<1>3. t[1].i \in 1..Len(more)
  <2>1. t \in Stream /\ Placed(t, Len(more))
    BY DEF Wrote
  <2>2. 1 \in 1..Len(t)
    BY <1>2, <2>1 DEF Stream
  <2>. QED
    BY <2>1, <2>2 DEF Placed
<1>4. PICK n, x : n = Len(all) /\ x = t[1].i
  OBVIOUS
<1>5. n \in Nat /\ x \in 1..(n + 1) /\ Len(more) = n + 1
  BY <1>1, <1>3, <1>4
<1>6. ASSUME NEW i \in from..Len(more), t[1].i <= i PROVE Whole(t, i, more)
  <2>1. CASE i = n + 1
    BY <1>1, <1>2, <1>4, <2>1
  <2>2. CASE i # n + 1
    <3>1. i \in from..n /\ i \in 1..n
      BY <1>4, <1>5, <1>6, <2>2
    <3>2. s # <<>>
      <4>1. s = <<>> => x = n + 1
        BY <1>2, <1>4, <1>5
      <4>. QED
        BY <1>4, <1>5, <1>6, <3>1, <4>1
    <3>3. s[1].i <= i
      BY <1>2, <1>6, <3>2
    <3>4. Whole(s, i, all)
      BY <1>4, <3>1, <3>2, <3>3 DEF Unlost
    <3>. QED
      BY <1>2, <1>4, <3>1, <3>4
  <2>. QED
    BY <2>1, <2>2
<1>7. ASSUME NEW i \in (from + 1)..Len(more), Fits(more[i]), ~(t[1].i <= i)
      PROVE  Contains(h, i)
  <2>1. i \in (from + 1)..n /\ i \in 1..n
    BY <1>4, <1>5, <1>7
  <2>2. Fits(all[i])
    BY <1>1, <1>4, <1>7, <2>1
  <2>3. (s # <<>> /\ s[1].i <= i) \/ Contains(h, i)
    BY <1>4, <2>1, <2>2 DEF Unlost
  <2>. QED
    BY <1>2, <1>7, <2>3
<1>. QED
  BY <1>2, <1>6, <1>7 DEF Unlost

LEMMA UnlostRead ==
  ASSUME NEW all, AllRequests(all), NEW s \in Stream, Placed(s, Len(all)), bufSize \in Nat,
         NEW e \in BOOLEAN, NEW n \in PutEnds(Clean(e), s),
         \A k \in PutEnds(Clean(e), s) : n <= k, NEW t \in Stream, Tail0(t, s, n),
         NEW h \in Seq(Nat), NEW from \in Nat, from # 0, Unlost(s, h, all, from)
  PROVE  Unlost(t, Append(h, Origin(FieldsOf(Put(Clean(e), s)[n - 1]), s[n], all)), all, from)
<1>1. PICK r, g : r = Origin(FieldsOf(Put(Clean(e), s)[n - 1]), s[n], all) /\ g = Append(h, r)
  OBVIOUS
<1>2. /\ Placed(t, Len(all)) /\ s[n].i \in 1..Len(all) /\ s # <<>>
      /\ \A k \in 1..Len(t) : s[n].i < t[k].i
      /\ \A i \in 1..Len(all) :
           (\E k \in 1..Len(t) : t[k].i = i) /\ Whole(s, i, all) => Whole(t, i, all)
  BY ReadIs
<1>3. /\ Len(s) \in Nat /\ Len(t) \in Nat /\ n \in Nat /\ n + Len(t) = Len(s)
      /\ \A j \in 1..Len(t) : t[j] = s[n + j]
  BY DEF Tail0, Within
<1>4. n \in 1..Len(s) /\ s[n].c = End /\ 1 \in 1..Len(s) /\ 1 <= n
  BY <1>3 DEF PutEnds, MessageEnds
<1>5. s[1].i \in Nat /\ s[n].i \in Nat /\ s[1].i <= s[n].i
  BY <1>4, PlacedIs
<1>6. Len(all) \in Nat
  BY DEF AllRequests
<1>7. ASSUME NEW i \in 1..Len(all), Whole(s, i, all)
      PROVE  \E k \in 0..Len(s) : \E l \in Nat :
               /\ l >= 2 /\ k + l \in 1..Len(s) /\ k + l \in PutEnds(Clean(e), s)
               /\ s[k + l].i = i /\ s[k + 1].i = i
               /\ k = 0 \/ (k \in 1..Len(s) /\ s[k].i # i)
               /\ Within(Bytes(all[i], i), s, k)
  <2>1. PICK k \in 0..Len(s) : Within(Bytes(all[i], i), s, k) /\ (k = 0 \/ s[k].i # i)
    BY <1>7 DEF Whole
  <2>2. PICK b, l : b = Bytes(all[i], i) /\ l = Len(b)
    OBVIOUS
  <2>3. l \in Nat /\ l >= 2 /\ \A j \in 1..l : b[j].i = i
    <3>1. RequestBytes(b, i)
      BY <2>2, RequestIs
    <3>. QED
      BY <2>2, <3>1 DEF RequestBytes
  <2>4. k + l <= Len(s) /\ \A j \in 1..l : b[j] = s[k + j]
    BY <2>1, <2>2 DEF Within
  <2>5. k + l \in PutEnds(Clean(e), s)
    <3>1. Clean(e) \in Buffers
      BY CleanIs
    <3>2. k + Len(Bytes(all[i], i)) \in PutEnds(Clean(e), s)
      BY <2>1, <3>1, WholeEnds
    <3>. QED
      BY <2>2, <3>2
  <2>6. s[k + l].i = i /\ s[k + 1].i = i
    <3>1. l \in 1..l /\ 1 \in 1..l
      BY <2>3
    <3>. QED
      BY <2>3, <2>4, <3>1
  <2>7. k + l \in 1..Len(s) /\ (k = 0 \/ k \in 1..Len(s))
    BY <1>3, <2>3, <2>4
  <2>. QED
    BY <2>1, <2>3, <2>5, <2>6, <2>7
<1>8. ASSUME NEW i \in from..Len(all), t # <<>>, t[1].i <= i PROVE Whole(t, i, all)
  <2>1. i \in 1..Len(all) /\ 1 \in 1..Len(t)
    BY <1>3, <1>6, <1>8
  <2>2. s[n].i < i /\ s[1].i <= i
    <3>1. s[n].i < t[1].i /\ t[1].i \in Nat
      BY <1>2, <2>1 DEF Placed
    <3>2. PICK x, y, z : x = s[n].i /\ y = t[1].i /\ z = s[1].i
      OBVIOUS
    <3>3. x \in Nat /\ y \in Nat /\ z \in Nat /\ x < y /\ y <= i /\ z <= x /\ i \in Nat
      BY <1>5, <1>6, <1>8, <2>1, <3>1, <3>2
    <3>. QED
      BY <3>2, <3>3
  <2>3. Whole(s, i, all)
    BY <1>2, <2>2 DEF Unlost
  <2>4. PICK k \in 0..Len(s) : \E l \in Nat :
          l >= 2 /\ k + l \in 1..Len(s) /\ s[k + 1].i = i
    BY <1>7, <2>1, <2>3
  <2>5. k + 1 \in 1..Len(s)
    BY <1>3, <2>4
  <2>6. k + 1 > n
    <3>1. ASSUME k + 1 <= n PROVE FALSE
      <4>1. s[k + 1].i <= s[n].i
        BY <1>4, <2>5, <3>1, PlacedIs
      <4>2. PICK x : x = s[n].i
        OBVIOUS
      <4>3. x \in Nat /\ i \in Nat /\ x < i /\ i <= x
        BY <1>5, <2>1, <2>2, <2>4, <4>1, <4>2
      <4>. QED
        BY <4>3
    <3>. QED
      BY <1>3, <2>5, <3>1
  <2>7. (k + 1) - n \in 1..Len(t) /\ n + ((k + 1) - n) = k + 1
    BY <1>3, <2>5, <2>6
  <2>8. t[(k + 1) - n].i = i
    BY <1>3, <2>4, <2>7
  <2>. QED
    BY <1>2, <2>1, <2>3, <2>7, <2>8
<1>9. r \in {s[n].i, Damaged} /\ r \in Nat
  BY <1>1, <1>5, OriginIs DEF Damaged
<1>10. /\ Len(h) \in Nat /\ Len(g) = Len(h) + 1 /\ g[Len(h) + 1] = r
       /\ \A k \in 1..Len(h) : g[k] = h[k]
  BY <1>1, <1>9, AppendedIs
<1>11. ASSUME NEW i \in (from + 1)..Len(all), Fits(all[i]), ~(t # <<>> /\ t[1].i <= i),
              s[1].i <= i
       PROVE  r = i
  <2>1. /\ i \in from..Len(all) /\ i \in 1..Len(all) /\ i \in Nat
        /\ i - 1 \in from..Len(all) /\ i - 1 \in 1..Len(all)
    BY <1>6, <1>11
  <2>2. Whole(s, i, all)
    BY <1>2, <1>11, <2>1 DEF Unlost
  <2>3. PICK k \in 0..Len(s) : \E l \in Nat :
               /\ l >= 2 /\ k + l \in 1..Len(s) /\ k + l \in PutEnds(Clean(e), s)
               /\ s[k + l].i = i /\ s[k + 1].i = i
               /\ k = 0 \/ (k \in 1..Len(s) /\ s[k].i # i)
               /\ Within(Bytes(all[i], i), s, k)
    BY <1>7, <2>1, <2>2
  <2>4. PICK l \in Nat :
               /\ l >= 2 /\ k + l \in 1..Len(s) /\ k + l \in PutEnds(Clean(e), s)
               /\ s[k + l].i = i /\ s[k + 1].i = i
               /\ k = 0 \/ (k \in 1..Len(s) /\ s[k].i # i)
               /\ Within(Bytes(all[i], i), s, k)
    BY <2>3
  <2>5. n <= k + l
    BY <2>4
  <2>6. ~(n < k + l)
    <3>1. ASSUME n < k + l PROVE FALSE
      <4>1. (k + l) - n \in 1..Len(t) /\ n + ((k + l) - n) = k + l /\ 1 \in 1..Len(t)
        BY <1>3, <2>4, <3>1
      <4>2. t[(k + l) - n].i = i
        BY <1>3, <2>4, <4>1
      <4>3. PICK j \in 1..Len(t) : t[j].i = i /\ 1 <= j
        BY <4>1, <4>2
      <4>4. t[1].i <= t[j].i
        BY <1>2, <4>1, <4>3, PlacedIs
      <4>5. t # <<>>
        BY <1>3, <4>1
      <4>. QED
        BY <1>11, <4>3, <4>4, <4>5
    <3>. QED
      BY <3>1
  <2>7. n = k + l /\ s[n].i = i
    <3>1. PICK x : x = k + l
      OBVIOUS
    <3>2. x \in Nat /\ n <= x /\ ~(n < x)
      BY <1>3, <2>4, <2>5, <2>6, <3>1
    <3>3. n = x
      BY <1>3, <3>2
    <3>4. s[x].i = i
      BY <2>4, <3>1
    <3>. QED
      BY <3>1, <3>3, <3>4
  <2>8. CASE k = 0
    <3>1. Within(Bytes(all[i], i), s, 0)
      BY <2>4, <2>8
    <3>2. Origin(FieldsOf(Put(Clean(e), s)[n - 1]), s[n], all) = i
      BY <1>11, <2>1, <3>1, FirstIsRead
    <3>. QED
      BY <1>1, <3>2
  <2>9. CASE k # 0
    <3>1. k \in 1..Len(s) /\ s[k].i # i /\ k + 1 \in 1..Len(s) /\ 1 <= k /\ k <= k + 1
      BY <1>3, <2>4, <2>9
    <3>2. s[1].i <= s[k].i /\ s[k].i <= s[k + 1].i /\ s[k].i \in Nat
      BY <1>4, <3>1, PlacedIs
    <3>3. s[1].i <= i - 1
      <4>1. PICK x, y : x = s[1].i /\ y = s[k].i
        OBVIOUS
      <4>2. x \in Nat /\ y \in Nat /\ x <= y /\ y <= i /\ y # i
        BY <1>5, <2>4, <3>1, <3>2, <4>1
      <4>. QED
        BY <2>1, <4>1, <4>2
    <3>4. PICK j : j = i - 1
      OBVIOUS
    <3>5. Whole(s, j, all) /\ j \in 1..Len(all)
      BY <1>2, <2>1, <3>3, <3>4 DEF Unlost
    <3>6. PICK a \in 0..Len(s) : \E b \in Nat :
               /\ b >= 2 /\ a + b \in 1..Len(s) /\ a + b \in PutEnds(Clean(e), s)
               /\ s[a + b].i = j /\ s[a + 1].i = j
               /\ a = 0 \/ (a \in 1..Len(s) /\ s[a].i # j)
               /\ Within(Bytes(all[j], j), s, a)
      BY <1>7, <3>5
    <3>7. PICK z \in 1..Len(s) : z \in PutEnds(Clean(e), s) /\ s[z].i = j
      BY <3>6
    <3>8. n <= z
      BY <3>7
    <3>9. s[n].i <= s[z].i
      BY <1>4, <3>7, <3>8, PlacedIs
    <3>10. i <= j /\ j \in Nat
      BY <2>7, <3>5, <3>7, <3>9
    <3>. QED
      BY <2>1, <3>4, <3>10
  <2>. QED
    BY <2>8, <2>9
<1>12. ASSUME NEW i \in (from + 1)..Len(all), Fits(all[i]), ~(t # <<>> /\ t[1].i <= i)
       PROVE  Contains(g, i)
  <2>1. s[1].i <= i \/ Contains(h, i)
    BY <1>12 DEF Unlost
  <2>2. CASE s[1].i <= i
    <3>1. r = i
      BY <1>11, <1>12, <2>2
    <3>2. Len(h) + 1 \in 1..Len(g)
      BY <1>10
    <3>. QED
      BY <1>10, <3>1, <3>2 DEF Contains
  <2>3. CASE Contains(h, i)
    <3>1. PICK k \in 1..Len(h) : h[k] = i
      BY <2>3 DEF Contains
    <3>2. k \in 1..Len(g) /\ g[k] = i
      BY <1>10, <3>1
    <3>. QED
      BY <3>2 DEF Contains
  <2>. QED
    BY <2>1, <2>2, <2>3
<1>13. Unlost(t, g, all, from)
  BY <1>8, <1>12 DEF Unlost
<1>. QED
  BY <1>1, <1>13

-----------------------------------------------------------------------------
(* What the device has handled, and the bytes s since it was last clean:    *)
(* each message that was not handled as written, or may not be, is owed to  *)
(* a fault or is too long.                                                  *)
Paid(s, h, all, harm) ==
  Cardinality(Hurt(h)) + Cardinality(Broken(s, all)) <= harm + Cardinality(TooLong(all))

Handled(s, h, all, l) ==
  /\ AllRequests(all) /\ s \in Stream /\ Placed(s, Len(all))
  /\ Increasing(h) /\ \A x \in 1..Len(h), k \in 1..Len(s) : h[x] < s[k].i
  /\ Paid(s, h, all, l.harm)
  /\ ~l.restarted => Unlost(s, h, all, l.from)

LEMMA PaidFault ==
  ASSUME NEW all, AllRequests(all), NEW s, NEW h \in Seq(Nat), NEW harm \in Nat,
         Paid(s, h, all, harm), NEW t, NEW x, Broken(t, all) \subseteq Broken(s, all) \cup {x}
  PROVE  Paid(t, h, all, harm + 1)
<1>1. Len(all) \in Nat /\ Len(h) \in Nat
  BY DEF AllRequests
<1>2. /\ IsFiniteSet(Broken(s, all)) /\ Cardinality(Broken(s, all)) \in Nat
      /\ Cardinality(Broken(t, all)) \in Nat /\ Cardinality(TooLong(all)) \in Nat
      /\ Cardinality(Hurt(h)) \in Nat
  BY <1>1, SizesAre
<1>3. Cardinality(Broken(t, all)) <= Cardinality(Broken(s, all)) + 1
  BY <1>2, OneMore
<1>4. PICK a, b, c, d : /\ a = Cardinality(Broken(s, all)) /\ b = Cardinality(Broken(t, all))
                        /\ c = Cardinality(TooLong(all)) /\ d = Cardinality(Hurt(h))
  OBVIOUS
<1>5. d + a <= harm + c
  BY <1>4 DEF Paid
<1>6. d + b <= (harm + 1) + c
  BY <1>2, <1>3, <1>4, <1>5
<1>. QED
  BY <1>4, <1>6 DEF Paid

LEMMA PaidRead ==
  ASSUME NEW all, AllRequests(all), NEW s, NEW h \in Seq(Nat), NEW harm \in Nat,
         Paid(s, h, all, harm), NEW t, Broken(t, all) \subseteq Broken(s, all),
         NEW r \in Nat, NEW x, r = Damaged => x \in Broken(s, all) /\ x \notin Broken(t, all)
  PROVE  Paid(t, Append(h, r), all, harm)
<1>1. Len(all) \in Nat /\ Len(h) \in Nat /\ Len(Append(h, r)) \in Nat
  BY DEF AllRequests
<1>2. /\ IsFiniteSet(Broken(s, all)) /\ Cardinality(Broken(s, all)) \in Nat
      /\ Cardinality(Broken(t, all)) \in Nat /\ Cardinality(TooLong(all)) \in Nat
      /\ Cardinality(Hurt(h)) \in Nat /\ Cardinality(Hurt(Append(h, r))) \in Nat
  BY <1>1, SizesAre
<1>3. /\ Cardinality(Broken(t, all)) <= Cardinality(Broken(s, all))
      /\ r = Damaged => Cardinality(Broken(t, all)) + 1 <= Cardinality(Broken(s, all))
  BY <1>2, NoMore, OneLess
<1>4. /\ r # Damaged => Cardinality(Hurt(Append(h, r))) = Cardinality(Hurt(h))
      /\ r = Damaged => Cardinality(Hurt(Append(h, r))) = Cardinality(Hurt(h)) + 1
  BY HurtGrown
<1>5. PICK a, b, c, d, g :
        /\ a = Cardinality(Broken(s, all)) /\ b = Cardinality(Broken(t, all))
        /\ c = Cardinality(TooLong(all)) /\ d = Cardinality(Hurt(h))
        /\ g = Cardinality(Hurt(Append(h, r)))
  OBVIOUS
<1>6. d + a <= harm + c
  BY <1>5 DEF Paid
<1>7. a \in Nat /\ b \in Nat /\ c \in Nat /\ d \in Nat /\ g \in Nat /\ b <= a
  BY <1>2, <1>3, <1>5
<1>8. g + b <= d + a
  <2>1. CASE r = Damaged
    <3>1. g = d + 1 /\ b + 1 <= a
      BY <1>3, <1>4, <1>5, <2>1
    <3>. QED
      BY <1>7, <3>1
  <2>2. CASE r # Damaged
    <3>1. g = d
      BY <1>4, <1>5, <2>2
    <3>. QED
      BY <1>7, <3>1
  <2>. QED
    BY <2>1, <2>2
<1>9. g + b <= harm + c
  BY <1>6, <1>7, <1>8
<1>. QED
  BY <1>5, <1>9 DEF Paid

LEMMA PaidWritten ==
  ASSUME NEW all, AllRequests(all), NEW more, Len(more) \in Nat, NEW s, NEW t,
         NEW h \in Seq(Nat), NEW harm \in Nat, Paid(s, h, all, harm),
         Cardinality(Broken(t, more)) + Cardinality(TooLong(all))
           <= Cardinality(Broken(s, all)) + Cardinality(TooLong(more))
  PROVE  Paid(t, h, more, harm)
<1>1. Len(all) \in Nat /\ Len(h) \in Nat
  BY DEF AllRequests
<1>2. /\ Cardinality(Broken(s, all)) \in Nat /\ Cardinality(Broken(t, more)) \in Nat
      /\ Cardinality(TooLong(all)) \in Nat /\ Cardinality(TooLong(more)) \in Nat
      /\ Cardinality(Hurt(h)) \in Nat
  BY <1>1, SizesAre
<1>3. PICK a, b, c, d, g :
        /\ a = Cardinality(Broken(s, all)) /\ b = Cardinality(Broken(t, more))
        /\ c = Cardinality(TooLong(all)) /\ d = Cardinality(Hurt(h))
        /\ g = Cardinality(TooLong(more))
  OBVIOUS
<1>4. d + a <= harm + c
  BY <1>3 DEF Paid
<1>5. b + c <= a + g
  BY <1>3
<1>6. a \in Nat /\ b \in Nat /\ c \in Nat /\ d \in Nat /\ g \in Nat
  BY <1>2, <1>3
<1>7. d + b <= harm + g
  BY <1>4, <1>5, <1>6
<1>. QED
  BY <1>3, <1>7 DEF Paid

LEMMA PaidNone ==
  ASSUME NEW all, AllRequests(all), NEW s, NEW h \in Seq(Nat), NEW harm \in Nat,
         Paid(s, h, all, harm)
  PROVE  Paid(<<>>, h, all, harm)
<1>1. Len(all) \in Nat /\ Len(h) \in Nat
  BY DEF AllRequests
<1>2. /\ IsFiniteSet(Broken(s, all)) /\ Cardinality(Broken(s, all)) \in Nat
      /\ Cardinality(Broken(<<>>, all)) \in Nat /\ Cardinality(TooLong(all)) \in Nat
      /\ Cardinality(Hurt(h)) \in Nat
  BY <1>1, SizesAre
<1>3. Broken(<<>>, all) \subseteq Broken(s, all)
  <2>1. 1..Len(<<>>) = {}
    OBVIOUS
  <2>. QED
    BY <2>1 DEF Broken
<1>4. Cardinality(Broken(<<>>, all)) <= Cardinality(Broken(s, all))
  BY <1>2, <1>3, NoMore
<1>5. PICK a, b, c, d :
        /\ a = Cardinality(Broken(s, all)) /\ b = Cardinality(Broken(<<>>, all))
        /\ c = Cardinality(TooLong(all)) /\ d = Cardinality(Hurt(h))
  OBVIOUS
<1>6. d + a <= harm + c
  BY <1>5 DEF Paid
<1>7. d + b <= harm + c
  BY <1>2, <1>4, <1>5, <1>6
<1>. QED
  BY <1>5, <1>7 DEF Paid

-----------------------------------------------------------------------------
(* The steps of the server, the device and the connection.                  *)
LEMMA HandledWritten ==
  ASSUME NEW all, NEW s, NEW h \in Seq(Nat), NEW l, l.from \in Nat, l.harm \in Nat,
         Handled(s, h, all, l), \A x \in 1..Len(h) : h[x] <= Len(all),
         NEW m \in Messages, m[1] \in RequestTitles
  PROVE  Handled(s \o Bytes(m, Len(all) + 1), h, Append(all, m), l)
<1>1. PICK t, more : t = s \o Bytes(m, Len(all) + 1) /\ more = Append(all, m)
  OBVIOUS
<1>2. /\ AllRequests(all) /\ s \in Stream /\ Placed(s, Len(all)) /\ Increasing(h)
      /\ \A x \in 1..Len(h), k \in 1..Len(s) : h[x] < s[k].i
      /\ Paid(s, h, all, l.harm)
      /\ ~l.restarted => Unlost(s, h, all, l.from)
  BY DEF Handled
<1>3. Wrote(s, all, t, more) /\ MoreRequests(all, m, more)
  BY <1>1, <1>2, WholeWritten, RequestWritten
<1>4. /\ t \in Stream /\ Placed(t, Len(more)) /\ AllRequests(more) /\ Len(more) \in Nat
      /\ Len(all) \in Nat /\ Len(more) = Len(all) + 1
      /\ \A k \in 1..Len(t) : t[k].i = Len(more) \/ \E j \in 1..Len(s) : t[k] = s[j]
  BY <1>3 DEF Wrote, MoreRequests
<1>5. Cardinality(Broken(t, more)) + Cardinality(TooLong(all))
        <= Cardinality(Broken(s, all)) + Cardinality(TooLong(more))
  BY <1>1, <1>2, BrokenWritten
<1>6. Paid(t, h, more, l.harm)
  BY <1>2, <1>4, <1>5, PaidWritten
<1>7. ~l.restarted => Unlost(t, h, more, l.from)
  BY <1>2, <1>3, UnlostWritten
<1>8. ASSUME NEW x \in 1..Len(h), NEW k \in 1..Len(t) PROVE h[x] < t[k].i
  <2>1. CASE t[k].i = Len(more)
    <3>1. h[x] \in Nat /\ h[x] <= Len(all)
      BY <1>8
    <3>2. PICK y, z, n : y = h[x] /\ z = t[k].i /\ n = Len(all)
      OBVIOUS
    <3>3. y \in Nat /\ n \in Nat /\ y <= n /\ z = n + 1
      BY <1>4, <2>1, <3>1, <3>2
    <3>4. y < z
      BY <3>3
    <3>. QED
      BY <3>2, <3>4
  <2>2. CASE \E j \in 1..Len(s) : t[k] = s[j]
    BY <1>2, <1>8, <2>2
  <2>. QED
    BY <1>4, <1>8, <2>1, <2>2
<1>9. Handled(t, h, more, l)
  BY <1>2, <1>4, <1>6, <1>7, <1>8 DEF Handled
<1>. QED
  BY <1>1, <1>9

LEMMA HandledRead ==
  ASSUME NEW all, NEW s, NEW h \in Seq(Nat), NEW l, l.from \in Nat \ {0}, l.harm \in Nat,
         Handled(s, h, all, l), bufSize \in Nat,
         NEW e \in BOOLEAN, NEW n \in PutEnds(Clean(e), s),
         \A k \in PutEnds(Clean(e), s) : n <= k, NEW t \in Stream, Tail0(t, s, n)
  PROVE  Handled(t, Append(h, Origin(FieldsOf(Put(Clean(e), s)[n - 1]), s[n], all)), all, l)
<1>1. PICK r, g : r = Origin(FieldsOf(Put(Clean(e), s)[n - 1]), s[n], all) /\ g = Append(h, r)
  OBVIOUS
<1>2. /\ AllRequests(all) /\ s \in Stream /\ Placed(s, Len(all)) /\ Increasing(h)
      /\ \A x \in 1..Len(h), k \in 1..Len(s) : h[x] < s[k].i
      /\ Paid(s, h, all, l.harm)
      /\ ~l.restarted => Unlost(s, h, all, l.from)
  BY DEF Handled
<1>3. /\ Placed(t, Len(all)) /\ s[n].i \in 1..Len(all)
      /\ \A k \in 1..Len(t) : s[n].i < t[k].i
      /\ Broken(t, all) \subseteq Broken(s, all)
      /\ r = Damaged => s[1].i \in Broken(s, all) /\ s[1].i \notin Broken(t, all)
  BY <1>1, <1>2, ReadIs
<1>4. n \in 1..Len(s) /\ Len(all) \in Nat
  BY <1>2 DEF PutEnds, MessageEnds, AllRequests
<1>5. r \in {s[n].i, Damaged} /\ r \in Nat
  BY <1>1, <1>3, <1>4, OriginIs DEF Damaged
<1>6. Increasing(g)
  BY <1>1, <1>2, <1>4, <1>5, IncreasingGrown
<1>7. Paid(t, g, all, l.harm)
  BY <1>1, <1>2, <1>3, <1>5, PaidRead
<1>8. ~l.restarted => Unlost(t, g, all, l.from)
  BY <1>1, <1>2, UnlostRead
<1>9. ASSUME NEW x \in 1..Len(g), NEW k \in 1..Len(t) PROVE g[x] < t[k].i
  <2>1. /\ Len(h) \in Nat /\ Len(g) = Len(h) + 1 /\ g[Len(h) + 1] = r
        /\ \A y \in 1..Len(h) : g[y] = h[y]
    BY <1>1, <1>5, AppendedIs
  <2>2. s[n].i < t[k].i /\ t[k].i \in 1..Len(all)
    BY <1>3 DEF Placed
  <2>3. PICK a, b, c : a = s[n].i /\ b = t[k].i /\ c = g[x]
    OBVIOUS
  <2>4. a \in Nat /\ b \in Nat /\ a < b
    BY <1>3, <1>4, <2>2, <2>3
  <2>5. CASE x = Len(h) + 1
    <3>1. c = a \/ c = 0
      BY <1>5, <2>1, <2>3, <2>5 DEF Damaged
    <3>2. c < b
      BY <2>4, <3>1
    <3>. QED
      BY <2>3, <3>2
  <2>6. CASE x # Len(h) + 1
    <3>1. x \in 1..Len(h)
      BY <2>1, <2>6
    <3>2. h[x] < s[n].i /\ h[x] \in Nat /\ g[x] = h[x]
      BY <1>2, <1>4, <2>1, <3>1
    <3>3. c \in Nat /\ c < a
      BY <2>3, <3>2
    <3>4. c < b
      BY <2>4, <3>3
    <3>. QED
      BY <2>3, <3>4
  <2>. QED
    BY <2>5, <2>6
<1>10. Handled(t, g, all, l)
  BY <1>2, <1>3, <1>6, <1>7, <1>8, <1>9 DEF Handled
<1>. QED
  BY <1>1, <1>10

LEMMA HandledRestarts ==
  ASSUME NEW all, NEW s, NEW h \in Seq(Nat), NEW l, l.harm \in Nat,
         Handled(s, h, all, l), NEW t \in Stream, NEW n, Tail0(t, s, n),
         NEW m, m.restarted, m.harm = l.harm + 1
  PROVE  Handled(t, h, all, m)
<1>1. /\ AllRequests(all) /\ s \in Stream /\ Placed(s, Len(all)) /\ Increasing(h)
      /\ \A x \in 1..Len(h), k \in 1..Len(s) : h[x] < s[k].i
      /\ Paid(s, h, all, l.harm)
  BY DEF Handled
<1>2. Within(t, s, n)
  BY DEF Tail0
<1>3. Placed(t, Len(all))
  BY <1>1, <1>2, PlacedWithin
<1>4. Broken(t, all) \subseteq Broken(s, all) \cup {s[n].i}
  BY <1>1, BrokenInTail
<1>5. Paid(t, h, all, m.harm)
  <2>1. PICK c : c = l.harm
    OBVIOUS
  <2>2. Paid(s, h, all, c) /\ c \in Nat
    BY <1>1, <2>1
  <2>3. Paid(t, h, all, c + 1)
    BY <1>1, <1>4, <2>2, PaidFault
  <2>. QED
    BY <2>1, <2>3
<1>6. \A k \in 1..Len(t) : n + k \in 1..Len(s) /\ t[k] = s[n + k]
  BY <1>2 DEF Within
<1>7. \A x \in 1..Len(h), k \in 1..Len(t) : h[x] < t[k].i
  BY <1>1, <1>6
<1>. QED
  BY <1>1, <1>3, <1>5, <1>7 DEF Handled

LEMMA HandledOpened ==
  ASSUME NEW all, NEW s, NEW h \in Seq(Nat), NEW l, l.harm \in Nat,
         Handled(s, h, all, l), NEW t \in Stream, Within(t, s, 0),
         NEW m, m.from = Len(all) + 1, m.harm = l.harm + 1
  PROVE  Handled(t, h, all, m)
<1>1. /\ AllRequests(all) /\ s \in Stream /\ Placed(s, Len(all)) /\ Increasing(h)
      /\ \A x \in 1..Len(h), k \in 1..Len(s) : h[x] < s[k].i
      /\ Paid(s, h, all, l.harm)
  BY DEF Handled
<1>2. Placed(t, Len(all)) /\ Len(all) \in Nat
  BY <1>1, PlacedWithin DEF AllRequests
<1>3. Broken(t, all) \subseteq Broken(s, all) \cup {s[Len(t)].i}
  BY <1>1, BrokenInPart
<1>4. Paid(t, h, all, m.harm)
  <2>1. PICK c : c = l.harm
    OBVIOUS
  <2>2. Paid(s, h, all, c) /\ c \in Nat
    BY <1>1, <2>1
  <2>3. Paid(t, h, all, c + 1)
    BY <1>1, <1>3, <2>2, PaidFault
  <2>. QED
    BY <2>1, <2>3
<1>5. \A k \in 1..Len(t) : k \in 1..Len(s) /\ t[k] = s[k]
  BY DEF Within
<1>6. \A x \in 1..Len(h), k \in 1..Len(t) : h[x] < t[k].i
  BY <1>1, <1>5
<1>7. Unlost(t, h, all, m.from)
  BY <1>2, UnlostFresh
<1>. QED
  BY <1>1, <1>2, <1>4, <1>6, <1>7 DEF Handled

LEMMA HandledCleared ==
  ASSUME NEW all, NEW s, NEW h \in Seq(Nat), NEW l, l.harm \in Nat,
         Handled(s, h, all, l), NEW m, m.from = Len(all) + 1, m.harm = l.harm
  PROVE  Handled(<<>>, h, all, m)
<1>1. /\ AllRequests(all) /\ s \in Stream /\ Increasing(h) /\ Paid(s, h, all, l.harm)
      /\ Len(all) \in Nat
  BY DEF Handled, AllRequests
<1>2. 1..Len(<<>>) = {} /\ <<>> \in Stream
  BY DEF Stream
<1>3. Placed(<<>>, Len(all)) /\ \A x \in 1..Len(h), k \in 1..Len(<<>>) : h[x] < <<>>[k].i
  BY <1>2 DEF Placed
<1>4. Paid(<<>>, h, all, m.harm)
  BY <1>1, PaidNone
<1>5. Unlost(<<>>, h, all, m.from)
  BY <1>1, UnlostFresh
<1>. QED
  BY <1>1, <1>2, <1>3, <1>4, <1>5 DEF Handled

LEMMA HandledSame ==
  ASSUME NEW all, NEW s, NEW h, NEW l, Handled(s, h, all, l),
         NEW m, m.from = l.from, m.harm = l.harm, m.restarted = l.restarted
  PROVE  Handled(s, h, all, m)
  BY DEF Handled

-----------------------------------------------------------------------------
(* The device has read n of the bytes v since it was last clean, and has    *)
(* come to the end of no message.  Its state is that of a parser that begins *)
(* with v, but for an escape e that a reset leaves.                         *)
Reads(v, n, e) ==
  /\ v \in Stream /\ e \in BOOLEAN /\ Tail0(down, v, n)
  /\ device = Put(Clean(e), v)[n]
  /\ \A k \in PutEnds(Clean(e), v) : n < k

DeviceRight ==
  \E v, n, e : Reads(v, n, e) /\ Handled(v, heard, written, link)

LEMMA HeardIs ==
  ASSUME LinkTypeOK
  PROVE  /\ heard \in Seq(Nat) /\ \A x \in 1..Len(heard) : heard[x] <= Len(written)
         /\ link.from \in Nat \ {0} /\ link.harm \in Nat /\ bufSize \in Nat
<1>1. heard \in Seq(0..Len(written)) /\ Len(written) \in Nat /\ link \in LinkRecord
  BY DEF LinkTypeOK
<1>2. heard \in Seq(Nat) /\ \A x \in 1..Len(heard) : heard[x] <= Len(written)
  BY <1>1, FewerIs
<1>3. link.from \in Nat \ {0} /\ link.harm \in 0..MaxFaults /\ MaxFaults \in Nat
  BY <1>1, LinkIs
<1>. QED
  BY <1>2, <1>3, LinkAssumption DEF LinkAssumption

(* A parser that begins. *)
LEMMA ReadsFresh ==
  ASSUME NEW v \in Stream, NEW e \in BOOLEAN
  PROVE  /\ Tail0(v, v, 0) /\ Put(Clean(e), v)[0] = Clean(e)
         /\ \A k \in PutEnds(Clean(e), v) : 0 < k
<1>1. Len(v) \in Nat
  BY DEF Stream
<1>2. Tail0(v, v, 0)
  BY <1>1 DEF Tail0, Within
<1>3. Put(Clean(e), v)[0] = Clean(e)
  BY <1>1, PutIs
<1>4. \A k \in PutEnds(Clean(e), v) : 0 < k
  BY <1>1 DEF PutEnds, MessageEnds
<1>. QED
  BY <1>2, <1>3, <1>4

LEMMA DeviceInitRight ==
  ASSUME LinkInit
  PROVE  DeviceRight
<1>1. /\ down = <<>> /\ device = FreshBuffer /\ written = <<>> /\ heard = <<>>
      /\ link.from = 1 /\ link.harm = 0
  BY DEF LinkInit
<1>2. <<>> \in Stream /\ 1..Len(<<>>) = {} /\ Len(<<>>) = 0 /\ FALSE \in BOOLEAN
      /\ <<>> \in Seq(Messages)
  BY DEF Stream
<1>3. Reads(<<>>, 0, FALSE)
  <2>1. device = Clean(FALSE)
    BY <1>1 DEF Clean, FreshBuffer
  <2>. QED
    BY <1>1, <1>2, <2>1, ReadsFresh DEF Reads
<1>4. AllRequests(<<>>)
  BY <1>2 DEF AllRequests
<1>5. Paid(<<>>, <<>>, <<>>, 0)
  <2>1. Hurt(<<>>) = {} /\ Broken(<<>>, <<>>) = {} /\ TooLong(<<>>) = {}
    BY <1>2 DEF Hurt, Broken, TooLong
  <2>2. Cardinality({}) = 0
    BY FS_EmptySet
  <2>3. PICK a, b, c : /\ a = Cardinality(Hurt(<<>>)) /\ b = Cardinality(Broken(<<>>, <<>>))
                       /\ c = Cardinality(TooLong(<<>>))
    OBVIOUS
  <2>4. a = 0 /\ b = 0 /\ c = 0
    BY <2>1, <2>2, <2>3
  <2>5. a + b <= 0 + c
    BY <2>4
  <2>. QED
    BY <2>3, <2>5 DEF Paid
<1>6. Unlost(<<>>, <<>>, <<>>, 1)
  <2>1. Unlost(<<>>, <<>>, <<>>, Len(<<>>) + 1)
    BY <1>2, UnlostFresh
  <2>. QED
    BY <1>2, <2>1
<1>7. Handled(<<>>, <<>>, <<>>, link)
  <2>1. Placed(<<>>, 0) /\ Increasing(<<>>)
    BY <1>2 DEF Placed, Increasing
  <2>2. \A x \in 1..Len(<<>>), k \in 1..Len(<<>>) : <<>>[x] < <<>>[k].i
    BY <1>2
  <2>. QED
    BY <1>1, <1>2, <1>4, <1>5, <1>6, <2>1, <2>2 DEF Handled
<1>. QED
  BY <1>1, <1>3, <1>7 DEF DeviceRight

LEMMA DeviceHeardStill ==
  ASSUME DeviceRight, UNCHANGED <<down, device, written, heard>>,
         link'.from = link.from, link'.harm = link.harm, link'.restarted = link.restarted
  PROVE  DeviceRight'
<1>1. PICK v, n, e : Reads(v, n, e) /\ Handled(v, heard, written, link)
  BY DEF DeviceRight
<1>2. Reads(v, n, e)'
  BY <1>1 DEF Reads
<1>3. Handled(v, heard, written, link')
  BY <1>1, HandledSame
<1>. QED
  BY <1>2, <1>3 DEF DeviceRight

LEMMA ServerWritesRight ==
  ASSUME LinkInv, DeviceRight, ServerWrites
  PROVE  DeviceRight'
<1>1. PICK v, n, e : Reads(v, n, e) /\ Handled(v, heard, written, link)
  BY DEF DeviceRight
<1>2. /\ v \in Stream /\ e \in BOOLEAN /\ Tail0(down, v, n)
      /\ device = Put(Clean(e), v)[n]
      /\ \A k \in PutEnds(Clean(e), v) : n < k
  BY <1>1 DEF Reads
<1>3. LinkTypeOK
  BY DEF LinkInv
<1>4. /\ written \in Seq(Messages) /\ Len(written) \in Nat /\ down \in Stream
      /\ heard \in Seq(Nat) /\ \A x \in 1..Len(heard) : heard[x] <= Len(written)
      /\ link.from \in Nat /\ link.harm \in Nat
  BY <1>3, HeardIs DEF LinkTypeOK
<1>5. PICK i : i = Len(written) + 1
  OBVIOUS
<1>6. PICK m \in Requests(<<Digit[i]>>) :
        written' = Append(written, m) /\ down' = down \o Bytes(m, i)
  BY <1>5 DEF ServerWrites
<1>7. UNCHANGED <<device, heard, link>>
  BY DEF ServerWrites
<1>8. m \in Messages /\ m[1] \in RequestTitles /\ i \in Nat
  <2>1. i \in 1..9 /\ i \in Nat
    <3>1. PICK l : l = Len(written)
      OBVIOUS
    <3>2. l < MaxWritten /\ i = l + 1 /\ l \in Nat
      BY <1>4, <1>5, <3>1 DEF ServerWrites
    <3>3. MaxWritten \in Nat /\ MaxWritten <= 9
      BY LinkAssumption DEF LinkAssumption
    <3>. QED
      BY <3>2, <3>3
  <2>. QED
    BY <2>1, RequestType
<1>9. PICK b, u : b = Bytes(m, i) /\ u = v \o b
  OBVIOUS
<1>10. b \in Stream
  <2>1. PICK l : l = Len(b)
    OBVIOUS
  <2>. QED
    BY <1>8, <1>9, <2>1, BytesAre
<1>11. u \in Stream /\ Within(v, u, 0)
  BY <1>2, <1>9, <1>10, PartsAre
<1>12. /\ Len(v) \in Nat /\ Len(down) \in Nat /\ n \in Nat /\ n + Len(down) = Len(v)
       /\ \A j \in 1..Len(down) : down[j] = v[n + j]
  BY <1>2 DEF Tail0, Within
<1>13. Tail0(down', u, n)
  <2>1. PICK d : d = down \o b
    OBVIOUS
  <2>2. /\ Len(b) \in Nat /\ Len(d) = Len(down) + Len(b) /\ Len(u) = Len(v) + Len(b)
        /\ \A j \in 1..Len(down) : d[j] = down[j]
        /\ \A j \in 1..Len(b) : d[Len(down) + j] = b[j]
        /\ \A j \in 1..Len(v) : u[j] = v[j]
        /\ \A j \in 1..Len(b) : u[Len(v) + j] = b[j]
    BY <1>2, <1>4, <1>9, <1>10, <2>1 DEF Stream
  <2>3. ASSUME NEW j \in 1..Len(d) PROVE d[j] = u[n + j]
    <3>1. CASE j \in 1..Len(down)
      <4>1. n + j \in 1..Len(v)
        BY <1>12, <3>1
      <4>. QED
        BY <1>12, <2>2, <3>1, <4>1
    <3>2. CASE j \notin 1..Len(down)
      <4>1. PICK x, y, z : x = Len(down) /\ y = Len(b) /\ z = Len(v)
        OBVIOUS
      <4>2. x \in Nat /\ y \in Nat /\ z \in Nat /\ n + x = z /\ j \in 1..(x + y) /\ j > x
        BY <1>12, <2>2, <2>3, <3>2, <4>1
      <4>3. PICK k \in 1..y : k = j - x
        BY <4>2
      <4>4. x + k = j /\ z + k = n + j
        BY <1>12, <4>2, <4>3
      <4>. QED
        BY <2>2, <4>1, <4>4
    <3>. QED
      BY <3>1, <3>2
  <2>4. Len(d) \in Nat /\ Len(u) \in Nat /\ n + Len(d) = Len(u)
    <3>1. PICK x, y, z, w, q : /\ x = Len(down) /\ y = Len(b) /\ z = Len(v)
                               /\ w = Len(d) /\ q = Len(u)
      OBVIOUS
    <3>2. /\ x \in Nat /\ y \in Nat /\ z \in Nat /\ n \in Nat /\ n + x = z
          /\ w = x + y /\ q = z + y
      BY <1>12, <2>2, <3>1
    <3>3. w \in Nat /\ q \in Nat /\ n + w = q
      BY <3>2
    <3>. QED
      BY <3>1, <3>3
  <2>5. Tail0(d, u, n)
    BY <1>12, <2>3, <2>4 DEF Tail0, Within
  <2>. QED
    BY <1>6, <1>9, <2>1, <2>5
<1>14. \A j \in 0..Len(v) : Put(Clean(e), v)[j] = Put(Clean(e), u)[j]
  BY <1>11, PutFirst
<1>15. device' = Put(Clean(e), u)[n]
  BY <1>2, <1>7, <1>12, <1>14
<1>16. \A k \in PutEnds(Clean(e), u) : n < k
  <2>1. PICK w : w = Put(Clean(e), u)[0]
    OBVIOUS
  <2>2. Len(u) \in Nat
    BY <1>11 DEF Stream
  <2>3. w = Clean(e)
    BY <2>1, <2>2, PutIs
  <2>4. \A k \in 1..Len(v) : k \in PutEnds(w, v) <=> 0 + k \in PutEnds(Clean(e), u)
    BY <1>11, <2>1, PutEndsWithin
  <2>5. ASSUME NEW k \in PutEnds(Clean(e), u), k <= n PROVE FALSE
    <3>1. k \in 1..Len(u)
      BY DEF PutEnds, MessageEnds
    <3>2. k \in 1..Len(v) /\ 0 + k = k
      BY <1>12, <2>2, <2>5, <3>1
    <3>3. k \in PutEnds(Clean(e), v)
      BY <2>3, <2>4, <3>2
    <3>4. n < k
      BY <1>2, <3>3
    <3>. QED
      BY <1>12, <2>5, <3>2, <3>4
  <2>6. \A k \in PutEnds(Clean(e), u) : k \in Nat
    BY <2>2 DEF PutEnds, MessageEnds
  <2>. QED
    BY <1>12, <2>5, <2>6
<1>17. Reads(u, n, e)'
  BY <1>2, <1>11, <1>13, <1>15, <1>16 DEF Reads
<1>18. Handled(u, heard, Append(written, m), link)
  BY <1>1, <1>4, <1>5, <1>8, <1>9, HandledWritten
<1>19. Handled(u, heard', written', link')
  BY <1>6, <1>7, <1>18
<1>. QED
  BY <1>17, <1>19 DEF DeviceRight

(* The tail of a tail. *)
LEMMA TailTail ==
  ASSUME NEW s \in Stream, NEW t \in Stream, NEW n, Tail0(t, s, n), NEW d \in 0..Len(t),
         NEW r, Tail0(r, t, d)
  PROVE  Tail0(r, s, n + d)
<1>1. /\ Len(s) \in Nat /\ Len(t) \in Nat /\ Len(r) \in Nat /\ n \in Nat /\ d \in Nat
      /\ n + Len(t) = Len(s) /\ d + Len(r) = Len(t)
      /\ \A j \in 1..Len(t) : t[j] = s[n + j]
      /\ \A j \in 1..Len(r) : r[j] = t[d + j]
  BY DEF Tail0, Within
<1>2. PICK x, y, z, w : x = Len(s) /\ y = Len(t) /\ z = Len(r) /\ w = n + d
  OBVIOUS
<1>3. w \in Nat /\ w + z = x /\ w + z <= x
  <2>1. x \in Nat /\ y \in Nat /\ z \in Nat /\ n + y = x /\ d + z = y
    BY <1>1, <1>2
  <2>. QED
    BY <1>1, <1>2, <2>1
<1>4. \A j \in 1..z : d + j \in 1..y /\ n + (d + j) = w + j
  BY <1>1, <1>2
<1>5. \A j \in 1..z : r[j] = s[w + j]
  BY <1>1, <1>2, <1>4
<1>6. Tail0(r, s, w)
  BY <1>1, <1>2, <1>3, <1>5 DEF Tail0, Within
<1>. QED
  BY <1>2, <1>6

(* The end of a message leaves the parser clean. *)
LEMMA EndCleans ==
  ASSUME NEW q \in Buffers, NEW v \in Stream, NEW n \in PutEnds(q, v)
  PROVE  Put(q, v)[n] = Clean(FALSE)
<1>1. n \in 1..Len(v) /\ v[n].c = End /\ ~Put(q, v)[n - 1].esc /\ Len(v) \in Nat
  BY DEF PutEnds, MessageEnds, Stream
<1>2. PICK p, b : p = Put(q, v)[n - 1] /\ b = v[n]
  OBVIOUS
<1>3. n - 1 \in 0..Len(v) /\ b \in Byte
  BY <1>1, <1>2 DEF Stream
<1>4. p \in Buffers
  BY <1>2, <1>3, PutType
<1>5. Put(q, v)[n] = PutByte(p, b)
  BY <1>1, <1>2, PutIs
<1>6. PICK x : x = PutInBuffer(p, b)
  OBVIOUS
<1>7. b.c # Nul /\ b.c = End /\ ~p.esc
  BY <1>1, <1>2 DEF End, Nul
<1>8. x = Clean(FALSE)
  BY <1>3, <1>4, <1>6, <1>7, PutInBufferIs
<1>9. PutByte(p, b) = x \/ PutByte(p, b) = Clean(x.esc)
  BY <1>3, <1>4, <1>6, <1>7, PutByteIs
<1>10. x.esc = FALSE
  BY <1>8, CleanIs
<1>. QED
  BY <1>5, <1>8, <1>9, <1>10

LEMMA DeviceReadsRight ==
  ASSUME LinkInv, DeviceRight, DeviceReads
  PROVE  DeviceRight'
<1>1. PICK v, n, e : Reads(v, n, e) /\ Handled(v, heard, written, link)
  BY DEF DeviceRight
<1>2. PICK q : q = Clean(e)
  OBVIOUS
<1>3. /\ v \in Stream /\ e \in BOOLEAN /\ Tail0(down, v, n) /\ Within(down, v, n)
      /\ device = Put(q, v)[n]
      /\ \A k \in PutEnds(q, v) : n < k
      /\ q \in Buffers
  BY <1>1, <1>2, CleanIs DEF Reads, Tail0
<1>4. LinkTypeOK
  BY DEF LinkInv
<1>5. /\ down \in Stream /\ heard \in Seq(Nat) /\ bufSize \in Nat
      /\ link.from \in Nat \ {0} /\ link.harm \in Nat
  BY <1>4, HeardIs DEF LinkTypeOK
<1>6. PICK after, ends : after = Put(device, down) /\ ends = MessageEnds(after, down)
  OBVIOUS
<1>7. ends = PutEnds(device, down)
  BY <1>6 DEF PutEnds
<1>8. PICK d \in 1..Len(down) :
        /\ \A k \in ends : d <= k
        /\ down' = SubSeq(down, d + 1, Len(down))
        /\ device' = after[d]
        /\ \/ d \notin ends /\ heard' = heard
           \/ /\ d \in ends
              /\ heard' = Append(heard, Origin(FieldsOf(after[d - 1]), down[d], written))
  BY <1>6 DEF DeviceReads
<1>9. written' = written /\ link' = link
  BY DEF DeviceReads
<1>10. /\ Len(v) \in Nat /\ Len(down) \in Nat /\ n \in Nat /\ n + Len(down) = Len(v)
       /\ \A j \in 1..Len(down) : down[j] = v[n + j]
  BY <1>3 DEF Tail0, Within
<1>11. PICK N : N = n + d
  OBVIOUS
<1>12. N \in 1..Len(v) /\ N \in Nat /\ d \in 0..Len(down) /\ d - 1 \in 0..Len(down)
       /\ n + (d - 1) = N - 1
  <2>1. PICK x, y : x = Len(v) /\ y = Len(down)
    OBVIOUS
  <2>2. x \in Nat /\ y \in Nat /\ n \in Nat /\ n + y = x /\ d \in 1..y
    BY <1>8, <1>10, <2>1
  <2>. QED
    BY <1>11, <2>1, <2>2
<1>13. PICK t \in Stream : down' = t /\ Tail0(t, down, d)
  BY <1>5, <1>8, <1>12, TailIs
<1>14. Tail0(t, v, N)
  <2>1. Tail0(t, v, n + d)
    BY <1>3, <1>5, <1>12, <1>13, TailTail
  <2>. QED
    BY <1>11, <2>1
<1>15. \A j \in 0..Len(down) : after[j] = Put(q, v)[n + j]
  <2>1. \A j \in 0..Len(down) : Put(Put(q, v)[n], down)[j] = Put(q, v)[n + j]
    BY <1>3, PutWithin
  <2>2. after = Put(Put(q, v)[n], down)
    BY <1>3, <1>6
  <2>. QED
    BY <2>1, <2>2
<1>16. after[d] = Put(q, v)[N] /\ after[d - 1] = Put(q, v)[N - 1] /\ down[d] = v[N]
  BY <1>8, <1>10, <1>11, <1>12, <1>15
<1>17. \A k \in 1..Len(down) : k \in ends <=> n + k \in PutEnds(q, v)
  BY <1>3, <1>7, PutEndsWithin
<1>18. ASSUME NEW k \in PutEnds(q, v) PROVE N <= k
  <2>1. k \in 1..Len(v) /\ n < k
    BY <1>3 DEF PutEnds, MessageEnds
  <2>2. k - n \in 1..Len(down) /\ n + (k - n) = k
    BY <1>10, <2>1
  <2>3. k - n \in ends
    BY <1>17, <2>2
  <2>4. d <= k - n
    BY <1>8, <2>3
  <2>. QED
    BY <1>8, <1>10, <1>11, <2>1, <2>4
<1>19. CASE d \notin ends /\ heard' = heard
  <2>1. N \notin PutEnds(q, v)
    BY <1>8, <1>11, <1>17, <1>19
  <2>2. ASSUME NEW k \in PutEnds(q, v) PROVE N < k
    <3>1. k \in 1..Len(v) /\ N <= k /\ N # k
      BY <1>18, <2>1 DEF PutEnds, MessageEnds
    <3>. QED
      BY <1>10, <1>12, <3>1
  <2>3. Reads(v, N, e)'
    BY <1>2, <1>3, <1>8, <1>13, <1>14, <1>16, <2>2 DEF Reads
  <2>. QED
    BY <1>1, <1>9, <1>19, <2>3 DEF DeviceRight
<1>20. CASE /\ d \in ends
            /\ heard' = Append(heard, Origin(FieldsOf(after[d - 1]), down[d], written))
  <2>1. N \in PutEnds(q, v)
    BY <1>8, <1>11, <1>17, <1>20
  <2>2. heard' = Append(heard, Origin(FieldsOf(Put(q, v)[N - 1]), v[N], written))
    BY <1>16, <1>20
  <2>3. Handled(t, Append(heard, Origin(FieldsOf(Put(q, v)[N - 1]), v[N], written)),
                written, link)
    BY <1>1, <1>2, <1>3, <1>5, <1>13, <1>14, <1>18, <2>1, HandledRead
  <2>4. device' = Clean(FALSE)
    BY <1>3, <1>8, <1>16, <2>1, EndCleans
  <2>5. Reads(t, 0, FALSE)'
    <3>1. FALSE \in BOOLEAN
      OBVIOUS
    <3>2. /\ Tail0(t, t, 0) /\ Put(Clean(FALSE), t)[0] = Clean(FALSE)
          /\ \A k \in PutEnds(Clean(FALSE), t) : 0 < k
      BY <1>13, <3>1, ReadsFresh
    <3>. QED
      BY <1>13, <2>4, <3>1, <3>2 DEF Reads
  <2>. QED
    BY <1>9, <2>2, <2>3, <2>5 DEF DeviceRight
<1>. QED
  BY <1>8, <1>19, <1>20

LEMMA DeviceRestartsRight ==
  ASSUME LinkInv, DeviceRight, DeviceRestarts
  PROVE  DeviceRight'
<1>1. PICK v, n, e : Reads(v, n, e) /\ Handled(v, heard, written, link)
  BY DEF DeviceRight
<1>2. v \in Stream /\ Tail0(down, v, n)
  BY <1>1 DEF Reads
<1>3. LinkTypeOK
  BY DEF LinkInv
<1>4. down \in Stream /\ heard \in Seq(Nat) /\ link.harm \in Nat /\ link \in LinkRecord
  BY <1>3, HeardIs DEF LinkTypeOK
<1>5. PICK k \in 1..(Len(down) + 1) : down' = SubSeq(down, k, Len(down))
  BY DEF DeviceRestarts
<1>6. /\ device' = FreshBuffer /\ UNCHANGED <<written, heard>>
      /\ link' = [link EXCEPT !.restarted = TRUE, !.joined = @ \cup {Len(sent) + 1},
                              !.faults = @ + 1, !.harm = @ + 1]
  BY DEF DeviceRestarts
<1>7. link'.restarted /\ link'.harm = link.harm + 1
  BY <1>4, <1>6 DEF LinkRecord
<1>8. Len(down) \in Nat
  BY <1>4 DEF Stream
<1>9. PICK d \in 0..Len(down) : d = k - 1 /\ k = d + 1
  BY <1>5, <1>8
<1>10. PICK t \in Stream : down' = t /\ Tail0(t, down, d)
  BY <1>4, <1>5, <1>9, TailIs
<1>11. Tail0(t, v, n + d)
  BY <1>2, <1>4, <1>9, <1>10, TailTail
<1>12. Handled(t, heard, written, link')
  BY <1>1, <1>4, <1>7, <1>10, <1>11, HandledRestarts
<1>13. Reads(t, 0, FALSE)'
  <2>1. FALSE \in BOOLEAN
    OBVIOUS
  <2>2. /\ Tail0(t, t, 0) /\ Put(Clean(FALSE), t)[0] = Clean(FALSE)
        /\ \A x \in PutEnds(Clean(FALSE), t) : 0 < x
    BY <1>10, <2>1, ReadsFresh
  <2>3. device' = Clean(FALSE)
    BY <1>6 DEF Clean, FreshBuffer
  <2>. QED
    BY <1>10, <2>1, <2>2, <2>3 DEF Reads
<1>. QED
  BY <1>6, <1>12, <1>13 DEF DeviceRight

LEMMA PortOpenedAgainRight ==
  ASSUME LinkInv, DeviceRight, PortOpenedAgain
  PROVE  DeviceRight'
<1>1. PICK v, n, e : Reads(v, n, e) /\ Handled(v, heard, written, link)
  BY DEF DeviceRight
<1>2. /\ v \in Stream /\ e \in BOOLEAN /\ Tail0(down, v, n)
      /\ device = Put(Clean(e), v)[n]
      /\ \A k \in PutEnds(Clean(e), v) : n < k
  BY <1>1 DEF Reads
<1>3. LinkTypeOK
  BY DEF LinkInv
<1>4. /\ down \in Stream /\ heard \in Seq(Nat) /\ link.harm \in Nat /\ link \in LinkRecord
      /\ Len(down) \in Nat
  BY <1>3, HeardIs DEF LinkTypeOK, Stream
<1>5. PICK k \in 0..Len(down) : down' = SubSeq(down, 1, k)
  BY DEF PortOpenedAgain
<1>6. UNCHANGED <<device, written, heard>> /\ Connects(up' # <<>>, 1)
  BY DEF PortOpenedAgain, Connects
<1>7. link'.from = Len(written) + 1 /\ link'.harm = link.harm + 1
  BY <1>6 DEF Connects
<1>8. down' \in Stream /\ Len(down') = k /\ Within(down', down, 0)
  BY <1>4, <1>5, PartIs
<1>9. /\ Len(v) \in Nat /\ n \in Nat /\ n + Len(down) = Len(v)
      /\ \A j \in 1..Len(down) : down[j] = v[n + j]
  BY <1>2 DEF Tail0, Within
<1>10. PICK N : N = n + k
  OBVIOUS
<1>11. N \in 0..Len(v) /\ n \in 0..N /\ N \in Nat /\ k \in Nat
  BY <1>5, <1>9, <1>10
<1>12. PICK u : u = SubSeq(v, 1, N)
  OBVIOUS
<1>13. u \in Stream /\ Len(u) = N /\ Within(u, v, 0)
  BY <1>2, <1>11, <1>12, PartIs
<1>14. Tail0(down', u, n)
  <2>1. ASSUME NEW j \in 1..k PROVE down'[j] = u[n + j]
    <3>1. j \in 1..Len(down) /\ n + j \in 1..N /\ 0 + j = j /\ 0 + (n + j) = n + j
      BY <1>4, <1>5, <1>9, <1>10, <1>11
    <3>2. down'[j] = down[j]
      BY <1>8, <3>1 DEF Within
    <3>3. u[n + j] = v[n + j]
      BY <1>13, <3>1 DEF Within
    <3>. QED
      BY <1>9, <3>1, <3>2, <3>3
  <2>. QED
    BY <1>8, <1>9, <1>10, <1>11, <1>13, <2>1 DEF Tail0, Within
<1>15. \A j \in 0..Len(u) : Put(Clean(e), u)[j] = Put(Clean(e), v)[j]
  BY <1>13, PutFirst
<1>16. device' = Put(Clean(e), u)[n]
  BY <1>2, <1>6, <1>11, <1>13, <1>15
<1>17. ASSUME NEW x \in PutEnds(Clean(e), u) PROVE n < x
  <2>1. PICK w : w = Put(Clean(e), v)[0]
    OBVIOUS
  <2>2. w = Clean(e)
    BY <1>9, <2>1, PutIs
  <2>3. \A y \in 1..Len(u) : y \in PutEnds(w, u) <=> 0 + y \in PutEnds(Clean(e), v)
    BY <1>13, <2>1, PutEndsWithin
  <2>4. x \in 1..Len(u)
    BY DEF PutEnds, MessageEnds
  <2>5. 0 + x = x
    BY <1>11, <1>13, <2>4
  <2>6. x \in PutEnds(Clean(e), v)
    BY <1>17, <2>2, <2>3, <2>4, <2>5
  <2>. QED
    BY <1>2, <2>6
<1>18. Reads(u, n, e)'
  BY <1>2, <1>13, <1>14, <1>16, <1>17 DEF Reads
<1>19. Handled(u, heard, written, link')
  BY <1>1, <1>4, <1>7, <1>13, HandledOpened
<1>. QED
  BY <1>6, <1>18, <1>19 DEF DeviceRight

LEMMA SocketOpenedAgainRight ==
  ASSUME LinkInv, DeviceRight, SocketOpenedAgain
  PROVE  DeviceRight'
<1>1. PICK v, n, e : Reads(v, n, e) /\ Handled(v, heard, written, link)
  BY DEF DeviceRight
<1>2. LinkTypeOK
  BY DEF LinkInv
<1>3. device \in Buffers /\ heard \in Seq(Nat) /\ link.harm \in Nat
  BY <1>2, HeardIs DEF LinkTypeOK
<1>4. /\ device' = ResetBuffer(device) /\ down' = <<>> /\ UNCHANGED <<written, heard>>
      /\ Connects(FALSE, 0)
  BY DEF SocketOpenedAgain, Connects
<1>5. link'.from = Len(written) + 1 /\ link'.harm = link.harm
  BY <1>3, <1>4 DEF Connects
<1>6. PICK f \in BOOLEAN : device' = Clean(f)
  BY <1>3, <1>4, ResetBufferIs DEF Buffers
<1>7. Reads(<<>>, 0, f)'
  <2>1. <<>> \in Stream
    BY DEF Stream
  <2>2. /\ Tail0(<<>>, <<>>, 0) /\ Put(Clean(f), <<>>)[0] = Clean(f)
        /\ \A x \in PutEnds(Clean(f), <<>>) : 0 < x
    BY <2>1, ReadsFresh
  <2>. QED
    BY <1>4, <1>6, <2>1, <2>2 DEF Reads
<1>8. Handled(<<>>, heard, written, link')
  BY <1>1, <1>3, <1>5, HandledCleared
<1>. QED
  BY <1>4, <1>7, <1>8 DEF DeviceRight

LEMMA DeviceNextRight ==
  LinkInv /\ DeviceRight /\ [LinkNext]_linkVars => DeviceRight'
<1>. SUFFICES ASSUME LinkInv, DeviceRight, [LinkNext]_linkVars PROVE DeviceRight'
  OBVIOUS
<1>1. CASE ServerWrites
  BY <1>1, ServerWritesRight
<1>2. CASE DeviceReads
  BY <1>2, DeviceReadsRight
<1>3. CASE DeviceMeasures
  <2>1. UNCHANGED <<down, device, written, heard, link>>
    BY <1>3 DEF DeviceMeasures
  <2>. QED
    BY <2>1, DeviceHeardStill
<1>4. CASE ServerReads
  <2>1. UNCHANGED <<down, device, written, heard>>
    BY <1>4 DEF ServerReads
  <2>2. link \in LinkRecord
    BY DEF LinkInv, LinkTypeOK
  <2>3. link'.from = link.from /\ link'.harm = link.harm /\ link'.restarted = link.restarted
    BY <1>4, <2>2 DEF ServerReads, LinkRecord
  <2>. QED
    BY <2>1, <2>3, DeviceHeardStill
<1>5. CASE ReceiverReturns
  <2>1. UNCHANGED <<down, device, written, heard, link>>
    BY <1>5 DEF ReceiverReturns
  <2>. QED
    BY <2>1, DeviceHeardStill
<1>6. CASE DeviceRestarts
  BY <1>6, DeviceRestartsRight
<1>7. CASE PortOpenedAgain
  BY <1>7, PortOpenedAgainRight
<1>8. CASE SocketOpenedAgain
  BY <1>8, SocketOpenedAgainRight
<1>9. CASE UNCHANGED linkVars
  <2>1. UNCHANGED <<down, device, written, heard, link>>
    BY <1>9 DEF linkVars
  <2>. QED
    BY <2>1, DeviceHeardStill
<1>10. CASE SetupEnds
  <2>1. UNCHANGED <<down, device, written, heard>>
    BY <1>10 DEF SetupEnds
  <2>2. link \in LinkRecord
    BY DEF LinkInv, LinkTypeOK
  <2>3. link'.from = link.from /\ link'.harm = link.harm /\ link'.restarted = link.restarted
    BY <1>10, <2>2 DEF SetupEnds, LinkRecord
  <2>. QED
    BY <2>1, <2>3, DeviceHeardStill
<1>. QED
  BY <1>1, <1>2, <1>3, <1>4, <1>5, <1>6, <1>7, <1>8, <1>9, <1>10 DEF LinkNext

LEMMA DamageFollows ==
  LinkInv /\ DeviceRight => DamageIsBounded
<1>. SUFFICES ASSUME LinkInv, DeviceRight PROVE DamageIsBounded
  OBVIOUS
<1>1. PICK v, n, e : Handled(v, heard, written, link)
  BY DEF DeviceRight
<1>2. Increasing(heard) /\ AllRequests(written) /\ Len(written) \in Nat
  BY <1>1 DEF Handled, AllRequests
<1>3. link \in LinkRecord /\ Len(heard) \in Nat
  BY DEF LinkInv, LinkTypeOK
<1>4. link.harm \in Nat
  BY <1>3, LinkIs
<1>5. PICK a, b, c, d : /\ a = Cardinality(Hurt(heard)) /\ b = Cardinality(Broken(v, written))
                        /\ c = Cardinality(TooLong(written)) /\ d = link.harm
  OBVIOUS
<1>6. a \in Nat /\ b \in Nat /\ c \in Nat /\ d \in Nat
  BY <1>2, <1>3, <1>4, <1>5, SizesAre
<1>7. a + b <= d + c
  BY <1>1, <1>5 DEF Handled, Paid
<1>8. a <= d + c
  BY <1>6, <1>7
<1>. QED
  BY <1>2, <1>5, <1>8 DEF DamageIsBounded, Hurt, TooLong

LEMMA LossFollows ==
  LinkInv /\ DeviceRight => OnlyFirstIsLost
<1>. SUFFICES ASSUME LinkInv, DeviceRight, ~link.restarted,
                     NEW k \in 1..Len(heard), NEW i \in (link.from + 1)..(heard[k] - 1),
                     Fits(written[i])
              PROVE  Contains(heard, i)
  BY DEF OnlyFirstIsLost
<1>1. PICK v, n, e : Handled(v, heard, written, link)
  BY DEF DeviceRight
<1>2. /\ \A x \in 1..Len(heard), y \in 1..Len(v) : heard[x] < v[y].i
      /\ Unlost(v, heard, written, link.from) /\ v \in Stream
  BY <1>1 DEF Handled
<1>3. /\ heard \in Seq(Nat) /\ \A x \in 1..Len(heard) : heard[x] <= Len(written)
      /\ link.from \in Nat /\ Len(written) \in Nat
  BY HeardIs DEF LinkInv, LinkTypeOK
<1>4. PICK m, l, f : m = heard[k] /\ l = Len(written) /\ f = link.from
  OBVIOUS
<1>5. m \in Nat /\ m <= l /\ l \in Nat /\ f \in Nat /\ i \in (f + 1)..(m - 1)
  BY <1>3, <1>4
<1>6. i \in (f + 1)..l /\ i < m
  BY <1>5
<1>7. (v # <<>> /\ v[1].i <= i) \/ Contains(heard, i)
  BY <1>2, <1>4, <1>6 DEF Unlost
<1>8. ASSUME v # <<>>, v[1].i <= i PROVE FALSE
  <2>1. 1 \in 1..Len(v) /\ v[1] \in Byte
    BY <1>2, <1>8 DEF Stream
  <2>2. heard[k] < v[1].i
    BY <1>2, <2>1
  <2>3. PICK x : x = v[1].i
    OBVIOUS
  <2>4. x \in Nat /\ m < x /\ x <= i
    BY <1>4, <1>8, <2>1, <2>2, <2>3 DEF Byte
  <2>. QED
    BY <1>5, <1>6, <2>4
<1>. QED
  BY <1>7, <1>8

(* The device handles the server's messages once and in order, and for each *)
(* fault and each message that is too long it handles at most one that was  *)
(* not written (putByte of the device's StreamParser).                      *)
THEOREM LinkDamage == LinkSpec => []DamageIsBounded
  BY LinkInitInv, LinkNextInv, DeviceInitRight, DeviceNextRight, DamageFollows,
     PTL DEF LinkSpec

(* A new connection to a device that was not restarted loses at most its    *)
(* first message to what the device has read of the old one (the buffer of  *)
(* the device's StreamParser, which opening a port does not reset).         *)
THEOREM LinkLoss == LinkSpec => []OnlyFirstIsLost
  BY LinkInitInv, LinkNextInv, DeviceInitRight, DeviceNextRight, LossFollows,
     PTL DEF LinkSpec
================================================================================
