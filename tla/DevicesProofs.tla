----------------------------- MODULE DevicesProofs -----------------------------
(***************************************************************************)
(* Proofs about Devices, for any devices, ports, backends and any depth of *)
(* nested handlers.                                                        *)
(***************************************************************************)
EXTENDS Devices, SequenceTheorems, TLAPS

(***************************************************************************)
(* The inductive invariant.                                                *)
(*                                                                         *)
(* Stack: what each suspended function may rely on (Fits).  A device that  *)
(* is not registered is in the hands of one function, and a backend        *)
(* without a device, or about to be destroyed, in those of one (Apart);    *)
(* only the innermost function is at a step that does not wait (Deep).     *)
(***************************************************************************)
Known(d) == device[d].st = "live" /\ device[d].hooked
Fresh(d) == device[d].st = "live" /\ ~device[d].hooked
Unowned(b) == Live(b) /\ backend[b].owner = None

HoldsDevice(f, d)  == f.op \in {"identify", "identified", "delete"} /\ f.d = d
HoldsBackend(f, b) == f.op \in {"add", "assign", "destroy"} /\ f.b = b

Fits(f) ==
  CASE f.op = "add" -> Unowned(f.b) /\ device[f.b].st = "unused"
    [] f.op = "destroy" -> /\ Live(f.b)
                           /\ backend[f.b].owner # None =>
                                device[backend[f.b].owner].hooked
    [] f.op = "freed" -> backend[f.b].st \in {"dying", "dead"}
    [] f.op = "assign" -> /\ Known(f.d)
                          /\ f.b # None => /\ Unowned(f.b)
                                           /\ backend[f.b].id = device[f.d].id
    [] f.op = "identify" -> /\ Fresh(f.d) /\ device[f.d].be # None
                            /\ f.res # None => f.res = backend[device[f.d].be].id
    [] f.op = "identified" -> /\ Fresh(f.d) /\ device[f.d].be # None
                              /\ device[f.d].id = backend[device[f.d].be].id
    [] f.op = "describe" -> Known(f.d)
    [] f.op = "delete" -> Fresh(f.d)
    [] f.op \in {"list", "check"} -> TRUE

Free(f, g) ==
  /\ \A d \in Objects : ~(HoldsDevice(f, d) /\ HoldsDevice(g, d))
  /\ \A b \in Backends : ~(HoldsBackend(f, b) /\ HoldsBackend(g, b))
Apart(s) == \A i, j \in 1..Len(s) : i # j => Free(s[i], s[j])

Deep(f) == f.op \notin {"add", "destroy", "identified"}

Elems(s) == {s[i] : i \in 1..Len(s)}

Stack ==
  /\ \A f \in Elems(stack) : Fits(f)
  /\ Apart(stack)
  /\ \A i \in 2..Len(stack) : Deep(stack[i])

(* Devices and backends point at each other, but for backends that a       *)
(* device has been made to forget.                                         *)
Links ==
  /\ \A d \in Objects :
       /\ device[d].be # None => /\ device[d].st = "live" /\ Live(device[d].be)
                                 /\ backend[device[d].be].owner = d
       /\ device[d].hooked => device[d].st = "live"
  /\ \A b \in Backends :
       Live(b) /\ backend[b].owner # None =>
         /\ device[backend[b].owner].st = "live"
         /\ device[backend[b].owner].hooked \/ device[backend[b].owner].be = b
  /\ \A b \in Backends : backend[b].st = "unused" => device[b].st = "unused"

Fields ==
  \A b \in Backends : Live(b) =>
    /\ backend[b].kind \in {"virtual", "tcp", "tty"} /\ backend[b].id \in Ids
    /\ backend[b].kind = "tty" => backend[b].key \in Ports
    /\ backend[b].kind = "virtual" => backend[b].key \in Ids
    /\ backend[b].open => ~backend[b].said

Listed(b) == Live(b) /\ backend[b].hooked

Lists ==
  /\ \A p \in Ports : out[p] # None =>
       Listed(out[p]) /\ backend[out[p]].kind = "tty" /\ backend[out[p]].key = p
  /\ \A b \in tcpIn : Listed(b)
  /\ \A id \in Ids : virt[id] # None =>
       Listed(virt[id]) /\ backend[virt[id]].kind = "virtual" /\ backend[virt[id]].key = id

Registry ==
  /\ OneDevicePerId
  /\ \A id \in Ids :
       /\ identified[id] = None => device[id].st = "unused"
       /\ identified[id] # None => Known(identified[id]) /\ device[identified[id]].id = id

(* Whatever is not registered, not owned or not listed is in the hands of  *)
(* a function.                                                             *)
Pending ==
  /\ \A d \in Objects : Fresh(d) => \E f \in Elems(stack) : HoldsDevice(f, d)
  /\ \A b \in Backends : Unowned(b) => \E f \in Elems(stack) : HoldsBackend(f, b)
  /\ \A b \in Backends :
       Live(b) /\ ~backend[b].hooked => [op |-> "list", b |-> b] \in Elems(stack)

Open(b) == backend[b].open \/ (backend[b].kind = "tcp" /\ ~backend[b].said)

Honest ==
  /\ \A d \in Objects : device[d].connected /\ device[d].be # None => Open(device[d].be)
  /\ \A d \in Objects : device[d].hooked /\ device[d].connected => device[d].be # None
  /\ LinkIsOfItsDevice

(* Why a backend is being destroyed. *)
Replaced(b, f) ==
  \E c \in Backends :
    /\ f = [op |-> "assign", d |-> backend[b].owner, b |-> c]
    /\ Priority(c) > Priority(b)
Reason(b) ==
  \/ backend[b].owner = None
  \/ ~backend[b].open
  \/ \E c \in Backends : c # b /\ Live(c) /\ backend[c].owner = backend[b].owner
  \/ Len(stack) > 1 /\ Replaced(b, stack[2])
Destroying == Top("destroy") => Reason(Head(stack).b)

IInv ==
  /\ TypeOK /\ Stack /\ Links /\ Fields /\ Lists /\ Registry /\ Pending /\ Honest
  /\ Destroying
-----------------------------------------------------------------------------
(***************************************************************************)
(* Frames, and what a step does to the stack.                              *)
(***************************************************************************)
LEMMA Names ==
  /\ None \notin Objects /\ None \notin Backends /\ None \notin Ids /\ None \notin Ports
  /\ Backends \subseteq Objects /\ Ids \subseteq Objects
  /\ \A id \in Ids : id \notin Backends
  /\ Kinds \subseteq {"virtual", "tcp", "tty"}
BY ConstantsAssumption DEF Objects, Backends

LEMMA FrameIs ==
  ASSUME NEW f \in Frame
  PROVE  /\ f.op \in {"add", "list", "destroy", "freed", "identify", "identified",
                      "describe", "delete", "assign", "check"}
         /\ f.op \in {"add", "list", "destroy", "freed"} => f.b \in Backends
         /\ f.op \in {"identify", "identified", "describe", "delete", "assign"}
              => f.d \in Objects
         /\ f.op = "identify" => f.res \in Ids \cup {None}
         /\ f.op = "assign" => f.b \in Backends \cup {None}
         /\ f.op = "check" => f.ports \in SUBSET Ports
BY DEF Frame

LEMMA FrameMade ==
  /\ \A b \in Backends : /\ [op |-> "add", b |-> b] \in Frame
                         /\ [op |-> "list", b |-> b] \in Frame
                         /\ [op |-> "destroy", b |-> b] \in Frame
                         /\ [op |-> "freed", b |-> b] \in Frame
  /\ \A d \in Objects : /\ [op |-> "identified", d |-> d] \in Frame
                        /\ [op |-> "describe", d |-> d] \in Frame
                        /\ [op |-> "delete", d |-> d] \in Frame
                        /\ \A r \in Ids \cup {None} :
                             [op |-> "identify", d |-> d, res |-> r] \in Frame
                        /\ \A b \in Backends \cup {None} :
                             [op |-> "assign", d |-> d, b |-> b] \in Frame
  /\ \A s \in SUBSET Ports : [op |-> "check", ports |-> s] \in Frame
BY DEF Frame

LEMMA Nothing ==
  /\ <<>> \in Seq(Frame) /\ Elems(<<>>) = {} /\ Apart(<<>>)
  /\ \A i \in 1..Len(<<>>) : Deep(<<>>[i])
  /\ \A i \in 2..Len(<<>>) : Deep(<<>>[i])
<1>1. <<>> \in Seq(Frame) /\ Len(<<>>) = 0 /\ 1..0 = {} /\ 2..0 = {}
  OBVIOUS
<1>. QED
  BY <1>1 DEF Elems, Apart

LEMMA One ==
  ASSUME NEW x \in Frame
  PROVE  /\ <<x>> \in Seq(Frame) /\ Elems(<<x>>) = {x} /\ Apart(<<x>>)
         /\ <<x>> # <<>> /\ <<x>>[1] = x
         /\ \A i \in 2..Len(<<x>>) : Deep(<<x>>[i])
         /\ Deep(x) => \A i \in 1..Len(<<x>>) : Deep(<<x>>[i])
<1>1. <<x>> \in Seq(Frame) /\ Len(<<x>>) = 1 /\ <<x>>[1] = x /\ 1..1 = {1} /\ 2..1 = {}
  OBVIOUS
<1>2. <<x>> # <<>>
  OBVIOUS
<1>. QED
  BY <1>1, <1>2 DEF Elems, Apart

LEMMA Two ==
  ASSUME NEW x \in Frame, NEW y \in Frame
  PROVE  /\ <<x, y>> \in Seq(Frame) /\ Elems(<<x, y>>) = {x, y}
         /\ <<x, y>> # <<>> /\ <<x, y>>[1] = x /\ <<x, y>>[2] = y /\ Len(<<x, y>>) > 1
         /\ Free(x, y) => Apart(<<x, y>>)
         /\ Deep(y) => \A i \in 2..Len(<<x, y>>) : Deep(<<x, y>>[i])
<1>1. /\ <<x, y>> \in Seq(Frame) /\ Len(<<x, y>>) = 2
      /\ <<x, y>>[1] = x /\ <<x, y>>[2] = y /\ 1..2 = {1, 2} /\ 2..2 = {2}
  OBVIOUS
<1>2. Free(x, y) => Free(y, x)
  BY DEF Free
<1>3. <<x, y>> # <<>>
  OBVIOUS
<1>. QED
  BY <1>1, <1>2, <1>3 DEF Elems, Apart

LEMMA Three ==
  ASSUME NEW x \in Frame, NEW y \in Frame, NEW z \in Frame
  PROVE  /\ <<x, y, z>> \in Seq(Frame) /\ Elems(<<x, y, z>>) = {x, y, z}
         /\ <<x, y, z>> # <<>> /\ <<x, y, z>>[1] = x /\ <<x, y, z>>[2] = y
         /\ Len(<<x, y, z>>) > 1
         /\ Free(x, y) /\ Free(x, z) /\ Free(y, z) => Apart(<<x, y, z>>)
         /\ Deep(y) /\ Deep(z) => \A i \in 2..Len(<<x, y, z>>) : Deep(<<x, y, z>>[i])
<1>1. /\ <<x, y, z>> \in Seq(Frame) /\ Len(<<x, y, z>>) = 3
      /\ <<x, y, z>>[1] = x /\ <<x, y, z>>[2] = y /\ <<x, y, z>>[3] = z
      /\ 1..3 = {1, 2, 3} /\ 2..3 = {2, 3}
  OBVIOUS
<1>2. (Free(x, y) => Free(y, x)) /\ (Free(x, z) => Free(z, x)) /\ (Free(y, z) => Free(z, y))
  BY DEF Free
<1>3. <<x, y, z>> # <<>>
  OBVIOUS
<1>4. Elems(<<x, y, z>>) = {x, y, z}
  BY <1>1 DEF Elems
<1>5. Free(x, y) /\ Free(x, z) /\ Free(y, z) => Apart(<<x, y, z>>)
  BY <1>1, <1>2 DEF Apart
<1>. QED
  BY <1>1, <1>3, <1>4, <1>5

(* What is below the function that a step enters or leaves: the rest of    *)
(* the stack, or all of it where an event is handled.                      *)
Under(base) ==
  \/ stack # <<>> /\ base = Tail(stack)
  \/ Waiting /\ base = stack

LEMMA UnderIs ==
  ASSUME TypeOK, Stack, NEW base, Under(base)
  PROVE  /\ base \in Seq(Frame)
         /\ \A f \in Elems(base) : f \in Frame /\ f \in Elems(stack) /\ Fits(f) /\ Deep(f)
         /\ Apart(base)
         /\ \A i \in 1..Len(base) : Deep(base[i])
<1>0. stack \in Seq(Frame)
  BY DEF TypeOK
<1>1. CASE stack # <<>> /\ base = Tail(stack)
  <2>1. /\ base \in Seq(Frame) /\ Len(base) = Len(stack) - 1 /\ Len(stack) \in Nat
        /\ \A i \in 1..Len(base) : base[i] = stack[i + 1] /\ i + 1 \in 2..Len(stack)
    BY <1>0, <1>1, HeadTailProperties, LenProperties
  <2>2. \A i \in 1..Len(base) : base[i] \in Elems(stack) /\ Deep(base[i]) /\ base[i] \in Frame
    <3>. SUFFICES ASSUME NEW i \in 1..Len(base)
                  PROVE  base[i] \in Elems(stack) /\ Deep(base[i]) /\ base[i] \in Frame
      OBVIOUS
    <3>1. i + 1 \in 1..Len(stack)
      BY <2>1
    <3>2. stack[i + 1] \in Frame
      BY <1>0, <3>1, ElementOfSeq
    <3>. QED
      BY <2>1, <3>1, <3>2 DEF Stack, Elems
  <2>3. Apart(base)
    BY <2>1 DEF Stack, Apart
  <2>. QED
    BY <2>1, <2>2, <2>3 DEF Stack, Elems
<1>2. CASE Waiting /\ base = stack
  <2>1. Len(stack) \in Nat /\ \A i \in 1..Len(stack) : stack[i] \in Frame
    BY <1>0, ElementOfSeq, LenProperties
  <2>2. ASSUME NEW i \in 1..Len(stack) PROVE Deep(stack[i])
    <3>1. CASE i = 1
      <4>1. stack # <<>> /\ Head(stack) = stack[1]
        BY <1>0, <2>1, <2>2, <3>1, EmptySeq
      <4>. QED
        BY <1>2, <3>1, <4>1 DEF Waiting, Deep
    <3>2. CASE i # 1
      BY <2>1, <2>2, <3>2 DEF Stack
    <3>. QED
      BY <3>1, <3>2
  <2>. QED
    BY <1>0, <1>2, <2>1, <2>2 DEF Stack, Elems
<1>. QED
  BY <1>1, <1>2 DEF Under

(* The innermost function has what it holds for itself. *)
LEMMA HeadIs ==
  ASSUME TypeOK, Stack, stack # <<>>
  PROVE  /\ Head(stack) \in Frame /\ Head(stack) \in Elems(stack) /\ Fits(Head(stack))
         /\ Under(Tail(stack))
         /\ Elems(stack) = {Head(stack)} \cup Elems(Tail(stack))
         /\ \A f \in Elems(Tail(stack)) : Free(f, Head(stack))
<1>1. stack \in Seq(Frame)
  BY DEF TypeOK
<1>2. /\ Tail(stack) \in Seq(Frame) /\ Len(Tail(stack)) = Len(stack) - 1
      /\ Len(stack) \in Nat /\ Len(stack) > 0
      /\ Head(stack) = stack[1]
      /\ \A i \in 1..Len(Tail(stack)) : Tail(stack)[i] = stack[i + 1]
  BY <1>1, HeadTailProperties, LenProperties, EmptySeq
<1>3. 1 \in 1..Len(stack)
  BY <1>2
<1>4. stack[1] \in Frame /\ stack[1] \in Elems(stack)
  BY <1>1, <1>3, ElementOfSeq DEF Elems
<1>5. Elems(stack) = {Head(stack)} \cup Elems(Tail(stack))
  <2>1. ASSUME NEW i \in 1..Len(stack) PROVE stack[i] \in {Head(stack)} \cup Elems(Tail(stack))
    <3>1. CASE i = 1
      BY <1>2, <3>1
    <3>2. CASE i # 1
      <4>1. i - 1 \in 1..Len(Tail(stack)) /\ (i - 1) + 1 = i
        BY <1>2, <2>1, <3>2
      <4>2. Tail(stack)[i - 1] = stack[i]
        BY <1>2, <4>1
      <4>. QED
        BY <4>1, <4>2 DEF Elems
    <3>. QED
      BY <3>1, <3>2
  <2>2. ASSUME NEW i \in 1..Len(Tail(stack)) PROVE Tail(stack)[i] \in Elems(stack)
    <3>1. i + 1 \in 1..Len(stack)
      BY <1>2, <2>2
    <3>. QED
      BY <1>2, <2>2, <3>1 DEF Elems
  <2>. QED
    BY <1>2, <1>4, <2>1, <2>2 DEF Elems
<1>6. ASSUME NEW i \in 1..Len(Tail(stack)) PROVE Free(Tail(stack)[i], Head(stack))
  <2>1. i + 1 \in 1..Len(stack) /\ i + 1 # 1
    BY <1>2, <1>6
  <2>. QED
    BY <1>2, <1>3, <1>6, <2>1 DEF Stack, Apart
<1>. QED
  BY <1>2, <1>4, <1>5, <1>6 DEF Stack, Under, Elems

(* Frames are put on what is below. *)
LEMMA StackStep ==
  ASSUME NEW fs \in Seq(Frame), NEW base \in Seq(Frame), stack' = fs \o base,
         Apart(fs), Apart(base),
         \A f \in Elems(fs), g \in Elems(base) : Free(f, g),
         \A i \in 2..Len(fs) : Deep(fs[i]),
         \A i \in 1..Len(base) : Deep(base[i]),
         \A f \in Elems(fs) : Fits(f)',
         \A f \in Elems(base) : Fits(f)'
  PROVE  /\ Stack'
         /\ stack' \in Seq(Frame)
         /\ Elems(stack)' = Elems(fs) \cup Elems(base)
         /\ fs # <<>> => stack' # <<>> /\ Head(stack') = fs[1]
         /\ Len(fs) > 1 => Len(stack') > 1 /\ stack'[2] = fs[2]
         /\ fs = <<>> => ~Top("destroy")'
<1>1. /\ stack' \in Seq(Frame) /\ Len(stack') = Len(fs) + Len(base)
      /\ Len(fs) \in Nat /\ Len(base) \in Nat
      /\ \A i \in 1..Len(fs) : stack'[i] = fs[i]
      /\ \A i \in (Len(fs) + 1)..(Len(fs) + Len(base)) : stack'[i] = base[i - Len(fs)]
  BY ConcatProperties, LenProperties
<1>2. ASSUME NEW i \in 1..Len(stack')
      PROVE  \/ i \in 1..Len(fs) /\ stack'[i] = fs[i] /\ fs[i] \in Elems(fs)
             \/ /\ i - Len(fs) \in 1..Len(base) /\ stack'[i] = base[i - Len(fs)]
                /\ base[i - Len(fs)] \in Elems(base)
  <2>1. CASE i \in 1..Len(fs)
    BY <1>1, <2>1 DEF Elems
  <2>2. CASE i \notin 1..Len(fs)
    <3>1. i - Len(fs) \in 1..Len(base) /\ i \in (Len(fs) + 1)..(Len(fs) + Len(base))
      BY <1>1, <1>2, <2>2
    <3>. QED
      BY <1>1, <3>1 DEF Elems
  <2>. QED
    BY <2>1, <2>2
<1>3. Elems(stack)' = Elems(fs) \cup Elems(base)
  <2>1. Elems(stack)' = Elems(stack')
    BY DEF Elems
  <2>2. \A i \in 1..Len(fs) : i \in 1..Len(stack')
    BY <1>1
  <2>3. \A i \in 1..Len(fs) : fs[i] \in Elems(stack')
    BY <1>1, <2>2 DEF Elems
  <2>4. ASSUME NEW i \in 1..Len(base) PROVE base[i] \in Elems(stack')
    <3>1. i + Len(fs) \in 1..Len(stack') /\ i + Len(fs) \in (Len(fs) + 1)..(Len(fs) + Len(base))
          /\ (i + Len(fs)) - Len(fs) = i
      BY <1>1, <2>4
    <3>2. stack'[i + Len(fs)] = base[i]
      BY <1>1, <3>1
    <3>. QED
      BY <3>1, <3>2 DEF Elems
  <2>5. \A x \in Elems(stack') : x \in Elems(fs) \cup Elems(base)
    BY <1>2 DEF Elems
  <2>. QED
    BY <2>1, <2>3, <2>4, <2>5 DEF Elems
<1>4. \A f \in Elems(stack)' : Fits(f)'
  BY <1>3
<1>5. \A f \in Elems(fs), g \in Elems(base) : Free(g, f)
  BY DEF Free
<1>6. ASSUME NEW i \in 1..Len(stack'), NEW j \in 1..Len(stack'), i # j
      PROVE  Free(stack'[i], stack'[j])
  <2>1. CASE i \in 1..Len(fs) /\ j \in 1..Len(fs)
    BY <1>1, <1>6, <2>1 DEF Apart
  <2>2. CASE i - Len(fs) \in 1..Len(base) /\ j - Len(fs) \in 1..Len(base)
    <3>1. i - Len(fs) # j - Len(fs) /\ i \notin 1..Len(fs) /\ j \notin 1..Len(fs)
      BY <1>1, <1>6, <2>2
    <3>2. stack'[i] = base[i - Len(fs)] /\ stack'[j] = base[j - Len(fs)]
      BY <1>2, <3>1
    <3>. QED
      BY <2>2, <3>1, <3>2 DEF Apart
  <2>3. CASE i \in 1..Len(fs) /\ j - Len(fs) \in 1..Len(base)
    <3>1. j \notin 1..Len(fs) /\ i - Len(fs) \notin 1..Len(base)
      BY <1>1, <1>6, <2>3
    <3>. QED
      BY <1>2, <1>5, <3>1
  <2>4. CASE i - Len(fs) \in 1..Len(base) /\ j \in 1..Len(fs)
    <3>1. i \notin 1..Len(fs) /\ j - Len(fs) \notin 1..Len(base)
      BY <1>1, <1>6, <2>4
    <3>. QED
      BY <1>2, <1>5, <3>1
  <2>. QED
    BY <1>2, <2>1, <2>2, <2>3, <2>4
<1>7. ASSUME NEW i \in 2..Len(stack') PROVE Deep(stack'[i])
  <2>1. i \in 1..Len(stack')
    BY <1>1, <1>7
  <2>2. CASE i \in 1..Len(fs)
    BY <1>1, <1>7, <2>2
  <2>3. CASE i \notin 1..Len(fs)
    BY <1>2, <2>1, <2>3
  <2>. QED
    BY <2>2, <2>3
<1>8. Apart(stack)' /\ \A i \in 2..Len(stack') : Deep(stack'[i])
  BY <1>6, <1>7 DEF Apart
<1>9. fs # <<>> => stack' # <<>> /\ Head(stack') = fs[1]
  <2>. SUFFICES ASSUME fs # <<>> PROVE stack' # <<>> /\ Head(stack') = fs[1]
    OBVIOUS
  <2>1. Len(fs) > 0
    BY <1>1, EmptySeq
  <2>2. Len(stack') > 0 /\ 1 \in 1..Len(fs)
    BY <1>1, <2>1
  <2>3. stack' # <<>>
    BY <1>1, <2>2, EmptySeq
  <2>. QED
    BY <1>1, <2>2, <2>3, HeadTailProperties
<1>10. Len(fs) > 1 => Len(stack') > 1 /\ stack'[2] = fs[2]
  BY <1>1
<1>11. fs = <<>> => ~Top("destroy")'
  <2>. SUFFICES ASSUME fs = <<>>, stack' # <<>> PROVE Head(stack').op # "destroy"
    BY DEF Top
  <2>1. Len(stack') > 0 /\ Len(fs) = 0 /\ Head(stack') = stack'[1]
    BY <1>1, EmptySeq, HeadTailProperties
  <2>2. 1 \in 1..Len(stack') /\ 1 - Len(fs) = 1
    BY <1>1, <2>1
  <2>3. stack'[1] = base[1] /\ 1 \in 1..Len(base)
    BY <1>2, <2>1, <2>2
  <2>. QED
    BY <2>1, <2>3 DEF Deep
<1>. QED
  BY <1>1, <1>3, <1>4, <1>8, <1>9, <1>10, <1>11 DEF Stack

(* What waits below goes on as it expects to: a step changes only devices  *)
(* and backends that are new, or that it has for itself, or, of backends,  *)
(* that have a device.                                                     *)
Mine(base, d) ==
  \/ device[d].st # "live"
  \/ Fresh(d) /\ stack # <<>> /\ base = Tail(stack) /\ HoldsDevice(Head(stack), d)
MineToo(base, b) ==
  \/ backend[b].owner # None
  \/ stack # <<>> /\ base = Tail(stack) /\ HoldsBackend(Head(stack), b)

LEMMA BaseFits ==
  ASSUME TypeOK, Stack, Links, NEW base, Under(base),
         NEW D \in SUBSET Objects, NEW B \in SUBSET Backends,
         \A d \in D : Mine(base, d),
         \A b \in B : MineToo(base, b),
         \A d \in Objects \ D : device[d].st = "live" =>
           /\ device'[d].st = "live" /\ device'[d].hooked = device[d].hooked
           /\ device'[d].id = device[d].id
           /\ ~device[d].hooked => device'[d].be = device[d].be,
         \A b \in Backends \ B : Live(b) =>
           backend'[b].st = "live" /\ backend'[b].owner = backend[b].owner,
         \A b \in Backends : Live(b) => backend'[b].id = backend[b].id,
         \A b \in Backends :
           backend[b].st \in {"dying", "dead"} => backend'[b].st \in {"dying", "dead"}
  PROVE  \A f \in Elems(base) : Fits(f)'
<1>. SUFFICES ASSUME NEW f \in Elems(base) PROVE Fits(f)'
  OBVIOUS
<1>1. f \in Frame /\ f \in Elems(stack) /\ Fits(f) /\ Deep(f)
  BY UnderIs
<1>2. f.op \in {"list", "freed", "identify", "describe", "delete", "assign", "check"}
  BY <1>1, FrameIs DEF Deep
<1>3. ASSUME f.op \in {"identify", "describe", "delete", "assign"}
      PROVE  /\ f.d \in Objects /\ f.d \notin D /\ device[f.d].st = "live"
             /\ f.op \in {"identify", "delete"} <=> ~device[f.d].hooked
  <2>1. f.d \in Objects
    BY <1>1, <1>3, FrameIs
  <2>2. /\ device[f.d].st = "live"
        /\ f.op \in {"identify", "delete"} <=> ~device[f.d].hooked
    BY <1>1, <1>3 DEF Fits, Known, Fresh
  <2>3. ASSUME f.d \in D PROVE FALSE
    <3>1. /\ Fresh(f.d) /\ stack # <<>> /\ base = Tail(stack)
          /\ HoldsDevice(Head(stack), f.d)
      BY <2>2, <2>3 DEF Mine
    <3>2. HoldsDevice(f, f.d)
      BY <1>3, <2>2, <3>1 DEF HoldsDevice, Fresh
    <3>. QED
      BY <2>1, <3>1, <3>2, HeadIs DEF Free
  <2>. QED
    BY <2>1, <2>2, <2>3
<1>4. CASE f.op \in {"list", "check"}
  BY <1>4 DEF Fits
<1>5. CASE f.op = "freed"
  BY <1>1, <1>5, FrameIs DEF Fits
<1>6. CASE f.op = "describe"
  BY <1>1, <1>3, <1>6 DEF Fits, Known
<1>7. CASE f.op = "delete"
  BY <1>1, <1>3, <1>7 DEF Fits, Fresh
<1>8. CASE f.op = "identify"
  <2>1. device[f.d].be # None /\ Live(device[f.d].be) /\ device[f.d].be \in Backends
    BY <1>1, <1>3, <1>8 DEF Fits, Links, TypeOK, DeviceRecord
  <2>2. device'[f.d].be = device[f.d].be
    BY <1>3, <1>8
  <2>. QED
    BY <1>1, <1>3, <1>8, <2>1, <2>2 DEF Fits, Fresh
<1>9. CASE f.op = "assign"
  <2>1. ASSUME f.b # None
        PROVE  f.b \in Backends /\ Unowned(f.b) /\ backend[f.b].id = device[f.d].id
               /\ f.b \notin B
    <3>1. f.b \in Backends /\ Unowned(f.b) /\ backend[f.b].id = device[f.d].id
      BY <1>1, <1>9, <2>1, FrameIs DEF Fits
    <3>2. ASSUME f.b \in B PROVE FALSE
      <4>1. stack # <<>> /\ base = Tail(stack) /\ HoldsBackend(Head(stack), f.b)
        BY <3>1, <3>2 DEF MineToo, Unowned
      <4>2. HoldsBackend(f, f.b)
        BY <1>9 DEF HoldsBackend
      <4>. QED
        BY <3>1, <4>1, <4>2, HeadIs DEF Free
    <3>. QED
      BY <3>1, <3>2
  <2>2. Known(f.d)'
    BY <1>1, <1>3, <1>9 DEF Fits, Known
  <2>3. f.b # None => Unowned(f.b)' /\ backend'[f.b].id = device'[f.d].id
    <3>. SUFFICES ASSUME f.b # None PROVE Unowned(f.b)' /\ backend'[f.b].id = device'[f.d].id
      OBVIOUS
    <3>1. f.b \in Backends \ B /\ Live(f.b) /\ backend[f.b].owner = None
      BY <2>1 DEF Unowned
    <3>2. backend'[f.b].st = "live" /\ backend'[f.b].owner = None
      BY <3>1
    <3>3. backend'[f.b].id = backend[f.b].id
      BY <3>1
    <3>4. device'[f.d].id = device[f.d].id
      BY <1>3, <1>9
    <3>. QED
      BY <2>1, <3>2, <3>3, <3>4 DEF Unowned, Live
  <2>. QED
    BY <1>9, <2>2, <2>3 DEF Fits
<1>. QED
  BY <1>2, <1>4, <1>5, <1>6, <1>7, <1>8, <1>9

(* What the function that ends had in hand is handed on. *)
LEMMA PendingStep ==
  ASSUME TypeOK, Stack, Pending, NEW base, Under(base), NEW F,
         Elems(stack)' = F \cup Elems(base),
         \A d \in Objects : Fresh(d)' =>
           \/ \E f \in F : HoldsDevice(f, d)
           \/ Fresh(d) /\ (base # stack => ~HoldsDevice(Head(stack), d)),
         \A b \in Backends : Unowned(b)' =>
           \/ \E f \in F : HoldsBackend(f, b)
           \/ Unowned(b) /\ (base # stack => ~HoldsBackend(Head(stack), b)),
         \A b \in Backends : Live(b)' /\ ~backend'[b].hooked =>
           \/ [op |-> "list", b |-> b] \in F
           \/ /\ Live(b) /\ ~backend[b].hooked
              /\ base # stack => Head(stack) # [op |-> "list", b |-> b]
  PROVE  Pending'
<1>1. \A f \in Elems(stack) : f \in Elems(base) \/ (f = Head(stack) /\ base # stack)
  BY HeadIs DEF Under
<1>2. ASSUME NEW d \in Objects, Fresh(d)' PROVE \E f \in Elems(stack)' : HoldsDevice(f, d)
  <2>1. CASE \E f \in F : HoldsDevice(f, d)
    BY <2>1
  <2>2. CASE Fresh(d) /\ (base # stack => ~HoldsDevice(Head(stack), d))
    BY <1>1, <2>2 DEF Pending
  <2>. QED
    BY <1>2, <2>1, <2>2
<1>3. ASSUME NEW b \in Backends, Unowned(b)' PROVE \E f \in Elems(stack)' : HoldsBackend(f, b)
  <2>1. CASE \E f \in F : HoldsBackend(f, b)
    BY <2>1
  <2>2. CASE Unowned(b) /\ (base # stack => ~HoldsBackend(Head(stack), b))
    BY <1>1, <2>2 DEF Pending
  <2>. QED
    BY <1>3, <2>1, <2>2
<1>4. ASSUME NEW b \in Backends, Live(b)', ~backend'[b].hooked
      PROVE  [op |-> "list", b |-> b] \in Elems(stack)'
  <2>1. CASE [op |-> "list", b |-> b] \in F
    BY <2>1
  <2>2. CASE /\ Live(b) /\ ~backend[b].hooked
             /\ base # stack => Head(stack) # [op |-> "list", b |-> b]
    <3>1. [op |-> "list", b |-> b] \in Elems(stack)
      BY <2>2 DEF Pending
    <3>. QED
      BY <1>1, <2>2, <3>1
  <2>. QED
    BY <1>4, <2>1, <2>2
<1>5. \A d, f : HoldsDevice(f, d)' <=> HoldsDevice(f, d)
  BY DEF HoldsDevice
<1>6. \A b, f : HoldsBackend(f, b)' <=> HoldsBackend(f, b)
  BY DEF HoldsBackend
<1>. QED
  BY <1>2, <1>3, <1>4 DEF Pending, HoldsDevice, HoldsBackend
-----------------------------------------------------------------------------
(***************************************************************************)
(* The steps.                                                              *)
(***************************************************************************)
Lasting == Links /\ Fields /\ Lists /\ Registry /\ Honest

LEMMA InitInv == Init => IInv
<1>. SUFFICES ASSUME Init PROVE IInv
  OBVIOUS
<1>1. /\ \A b \in Backends : backend[b].st = "unused" /\ backend[b].owner = None
      /\ \A d \in Objects : device[d].st = "unused" /\ device[d].be = None
                            /\ ~device[d].hooked /\ ~device[d].connected
      /\ \A id \in Ids : identified[id] = None /\ virt[id] = None
      /\ \A p \in Ports : out[p] = None
      /\ tcpIn = {} /\ stack = <<>>
  BY DEF Init
<1>2. TypeOK
  <2>1. backend \in [Backends -> BackendRecord]
    BY DEF Init, BackendRecord
  <2>2. device \in [Objects -> DeviceRecord]
    BY DEF Init, DeviceRecord
  <2>3. identified \in [Ids -> Objects \cup {None}] /\ virt \in [Ids -> Backends \cup {None}]
    BY DEF Init
  <2>4. out \in [Ports -> Backends \cup {None}] /\ tcpIn \in SUBSET Backends
    BY DEF Init
  <2>5. stack \in Seq(Frame)
    BY DEF Init
  <2>. QED
    BY <2>1, <2>2, <2>3, <2>4, <2>5 DEF TypeOK
<1>3. Elems(stack) = {} /\ Len(stack) = 0
  BY <1>1 DEF Elems
<1>4. Stack
  BY <1>3 DEF Stack, Apart
<1>5. Links /\ Fields
  BY <1>1, Names DEF Links, Fields, Live
<1>6. Lists /\ Registry
  BY <1>1, Names DEF Lists, Registry, OneDevicePerId
<1>7. Pending /\ Honest
  BY <1>1, Names DEF Pending, Honest, LinkIsOfItsDevice, Fresh, Unowned, Live
<1>8. Destroying
  BY <1>1 DEF Destroying, Top
<1>. QED
  BY <1>2, <1>4, <1>5, <1>6, <1>7, <1>8 DEF IInv

LEMMA LastingKept ==
  ASSUME Lasting, UNCHANGED <<backend, device, identified, out, tcpIn, virt>>
  PROVE  Lasting'
<1>1. Links' /\ Fields'
  BY DEF Lasting, Links, Fields, Live
<1>2. Lists' /\ Registry'
  BY DEF Lasting, Lists, Listed, Live, Registry, OneDevicePerId, Known
<1>3. Honest'
  BY DEF Lasting, Honest, Open, LinkIsOfItsDevice, Live
<1>. QED
  BY <1>1, <1>2, <1>3 DEF Lasting

(* A function returns, or goes on to its next statement. *)
LEMMA MoveOn ==
  ASSUME IInv, NEW base, Under(base), NEW fs \in Seq(Frame), stack' = fs \o base,
         UNCHANGED <<backend, device, identified, out, tcpIn, virt>>,
         Apart(fs),
         \A f \in Elems(fs), g \in Elems(base) : Free(f, g),
         \A i \in 2..Len(fs) : Deep(fs[i]),
         \A f \in Elems(fs) : Fits(f),
         fs # <<>> => fs[1].op # "destroy",
         base # stack =>
           /\ \A d \in Objects : HoldsDevice(Head(stack), d) =>
                \E f \in Elems(fs) : HoldsDevice(f, d)
           /\ \A b \in Backends : ~HoldsBackend(Head(stack), b)
           /\ \A b \in Backends : Head(stack) # [op |-> "list", b |-> b]
  PROVE  IInv'
<1>1. /\ base \in Seq(Frame) /\ Apart(base) /\ \A i \in 1..Len(base) : Deep(base[i])
      /\ \A f \in Elems(base) : Fits(f)
  BY UnderIs DEF IInv
<1>2. \A f : Fits(f) => Fits(f)'
  BY DEF Fits, Unowned, Live, Known, Fresh
<1>3. /\ Stack' /\ stack' \in Seq(Frame)
      /\ Elems(stack)' = Elems(fs) \cup Elems(base)
      /\ fs # <<>> => stack' # <<>> /\ Head(stack') = fs[1]
      /\ fs = <<>> => ~Top("destroy")'
  BY <1>1, <1>2, StackStep
<1>4. TypeOK'
  BY <1>3 DEF IInv, TypeOK
<1>5. Pending'
  <2>1. /\ \A d \in Objects : Fresh(d)' => Fresh(d)
        /\ \A b \in Backends : Unowned(b)' => Unowned(b)
        /\ \A b \in Backends : Live(b)' /\ ~backend'[b].hooked => Live(b) /\ ~backend[b].hooked
    BY DEF Fresh, Unowned, Live
  <2>. QED
    BY <1>3, <2>1, PendingStep DEF IInv
<1>6. Destroying'
  BY <1>3 DEF Destroying, Top
<1>7. Lasting'
  BY LastingKept DEF IInv, Lasting
<1>. QED
  BY <1>3, <1>4, <1>5, <1>6, <1>7 DEF IInv, Lasting

LEMMA CheckIs ==
  ASSUME NEW ports \in SUBSET Ports
  PROVE  /\ Check(ports) \in Seq(Frame) /\ Apart(Check(ports))
         /\ \A i \in 1..Len(Check(ports)) : Deep(Check(ports)[i])
         /\ \A f \in Elems(Check(ports)) : f.op = "check"
         /\ Check(ports) # <<>> => Check(ports)[1].op = "check"
<1> DEFINE x == [op |-> "check", ports |-> ports]
<1>1. x \in Frame
  BY FrameMade
<1>2. x.op = "check"
  OBVIOUS
<1>. HIDE DEF x
<1>3. Check(ports) = <<>> \/ Check(ports) = <<x>>
  BY DEF Check, x
<1>4. CASE Check(ports) = <<>>
  BY <1>4, Nothing
<1>5. CASE Check(ports) = <<x>>
  <2>1. Deep(x)
    BY <1>2 DEF Deep
  <2>. QED
    BY <1>1, <1>2, <1>5, <2>1, One
<1>. QED
  BY <1>3, <1>4, <1>5

LEMMA FreeOps ==
  ASSUME NEW f, NEW g, f.op \in {"check", "list", "freed", "describe"}
  PROVE  Free(f, g) /\ Free(g, f) /\ \A d : ~HoldsDevice(f, d) /\ ~HoldsBackend(f, d)
BY DEF Free, HoldsDevice, HoldsBackend

LEMMA MoveOnInv ==
  ASSUME IInv,
         \/ Described \/ CheckDevicesFromConfig
         \/ Top("check") /\ (\E p \in Head(stack).ports :
              Continue(Check(Head(stack).ports \ {p})))
            /\ UNCHANGED <<backend, device, identified, out, tcpIn, virt>>
         \/ IdentifyEnds /\ Head(stack).res = None
  PROVE  IInv'
<1>0. TypeOK /\ Stack
  BY DEF IInv
<1>1. CASE Described
  <2>1. /\ stack # <<>> /\ Head(stack).op = "describe" /\ stack' = <<>> \o Tail(stack)
        /\ UNCHANGED <<backend, device, identified, out, tcpIn, virt>>
    BY <1>1 DEF Described, Top, Continue
  <2>2. Under(Tail(stack)) /\ Head(stack) \in Frame
    BY <1>0, <2>1, HeadIs
  <2>3. \A b \in Backends : Head(stack) # [op |-> "list", b |-> b]
    BY <2>1
  <2>4. /\ \A d \in Objects : ~HoldsDevice(Head(stack), d)
        /\ \A b \in Backends : ~HoldsBackend(Head(stack), b)
    BY <2>1 DEF HoldsDevice, HoldsBackend
  <2>. QED
    BY <2>1, <2>2, <2>3, <2>4, Nothing, MoveOn
<1>2. CASE CheckDevicesFromConfig
  <2>1. /\ Waiting /\ stack' = Check(Ports) \o stack
        /\ UNCHANGED <<backend, device, identified, out, tcpIn, virt>>
    BY <1>2 DEF CheckDevicesFromConfig, Handle
  <2>2. Under(stack)
    BY <2>1 DEF Under
  <2>3. \A f \in Elems(Check(Ports)) : f.op = "check"
    BY CheckIs
  <2>4. \A f \in Elems(Check(Ports)) : Fits(f)
    BY <2>3 DEF Fits
  <2>5. \A f \in Elems(Check(Ports)), g \in Elems(stack) : Free(f, g)
    BY <2>3, FreeOps
  <2>. QED
    BY <2>1, <2>2, <2>4, <2>5, CheckIs, MoveOn
<1>3. CASE /\ Top("check")
           /\ \E p \in Head(stack).ports : Continue(Check(Head(stack).ports \ {p}))
           /\ UNCHANGED <<backend, device, identified, out, tcpIn, virt>>
  <2>1. PICK p \in Head(stack).ports : Continue(Check(Head(stack).ports \ {p}))
    BY <1>3
  <2> DEFINE ports == Head(stack).ports \ {p}
  <2>2. stack # <<>> /\ Head(stack).op = "check"
    BY <1>3 DEF Top
  <2>3. Under(Tail(stack)) /\ Head(stack) \in Frame
    BY <1>0, <2>2, HeadIs
  <2>4. ports \in SUBSET Ports
    BY <2>2, <2>3, FrameIs
  <2>5. stack' = Check(ports) \o Tail(stack)
    BY <2>1 DEF Continue
  <2>. HIDE DEF ports
  <2>6. \A f \in Elems(Check(ports)) : f.op = "check"
    BY <2>4, CheckIs
  <2>7. \A f \in Elems(Check(ports)) : Fits(f)
    BY <2>6 DEF Fits
  <2>8. \A f \in Elems(Check(ports)), g \in Elems(Tail(stack)) : Free(f, g)
    BY <2>6, FreeOps
  <2>9. \A b \in Backends : Head(stack) # [op |-> "list", b |-> b]
    BY <2>2
  <2>10. /\ \A d \in Objects : ~HoldsDevice(Head(stack), d)
         /\ \A b \in Backends : ~HoldsBackend(Head(stack), b)
    BY <2>2 DEF HoldsDevice, HoldsBackend
  <2>11. /\ Check(ports) \in Seq(Frame) /\ Apart(Check(ports))
         /\ \A i \in 2..Len(Check(ports)) : Deep(Check(ports)[i])
         /\ Check(ports) # <<>> => Check(ports)[1].op # "destroy"
    BY <2>4, CheckIs
  <2>. QED
    BY <1>3, <2>3, <2>5, <2>7, <2>8, <2>9, <2>10, <2>11, MoveOn
<1>4. CASE IdentifyEnds /\ Head(stack).res = None
  <2> DEFINE h == Head(stack)
             x == [op |-> "delete", d |-> h.d]
  <2>1. /\ stack # <<>> /\ h.op = "identify" /\ stack' = <<x>> \o Tail(stack)
        /\ UNCHANGED <<backend, device, identified, out, tcpIn, virt>>
    BY <1>4 DEF IdentifyEnds, Top, Continue
  <2>2. /\ Under(Tail(stack)) /\ h \in Frame /\ Fits(h)
        /\ \A f \in Elems(Tail(stack)) : Free(f, h)
    BY <1>0, <2>1, HeadIs
  <2>3. h.d \in Objects /\ x \in Frame /\ x.op = "delete" /\ x.d = h.d
    BY <2>1, <2>2, FrameIs, FrameMade
  <2>4. Fits(x)
    BY <2>1, <2>2, <2>3 DEF Fits
  <2>5. /\ \A d : HoldsDevice(x, d) <=> HoldsDevice(h, d)
        /\ \A b : ~HoldsBackend(x, b) /\ ~HoldsBackend(h, b)
    BY <2>1, <2>3 DEF HoldsDevice, HoldsBackend
  <2>6. \A b \in Backends : h # [op |-> "list", b |-> b]
    BY <2>1
  <2>. HIDE DEF x, h
  <2>7. \A f \in {x}, g \in Elems(Tail(stack)) : Free(f, g)
    BY <2>2, <2>5 DEF Free
  <2>8. /\ <<x>> \in Seq(Frame) /\ Elems(<<x>>) = {x} /\ Apart(<<x>>)
        /\ <<x>>[1] = x /\ \A i \in 2..Len(<<x>>) : Deep(<<x>>[i])
    BY <2>3, One
  <2>. QED
    BY <2>1, <2>2, <2>3, <2>4, <2>5, <2>6, <2>7, <2>8, MoveOn DEF h
<1>. QED
  BY <1>1, <1>2, <1>3, <1>4

(* The lists are the same, and what they hold is still there. *)
LEMMA ListsKept ==
  ASSUME TypeOK, Lists, UNCHANGED <<out, tcpIn, virt>>,
         \A b \in Backends : Listed(b) =>
           /\ Listed(b)' /\ backend'[b].kind = backend[b].kind
           /\ backend'[b].key = backend[b].key
  PROVE  Lists'
<1>1. ASSUME NEW p \in Ports, out[p] # None
      PROVE  Listed(out[p])' /\ backend'[out[p]].kind = "tty" /\ backend'[out[p]].key = p
  BY <1>1 DEF TypeOK, Lists, Listed, Live
<1>2. ASSUME NEW b \in tcpIn PROVE Listed(b)'
  BY <1>2 DEF TypeOK, Lists
<1>3. ASSUME NEW id \in Ids, virt[id] # None
      PROVE  /\ Listed(virt[id])' /\ backend'[virt[id]].kind = "virtual"
             /\ backend'[virt[id]].key = id
  BY <1>3 DEF TypeOK, Lists, Listed, Live
<1>. QED
  BY <1>1, <1>2, <1>3 DEF Lists, Listed, Live

(* The registry is the same, and its devices are. *)
LEMMA RegistryKept ==
  ASSUME TypeOK, Registry, UNCHANGED identified,
         \A d \in Objects : device'[d].hooked = device[d].hooked,
         \A d \in Objects : Known(d) => Known(d)' /\ device'[d].id = device[d].id,
         \A d \in Objects : device[d].hooked => device[d].st = "live",
         \A id \in Ids : device[id].st = "unused" => device'[id].st = "unused"
  PROVE  Registry'
<1>1. ASSUME NEW d \in Objects, device'[d].hooked
      PROVE  device'[d].id # None /\ identified'[device'[d].id] = d
  <2>1. Known(d) /\ device[d].hooked
    BY <1>1 DEF Known
  <2>2. device'[d].id = device[d].id
    BY <2>1
  <2>. QED
    BY <2>1, <2>2 DEF Registry, OneDevicePerId
<1>2. ASSUME NEW id \in Ids
      PROVE  /\ identified'[id] = None => device'[id].st = "unused"
             /\ identified'[id] # None => Known(identified[id])'
                                          /\ device'[identified'[id]].id = id
  <2>1. identified[id] # None => identified[id] \in Objects
    BY <1>2 DEF TypeOK
  <2>2. identified[id] # None => Known(identified[id]) /\ device[identified[id]].id = id
    BY <1>2 DEF Registry
  <2>3. identified[id] # None => Known(identified[id])' /\ device'[identified[id]].id = id
    BY <2>1, <2>2
  <2>. QED
    BY <1>2, <2>3 DEF Registry, Known
<1>. QED
  BY <1>1, <1>2 DEF Registry, OneDevicePerId, Known

LEMMA FieldsKept ==
  ASSUME Fields,
         \A b \in Backends : Live(b)' =>
           /\ Live(b) /\ backend'[b].kind = backend[b].kind
           /\ backend'[b].key = backend[b].key /\ backend'[b].id = backend[b].id
           /\ backend'[b].open => backend[b].open /\ backend'[b].said = backend[b].said
  PROVE  Fields'
BY DEF Fields, Live

Typed ==
  /\ backend \in [Backends -> BackendRecord]
  /\ device \in [Objects -> DeviceRecord]
  /\ identified \in [Ids -> Objects \cup {None}]
  /\ out \in [Ports -> Backends \cup {None}]
  /\ tcpIn \in SUBSET Backends
  /\ virt \in [Ids -> Backends \cup {None}]

LEMMA TopTwo ==
  ASSUME NEW fs \in Seq(Frame), NEW base, TypeOK, Stack, Under(base),
         stack' = fs \o base, Len(fs) > 1
  PROVE  Len(stack') > 1 /\ stack'[2] = fs[2]
<1>1. base \in Seq(Frame)
  BY UnderIs
<1>2. /\ Len(stack') = Len(fs) + Len(base) /\ Len(fs) \in Nat /\ Len(base) \in Nat
      /\ \A i \in 1..Len(fs) : stack'[i] = fs[i]
  BY <1>1, ConcatProperties, LenProperties
<1>. QED
  BY <1>2

(* What is not in the hands of the function that ends. *)
StillD(base, d) == Fresh(d) /\ (base # stack => ~HoldsDevice(Head(stack), d))
StillB(base, b) == Unowned(b) /\ (base # stack => ~HoldsBackend(Head(stack), b))
StillL(base, b) ==
  /\ Live(b) /\ ~backend[b].hooked
  /\ base # stack => Head(stack) # [op |-> "list", b |-> b]

(* A step of a function, or an event: it leaves the frames fs on base. *)
LEMMA StepInv ==
  ASSUME IInv, Typed', NEW base, Under(base),
         NEW fs \in Seq(Frame), stack' = fs \o base,
         Apart(fs),
         \A f \in Elems(fs), g \in Elems(base) : Free(f, g),
         \A i \in 2..Len(fs) : Deep(fs[i]),
         \A f \in Elems(fs) : Fits(f)',
         \A f \in Elems(base) : Fits(f)',
         \A d \in Objects : Fresh(d)' =>
           StillD(base, d) \/ \E f \in Elems(fs) : HoldsDevice(f, d),
         \A b \in Backends : Unowned(b)' =>
           StillB(base, b) \/ \E f \in Elems(fs) : HoldsBackend(f, b),
         \A b \in Backends : Live(b)' /\ ~backend'[b].hooked =>
           StillL(base, b) \/ [op |-> "list", b |-> b] \in Elems(fs),
         fs # <<>> /\ fs[1].op = "destroy" => Reason(fs[1].b)',
         Lasting'
  PROVE  IInv'
<1>1. /\ base \in Seq(Frame) /\ Apart(base) /\ \A i \in 1..Len(base) : Deep(base[i])
  BY UnderIs DEF IInv
<1>2. /\ Stack' /\ stack' \in Seq(Frame)
      /\ Elems(stack)' = Elems(fs) \cup Elems(base)
      /\ fs # <<>> => stack' # <<>> /\ Head(stack') = fs[1]
      /\ fs = <<>> => ~Top("destroy")'
  BY <1>1, StackStep
<1>3. TypeOK'
  BY <1>2 DEF Typed, TypeOK
<1>4. Pending'
  BY <1>2, PendingStep DEF IInv, StillD, StillB, StillL
<1>5. Destroying'
  BY <1>2 DEF Destroying, Top
<1>. QED
  BY <1>2, <1>3, <1>4, <1>5 DEF IInv, Lasting

LEMMA StepNone ==
  ASSUME IInv, Typed', NEW base, Under(base), stack' = <<>> \o base,
         \A f \in Elems(base) : Fits(f)',
         \A d \in Objects : Fresh(d)' => StillD(base, d),
         \A b \in Backends : Unowned(b)' => StillB(base, b),
         \A b \in Backends : Live(b)' /\ ~backend'[b].hooked => StillL(base, b),
         Lasting'
  PROVE  IInv'
<1>1. PICK fs \in Seq(Frame) : fs = <<>>
  BY Nothing
<1>2. /\ Elems(fs) = {} /\ Apart(fs) /\ \A i \in 2..Len(fs) : Deep(fs[i])
      /\ stack' = fs \o base
  BY <1>1, Nothing
<1>. QED
  BY <1>1, <1>2, StepInv

LEMMA StepOne ==
  ASSUME IInv, Typed', NEW base, Under(base), NEW x \in Frame, stack' = <<x>> \o base,
         \A f \in Elems(base) : Free(x, f),
         Fits(x)',
         \A f \in Elems(base) : Fits(f)',
         \A d \in Objects : Fresh(d)' => HoldsDevice(x, d) \/ StillD(base, d),
         \A b \in Backends : Unowned(b)' => HoldsBackend(x, b) \/ StillB(base, b),
         \A b \in Backends : Live(b)' /\ ~backend'[b].hooked => StillL(base, b),
         x.op = "destroy" => Reason(x.b)',
         Lasting'
  PROVE  IInv'
<1>1. PICK fs \in Seq(Frame) : fs = <<x>>
  BY One
<1>2. /\ Elems(fs) = {x} /\ Apart(fs) /\ \A i \in 2..Len(fs) : Deep(fs[i])
      /\ stack' = fs \o base /\ fs[1] = x
  BY <1>1, One
<1>. QED
  BY <1>1, <1>2, StepInv

LEMMA StepTwo ==
  ASSUME IInv, Typed', NEW base, Under(base), NEW x \in Frame, NEW y \in Frame,
         stack' = <<x, y>> \o base,
         Free(x, y), Deep(y),
         \A f \in Elems(base) : Free(x, f) /\ Free(y, f),
         Fits(x)', Fits(y)',
         \A f \in Elems(base) : Fits(f)',
         \A d \in Objects : Fresh(d)' =>
           HoldsDevice(x, d) \/ HoldsDevice(y, d) \/ StillD(base, d),
         \A b \in Backends : Unowned(b)' =>
           HoldsBackend(x, b) \/ HoldsBackend(y, b) \/ StillB(base, b),
         \A b \in Backends : Live(b)' /\ ~backend'[b].hooked => StillL(base, b),
         x.op = "destroy" => Reason(x.b)' \/ Replaced(x.b, y)',
         Lasting'
  PROVE  IInv'
<1>1. PICK fs \in Seq(Frame) : fs = <<x, y>>
  BY Two
<1>2. /\ Elems(fs) = {x, y} /\ Apart(fs) /\ \A i \in 2..Len(fs) : Deep(fs[i])
      /\ stack' = fs \o base /\ fs[1] = x /\ fs[2] = y /\ Len(fs) > 1
  BY <1>1, Two
<1>3. Len(stack') > 1 /\ stack'[2] = y
  BY <1>1, <1>2, TopTwo DEF IInv
<1>4. x.op = "destroy" => Reason(x.b)'
  BY <1>3 DEF Reason
<1>. QED
  BY <1>1, <1>2, <1>4, StepInv

LEMMA StepThree ==
  ASSUME IInv, Typed', NEW base, Under(base),
         NEW x \in Frame, NEW y \in Frame, NEW z \in Frame,
         stack' = <<x, y, z>> \o base,
         Free(x, y), Free(x, z), Free(y, z), Deep(y), Deep(z),
         \A f \in Elems(base) : Free(x, f) /\ Free(y, f) /\ Free(z, f),
         Fits(x)', Fits(y)', Fits(z)',
         \A f \in Elems(base) : Fits(f)',
         \A d \in Objects : Fresh(d)' =>
           HoldsDevice(x, d) \/ HoldsDevice(y, d) \/ HoldsDevice(z, d) \/ StillD(base, d),
         \A b \in Backends : Unowned(b)' =>
           HoldsBackend(x, b) \/ HoldsBackend(y, b) \/ HoldsBackend(z, b) \/ StillB(base, b),
         \A b \in Backends : Live(b)' /\ ~backend'[b].hooked => StillL(base, b),
         x.op = "destroy" => Reason(x.b)' \/ Replaced(x.b, y)',
         Lasting'
  PROVE  IInv'
<1>1. PICK fs \in Seq(Frame) : fs = <<x, y, z>>
  BY Three
<1>2. /\ Elems(fs) = {x, y, z} /\ Apart(fs) /\ \A i \in 2..Len(fs) : Deep(fs[i])
      /\ stack' = fs \o base /\ fs[1] = x /\ fs[2] = y /\ Len(fs) > 1
  BY <1>1, Three
<1>3. Len(stack') > 1 /\ stack'[2] = y
  BY <1>1, <1>2, TopTwo DEF IInv
<1>4. x.op = "destroy" => Reason(x.b)'
  BY <1>3 DEF Reason
<1>. QED
  BY <1>1, <1>2, <1>4, StepInv

LEMMA ThreeIs ==
  ASSUME NEW x \in Frame, NEW y \in Frame, NEW z \in Frame
  PROVE  <<x, y>> \o <<z>> = <<x, y, z>>
<1> DEFINE s == <<x, y>>
           t == <<z>>
<1>1. s \in Seq(Frame) /\ Len(s) = 2 /\ s[1] = x /\ s[2] = y
  OBVIOUS
<1>2. t \in Seq(Frame) /\ Len(t) = 1 /\ t[1] = z
  OBVIOUS
<1>3. <<x, y, z>> \in Seq(Frame) /\ Len(<<x, y, z>>) = 3
  OBVIOUS
<1>. HIDE DEF s, t
<1>4. s \o t \in Seq(Frame) /\ Len(s \o t) = 3
  <2>1. s \o t \in Seq(Frame) /\ Len(s \o t) = Len(s) + Len(t)
    BY <1>1, <1>2, ConcatProperties
  <2>. QED
    BY <1>1, <1>2, <2>1
<1>5. (s \o t)[1] = x /\ (s \o t)[2] = y /\ (s \o t)[3] = z
  BY <1>1, <1>2, ConcatProperties
<1>6. \A i \in 1..Len(s \o t) : (s \o t)[i] = <<x, y, z>>[i]
  BY <1>4, <1>5
<1>7. s \o t = <<x, y, z>>
  BY <1>3, <1>4, <1>6, SeqEqual
<1>. QED
  BY <1>7 DEF s, t

(* A backend that waits below is alive. *)
LEMMA HeldIsLive ==
  ASSUME TypeOK, Stack, NEW f \in Elems(stack), NEW b \in Backends, HoldsBackend(f, b)
  PROVE  Live(b)
<1>1. f \in Frame /\ Fits(f)
  BY ElementOfSeq DEF TypeOK, Stack, Elems
<1>2. b # None
  BY Names
<1>3. f.op \in {"add", "assign", "destroy"} /\ f.b = b
  BY DEF HoldsBackend
<1>. QED
  BY <1>1, <1>2, <1>3 DEF Fits, Unowned

LEMMA CreateInv ==
  ASSUME IInv, Unused # {},
         NEW kind \in {"virtual", "tcp", "tty"}, NEW key \in Ports \cup Ids \cup {None}, NEW id \in Ids,
         NEW open \in BOOLEAN,
         kind = "tty" => key \in Ports, kind = "virtual" => key \in Ids,
         Create(kind, key, id, open),
         UNCHANGED <<device, identified, out, tcpIn, virt>>,
         NEW base, Under(base), base # stack => Head(stack).op = "check",
         NEW fs, stack' = fs \o base,
         \/ fs = AddAndList(NewBackend)
         \/ \E s \in SUBSET Ports :
              fs = AddAndList(NewBackend) \o <<[op |-> "check", ports |-> s]>>
  PROVE  IInv'
<1>0. TypeOK /\ Stack /\ Links
  BY DEF IInv
<1>1. PICK nb \in Backends : nb = NewBackend /\ backend[nb].st = "unused"
  BY DEF NewBackend, Unused
<1> DEFINE r == [st |-> "live", kind |-> kind, key |-> key, id |-> id,
                 open |-> open, said |-> FALSE, owner |-> None, hooked |-> FALSE]
           x == [op |-> "add", b |-> nb]
           y == [op |-> "list", b |-> nb]
<1>2. device[nb].st = "unused"
  BY <1>0, <1>1 DEF Links
<1>3. r \in BackendRecord
  BY Names DEF BackendRecord
<1>4. backend' = [backend EXCEPT ![nb] = r]
  BY <1>1 DEF Create
<1>5. backend \in [Backends -> BackendRecord]
  BY <1>0 DEF TypeOK
<1>6. /\ backend' \in [Backends -> BackendRecord]
      /\ backend'[nb] = r
      /\ \A b \in Backends : b # nb => backend'[b] = backend[b]
  BY <1>1, <1>3, <1>4, <1>5
<1>7. /\ r.st = "live" /\ r.kind = kind /\ r.key = key /\ r.id = id /\ r.open = open
      /\ r.said = FALSE /\ r.owner = None /\ r.hooked = FALSE
  OBVIOUS
<1>8. /\ x \in Frame /\ y \in Frame
      /\ x.op = "add" /\ x.b = nb /\ y.op = "list" /\ y.b = nb
  BY <1>1, FrameMade
<1>9. \/ fs = <<x, y>>
      \/ \E z \in Frame : z.op = "check" /\ fs = <<x, y, z>>
  <2>1. CASE fs = AddAndList(NewBackend)
    BY <1>1, <2>1 DEF AddAndList
  <2>2. ASSUME NEW s \in SUBSET Ports,
               fs = AddAndList(NewBackend) \o <<[op |-> "check", ports |-> s]>>
        PROVE  \E z \in Frame : z.op = "check" /\ fs = <<x, y, z>>
    <3> DEFINE z == [op |-> "check", ports |-> s]
    <3>1. z \in Frame /\ z.op = "check"
      BY FrameMade
    <3>2. fs = <<x, y>> \o <<z>>
      BY <1>1, <2>2 DEF AddAndList
    <3>. HIDE DEF x, y, z
    <3>3. <<x, y>> \o <<z>> = <<x, y, z>>
      BY <1>8, <3>1, ThreeIs
    <3>. QED
      BY <3>1, <3>2, <3>3
  <2>. QED
    BY <2>1, <2>2
<1>10. y = [op |-> "list", b |-> nb]
  OBVIOUS
<1>. HIDE DEF r, x, y
<1>11. \A b \in Backends : backend[b].st # "unused" => b # nb /\ backend'[b] = backend[b]
  BY <1>1, <1>6
<1>12. \A b \in Backends : Live(b) => b # nb /\ backend'[b] = backend[b]
  BY <1>11 DEF Live
<1>13. \A b \in Backends : backend'[b].st # "unused" =>
         b = nb \/ backend'[b] = backend[b]
  BY <1>6
<1>14. Typed'
  BY <1>0, <1>6 DEF TypeOK, Typed
<1>15. \A f \in Elems(base) : Fits(f)'
  <2> DEFINE D == {}
             B == {}
  <2>0. D \in SUBSET Objects /\ B \in SUBSET Backends
    OBVIOUS
  <2>1. /\ \A d \in D : Mine(base, d)
        /\ \A b \in B : MineToo(base, b)
        /\ \A d \in Objects \ D : device[d].st = "live" =>
          /\ device'[d].st = "live" /\ device'[d].hooked = device[d].hooked
          /\ device'[d].id = device[d].id
          /\ ~device[d].hooked => device'[d].be = device[d].be
    OBVIOUS
  <2>2. \A b \in Backends \ B : Live(b) =>
          backend'[b].st = "live" /\ backend'[b].owner = backend[b].owner
    BY <1>12 DEF Live
  <2>3. \A b \in Backends : Live(b) => backend'[b].id = backend[b].id
    BY <1>12
  <2>4. \A b \in Backends :
          backend[b].st \in {"dying", "dead"} => backend'[b].st \in {"dying", "dead"}
    BY <1>11
  <2>. QED
    <3>. HIDE DEF D, B
    <3>. QED
      BY <1>0, <2>0, <2>1, <2>2, <2>3, <2>4, BaseFits
<1>16. \A f \in Elems(base) : Free(x, f) /\ Free(y, f)
  <2>1. ASSUME NEW f \in Elems(base), NEW b \in Backends, HoldsBackend(f, b) PROVE b # nb
    BY <1>0, <1>12, <2>1, UnderIs, HeldIsLive
  <2>2. /\ \A d : ~HoldsDevice(x, d)
        /\ \A b : HoldsBackend(x, b) => b = nb
    BY <1>8 DEF HoldsDevice, HoldsBackend
  <2>. QED
    BY <1>8, <2>1, <2>2, FreeOps DEF Free
<1>17. Free(x, y) /\ Deep(y)
  BY <1>8, FreeOps DEF Deep
<1>18. /\ fs \in Seq(Frame) /\ Apart(fs) /\ \A i \in 2..Len(fs) : Deep(fs[i])
       /\ fs[1] = x /\ x \in Elems(fs) /\ y \in Elems(fs)
       /\ \A f \in Elems(fs) : f = x \/ f = y \/ f.op = "check"
  <2>1. CASE fs = <<x, y>>
    BY <1>8, <1>17, <2>1, Two
  <2>2. ASSUME NEW z \in Frame, z.op = "check", fs = <<x, y, z>>
        PROVE  /\ fs \in Seq(Frame) /\ Apart(fs) /\ \A i \in 2..Len(fs) : Deep(fs[i])
               /\ fs[1] = x /\ x \in Elems(fs) /\ y \in Elems(fs)
               /\ \A f \in Elems(fs) : f = x \/ f = y \/ f.op = "check"
    <3>1. Free(x, z) /\ Free(y, z) /\ Deep(z)
      BY <2>2, FreeOps DEF Deep
    <3>. QED
      BY <1>8, <1>17, <2>2, <3>1, Three
  <2>. QED
    BY <1>9, <2>1, <2>2
<1>19. \A f \in Elems(fs), g \in Elems(base) : Free(f, g)
  BY <1>16, <1>18, FreeOps
<1>20. \A f \in Elems(fs) : Fits(f)'
  <2>1. Fits(x)'
    BY <1>2, <1>6, <1>7, <1>8 DEF Fits, Unowned, Live
  <2>. QED
    BY <1>8, <1>18, <2>1 DEF Fits
<1>21. \A d \in Objects : Fresh(d)' => Fresh(d) /\ (base # stack => ~HoldsDevice(Head(stack), d))
  BY DEF Fresh, HoldsDevice
<1>22. ASSUME NEW b \in Backends, Unowned(b)'
       PROVE  \/ \E f \in Elems(fs) : HoldsBackend(f, b)
              \/ Unowned(b) /\ (base # stack => ~HoldsBackend(Head(stack), b))
  <2>1. CASE b = nb
    BY <1>8, <1>18, <2>1 DEF HoldsBackend
  <2>2. CASE b # nb
    BY <1>6, <1>22, <2>2 DEF Unowned, Live, HoldsBackend
  <2>. QED
    BY <2>1, <2>2
<1>23. ASSUME NEW b \in Backends, Live(b)', ~backend'[b].hooked
       PROVE  \/ [op |-> "list", b |-> b] \in Elems(fs)
              \/ /\ Live(b) /\ ~backend[b].hooked
                 /\ base # stack => Head(stack) # [op |-> "list", b |-> b]
  <2>1. CASE b = nb
    BY <1>10, <1>18, <2>1
  <2>2. CASE b # nb
    BY <1>6, <1>23, <2>2 DEF Live
  <2>. QED
    BY <2>1, <2>2
<1>24. Lasting'
  <2>1. Links'
    <3>1. \A d \in Objects : device[d].be \in Backends \cup {None}
      BY <1>0 DEF TypeOK, DeviceRecord
    <3>2. \A d \in Objects : device[d].be # None =>
            Live(device[d].be) /\ backend'[device[d].be] = backend[device[d].be]
      BY <1>0, <1>12, <3>1 DEF Links
    <3>3. \A b \in Backends : Live(b)' /\ backend'[b].owner # None =>
            backend'[b] = backend[b]
      BY <1>6, <1>7
    <3>. QED
      BY <1>0, <1>6, <1>7, <3>2, <3>3 DEF Links, Live
  <2>2. Fields'
    BY <1>6, <1>7 DEF IInv, Fields, Live
  <2>3. Lists'
    BY <1>0, <1>12, ListsKept DEF IInv, Listed, Live
  <2>4. Registry'
    BY <1>0, RegistryKept DEF IInv, Links, Known
  <2>5. Honest'
    <3>1. \A d \in Objects : device[d].be # None =>
            device[d].be \in Backends /\ Live(device[d].be)
      BY <1>0 DEF TypeOK, DeviceRecord, Links
    <3>2. LinkIsOfItsDevice'
      BY <1>6, <1>7 DEF IInv, Honest, LinkIsOfItsDevice, Live
    <3>. QED
      BY <1>12, <3>1, <3>2 DEF IInv, Honest, Open
  <2>. QED
    BY <2>1, <2>2, <2>3, <2>4, <2>5 DEF Lasting
<1>25. fs[1].op # "destroy"
  BY <1>8, <1>18
<1>. QED
  BY <1>14, <1>15, <1>18, <1>19, <1>20, <1>21, <1>22, <1>23, <1>24, <1>25, StepInv
    DEF StillD, StillB, StillL

LEMMA TailIsOther ==
  ASSUME NEW s \in Seq(Frame), s # <<>>
  PROVE  Tail(s) # s
<1>. SUFFICES ASSUME Tail(s) = s PROVE FALSE
  OBVIOUS
<1>1. Len(Tail(s)) = Len(s) - 1 /\ Len(s) \in Nat
  BY HeadTailProperties, LenProperties
<1>2. Len(s) = Len(s) - 1
  BY <1>1
<1>. QED
  BY <1>1, <1>2

LEMMA HeldIsFresh ==
  ASSUME TypeOK, Stack, NEW f \in Elems(stack), NEW d \in Objects, HoldsDevice(f, d)
  PROVE  Fresh(d)
<1>1. f \in Frame /\ Fits(f)
  BY ElementOfSeq DEF TypeOK, Stack, Elems
<1>2. f.op \in {"identify", "identified", "delete"} /\ f.d = d
  BY DEF HoldsDevice
<1>. QED
  BY <1>1, <1>2 DEF Fits

LEMMA OwnerSet ==
  ASSUME backend \in [Backends -> BackendRecord], NEW b \in Backends,
         NEW o \in Objects \cup {None}, backend' = [backend EXCEPT ![b].owner = o]
  PROVE  /\ backend' \in [Backends -> BackendRecord]
         /\ \A c \in Backends : c # b => backend'[c] = backend[c]
         /\ backend'[b].owner = o
         /\ \A c \in Backends :
              /\ backend'[c].st = backend[c].st /\ backend'[c].kind = backend[c].kind
              /\ backend'[c].key = backend[c].key /\ backend'[c].id = backend[c].id
              /\ backend'[c].open = backend[c].open /\ backend'[c].said = backend[c].said
              /\ backend'[c].hooked = backend[c].hooked
BY DEF BackendRecord

(* What a device has, and what a backend belongs to, is of its type. *)
LEMMA LinkTypes ==
  ASSUME TypeOK, Links
  PROVE  /\ \A d \in Objects : device[d].be \in Backends \cup {None}
         /\ \A d \in Objects : device[d].be # None =>
              Live(device[d].be) /\ backend[device[d].be].owner = d
         /\ \A b \in Backends : backend[b].owner \in Objects \cup {None}
         /\ \A d \in Objects : device[d].hooked \in BOOLEAN /\ device[d].connected \in BOOLEAN
         /\ \A d \in Objects : device[d].hooked => device[d].st = "live"
BY DEF TypeOK, DeviceRecord, BackendRecord, Links

LEMMA AddDeviceInv == IInv /\ AddDevice => IInv'
<1>. SUFFICES ASSUME IInv, AddDevice PROVE IInv'
  OBVIOUS
<1>0. TypeOK /\ Stack /\ Links
  BY DEF IInv
<1>1. stack # <<>> /\ Head(stack).op = "add"
  BY DEF AddDevice, Top
<1>2. /\ Head(stack) \in Frame /\ Head(stack) \in Elems(stack) /\ Fits(Head(stack))
      /\ Under(Tail(stack))
  BY <1>0, <1>1, HeadIs
<1>3. PICK b \in Backends : b = Head(stack).b
  BY <1>1, <1>2, FrameIs
<1>4. Unowned(b) /\ device[b].st = "unused" /\ b \in Objects /\ b # None
  BY <1>1, <1>2, <1>3, Names DEF Fits
<1>5. PICK base : base = Tail(stack)
  OBVIOUS
<1>6. PICK x \in Frame :
        /\ stack' = <<x>> \o base
        /\ x.d = b
        /\ x.op = "delete" \/ (x.op = "identify" /\ x.res = None)
  <2>1. stack' = IF backend[b].open
                  THEN <<[op |-> "identify", d |-> b, res |-> None]>> \o base
                  ELSE <<[op |-> "delete", d |-> b]>> \o base
    BY <1>3, <1>5 DEF AddDevice, Continue
  <2>2. /\ [op |-> "identify", d |-> b, res |-> None] \in Frame
        /\ [op |-> "delete", d |-> b] \in Frame
    BY <1>4, FrameMade
  <2>. QED
    BY <2>1, <2>2
<1>7. /\ backend' = [backend EXCEPT ![b].owner = b]
      /\ device' = [device EXCEPT ![b] = [st |-> "live", id |-> None, be |-> b,
                      connected |-> backend[b].open, hooked |-> FALSE]]
      /\ UNCHANGED <<identified, out, tcpIn, virt>>
  BY <1>3 DEF AddDevice
<1>8. backend \in [Backends -> BackendRecord] /\ device \in [Objects -> DeviceRecord]
  BY <1>0 DEF TypeOK
<1>9. /\ backend' \in [Backends -> BackendRecord]
      /\ \A c \in Backends : c # b => backend'[c] = backend[c]
      /\ backend'[b].owner = b
      /\ \A c \in Backends :
           /\ backend'[c].st = backend[c].st /\ backend'[c].kind = backend[c].kind
           /\ backend'[c].key = backend[c].key /\ backend'[c].id = backend[c].id
           /\ backend'[c].open = backend[c].open /\ backend'[c].said = backend[c].said
           /\ backend'[c].hooked = backend[c].hooked
  BY <1>4, <1>7, <1>8, OwnerSet
<1>10. /\ device' \in [Objects -> DeviceRecord]
       /\ \A d \in Objects : d # b => device'[d] = device[d]
       /\ device'[b].st = "live" /\ device'[b].id = None /\ device'[b].be = b
       /\ device'[b].connected = backend[b].open /\ device'[b].hooked = FALSE
  BY <1>4, <1>7, <1>8 DEF DeviceRecord, BackendRecord
<1>11. \A d \in Objects : device[d].st = "live" => d # b /\ device'[d] = device[d]
  BY <1>4, <1>10
<1>12. ~device[b].hooked
  BY <1>0, <1>4 DEF Links
<1>13. Typed'
  BY <1>0, <1>7, <1>9, <1>10 DEF TypeOK, Typed
<1>14. base # stack /\ Under(base)
  BY <1>0, <1>1, <1>2, <1>5, TailIsOther DEF TypeOK
<1>15. \A f \in Elems(base) : Fits(f)'
  <2>1. \A d \in {b} : Mine(base, d)
    BY <1>4 DEF Mine
  <2>2. \A c \in {b} : MineToo(base, c)
    BY <1>1, <1>3, <1>5 DEF MineToo, HoldsBackend
  <2>3. \A d \in Objects \ {b} : device[d].st = "live" =>
          /\ device'[d].st = "live" /\ device'[d].hooked = device[d].hooked
          /\ device'[d].id = device[d].id
          /\ ~device[d].hooked => device'[d].be = device[d].be
    BY <1>10
  <2>4. \A c \in Backends \ {b} : Live(c) =>
          backend'[c].st = "live" /\ backend'[c].owner = backend[c].owner
    BY <1>9 DEF Live
  <2>5. /\ {b} \in SUBSET Objects /\ {b} \in SUBSET Backends
        /\ \A c \in Backends : Live(c) => backend'[c].id = backend[c].id
        /\ \A c \in Backends :
             backend[c].st \in {"dying", "dead"} => backend'[c].st \in {"dying", "dead"}
    BY <1>4, <1>9
  <2>. QED
    BY <1>0, <1>14, <2>1, <2>2, <2>3, <2>4, <2>5, BaseFits
<1>16. \A f \in Elems(base) : Free(x, f)
  <2>1. \A f \in Elems(base) : ~HoldsDevice(f, b)
    BY <1>0, <1>4, <1>14, UnderIs, HeldIsFresh DEF Fresh
  <2>. QED
    BY <1>6, <2>1 DEF Free, HoldsDevice, HoldsBackend
<1>17. Fits(x)'
  BY <1>4, <1>6, <1>10 DEF Fits, Fresh
<1>18. ASSUME NEW d \in Objects, Fresh(d)'
       PROVE  HoldsDevice(x, d) \/ (Fresh(d) /\ ~HoldsDevice(Head(stack), d))
  BY <1>1, <1>6, <1>10, <1>18 DEF Fresh, HoldsDevice
<1>19. ASSUME NEW c \in Backends, Unowned(c)'
       PROVE  Unowned(c) /\ ~HoldsBackend(Head(stack), c)
  BY <1>3, <1>4, <1>9, <1>19 DEF Unowned, Live, HoldsBackend
<1>20. ASSUME NEW c \in Backends, Live(c)', ~backend'[c].hooked
       PROVE  /\ Live(c) /\ ~backend[c].hooked
              /\ Head(stack) # [op |-> "list", b |-> c]
  BY <1>1, <1>9, <1>20 DEF Live
<1>21. Lasting'
  <2>1. Links'
    <3>1. \A d \in Objects : d # b /\ device[d].be # None =>
            /\ device[d].be # b /\ Live(device[d].be)
            /\ backend'[device[d].be] = backend[device[d].be]
      BY <1>0, <1>4, <1>9, LinkTypes, Names DEF Unowned
    <3>2. ASSUME NEW d \in Objects
          PROVE  /\ device'[d].be # None => /\ device'[d].st = "live" /\ backend'[device'[d].be].st = "live"
                                            /\ backend'[device'[d].be].owner = d
                 /\ device'[d].hooked => device'[d].st = "live"
      BY <1>0, <1>4, <1>9, <1>10, <3>1 DEF Links, Live, Unowned
    <3>3. ASSUME NEW c \in Backends, Live(c)', backend'[c].owner # None
          PROVE  /\ device'[backend'[c].owner].st = "live"
                 /\ device'[backend'[c].owner].hooked \/ device'[backend'[c].owner].be = c
      <4>1. CASE c = b
        BY <1>9, <1>10, <4>1
      <4>2. CASE c # b
        BY <1>0, <1>9, <1>11, <3>3, <4>2, LinkTypes DEF Links, Live
      <4>. QED
        BY <4>1, <4>2
    <3>4. ASSUME NEW c \in Backends, backend'[c].st = "unused" PROVE device'[c].st = "unused"
      BY <1>0, <1>4, <1>9, <1>10, <3>4, Names DEF Links, Unowned, Live
    <3>. QED
      BY <3>2, <3>3, <3>4 DEF Links, Live
  <2>2. Fields'
    BY <1>9, FieldsKept DEF IInv, Live
  <2>3. Lists'
    BY <1>0, <1>7, <1>9, ListsKept DEF IInv, Listed, Live
  <2>4. Registry'
    <3>1. \A d \in Objects : device'[d].hooked = device[d].hooked
      BY <1>0, <1>10, <1>12, LinkTypes
    <3>2. \A d \in Objects : Known(d) => Known(d)' /\ device'[d].id = device[d].id
      BY <1>11 DEF Known
    <3>3. \A id \in Ids : device[id].st = "unused" => device'[id].st = "unused"
      BY <1>10, Names
    <3>. QED
      BY <1>0, <1>7, <3>1, <3>2, <3>3, RegistryKept, LinkTypes DEF IInv
  <2>5. Honest'
    <3>1. \A c \in Backends : Open(c)' <=> Open(c)
      BY <1>9 DEF Open
    <3>2. \A d \in Objects : device'[d].connected /\ device'[d].be # None => Open(device[d].be)'
      BY <1>4, <1>9, <1>10, <3>1, <1>0, LinkTypes DEF IInv, Honest, Open
    <3>3. \A d \in Objects : device'[d].hooked /\ device'[d].connected => device'[d].be # None
      BY <1>10 DEF IInv, Honest
    <3>4. ASSUME NEW c \in Backends, Live(c)', backend'[c].owner # None,
                 device'[backend'[c].owner].hooked
          PROVE  backend'[c].id = device'[backend'[c].owner].id
      <4>1. c # b
        BY <1>9, <1>10, <3>4
      <4>2. /\ backend'[c] = backend[c] /\ Live(c) /\ backend[c].owner # b
            /\ device'[backend[c].owner] = device[backend[c].owner]
        BY <1>0, <1>9, <1>10, <1>11, <3>4, <4>1, LinkTypes DEF Live, Links
      <4>. QED
        BY <3>4, <4>2 DEF IInv, Honest, LinkIsOfItsDevice
    <3>5. LinkIsOfItsDevice'
      BY <3>4 DEF LinkIsOfItsDevice, Live
    <3>. QED
      BY <3>2, <3>3, <3>5 DEF Honest, Open
  <2>. QED
    BY <2>1, <2>2, <2>3, <2>4, <2>5 DEF Lasting
<1>. QED
  BY <1>6, <1>13, <1>14, <1>15, <1>16, <1>17, <1>18, <1>19, <1>20, <1>21, StepOne
    DEF StillD, StillB, StillL

(* What holds the same as the innermost function does is its successor. *)
LEMMA SameHold ==
  ASSUME TypeOK, Stack, stack # <<>>, NEW x,
         \A d \in Objects : HoldsDevice(x, d) => HoldsDevice(Head(stack), d),
         \A b \in Backends : HoldsBackend(x, b) => HoldsBackend(Head(stack), b)
  PROVE  \A f \in Elems(Tail(stack)) : Free(x, f)
BY HeadIs DEF Free

LEMMA IdentifyInv == IInv /\ IdentifyEnds /\ Head(stack).res # None => IInv'
<1>. SUFFICES ASSUME IInv, IdentifyEnds, Head(stack).res # None PROVE IInv'
  OBVIOUS
<1>0. TypeOK /\ Stack /\ Links
  BY DEF IInv
<1>1. stack # <<>> /\ Head(stack).op = "identify"
  BY DEF IdentifyEnds, Top
<1>2. /\ Head(stack) \in Frame /\ Head(stack) \in Elems(stack) /\ Fits(Head(stack))
      /\ Under(Tail(stack))
  BY <1>0, <1>1, HeadIs
<1>3. PICK d \in Objects : d = Head(stack).d
  BY <1>1, <1>2, FrameIs
<1>4. PICK res \in Ids : res = Head(stack).res
  BY <1>1, <1>2, FrameIs
<1>5. Fresh(d) /\ device[d].be # None /\ res = backend[device[d].be].id
  BY <1>1, <1>2, <1>3, <1>4 DEF Fits
<1>6. PICK base : base = Tail(stack)
  OBVIOUS
<1>7. PICK x \in Frame : stack' = <<x>> \o base /\ x.op = "identified" /\ x.d = d
  BY <1>3, <1>6, FrameMade DEF IdentifyEnds, Continue
<1>8. /\ device' = [device EXCEPT ![d].id = res]
      /\ UNCHANGED <<backend, identified, out, tcpIn, virt>>
  BY <1>3, <1>4 DEF IdentifyEnds
<1>9. /\ device' \in [Objects -> DeviceRecord]
      /\ \A e \in Objects : e # d => device'[e] = device[e]
      /\ device'[d].id = res
      /\ \A e \in Objects :
           /\ device'[e].st = device[e].st /\ device'[e].be = device[e].be
           /\ device'[e].connected = device[e].connected
           /\ device'[e].hooked = device[e].hooked
  BY <1>0, <1>8 DEF TypeOK, DeviceRecord
<1>10. base # stack /\ Under(base)
  BY <1>0, <1>1, <1>2, <1>6, TailIsOther DEF TypeOK
<1>11. Typed'
  BY <1>0, <1>8, <1>9 DEF TypeOK, Typed
<1>12. \A f \in Elems(base) : Fits(f)'
  <2>1. \A e \in {d} : Mine(base, e)
    BY <1>1, <1>3, <1>5, <1>6 DEF Mine, HoldsDevice
  <2>2. PICK B \in SUBSET Backends : B = {}
    OBVIOUS
  <2>3. \A b \in B : MineToo(base, b)
    BY <2>2
  <2>4. \A e \in Objects \ {d} : device[e].st = "live" =>
          /\ device'[e].st = "live" /\ device'[e].hooked = device[e].hooked
          /\ device'[e].id = device[e].id
          /\ ~device[e].hooked => device'[e].be = device[e].be
    BY <1>9
  <2>5. \A b \in Backends \ B : Live(b) =>
          backend'[b].st = "live" /\ backend'[b].owner = backend[b].owner
    BY <1>8 DEF Live
  <2>6. /\ {d} \in SUBSET Objects
        /\ \A b \in Backends : Live(b) => backend'[b].id = backend[b].id
        /\ \A b \in Backends :
             backend[b].st \in {"dying", "dead"} => backend'[b].st \in {"dying", "dead"}
    BY <1>8
  <2>. QED
    BY <1>0, <1>10, <2>1, <2>3, <2>4, <2>5, <2>6, BaseFits
<1>13. /\ \A e : HoldsDevice(x, e) <=> HoldsDevice(Head(stack), e)
       /\ \A b : ~HoldsBackend(x, b) /\ ~HoldsBackend(Head(stack), b)
  BY <1>1, <1>3, <1>7 DEF HoldsDevice, HoldsBackend
<1>14. \A f \in Elems(base) : Free(x, f)
  BY <1>0, <1>1, <1>6, <1>13, SameHold
<1>15. Fits(x)'
  BY <1>5, <1>7, <1>8, <1>9 DEF Fits, Fresh
<1>16. \A e \in Objects : Fresh(e)' => HoldsDevice(x, e) \/ StillD(base, e)
  BY <1>9, <1>13 DEF Fresh, StillD
<1>17. \A b \in Backends : Unowned(b)' => HoldsBackend(x, b) \/ StillB(base, b)
  BY <1>8, <1>13 DEF Unowned, Live, StillB
<1>18. \A b \in Backends : Live(b)' /\ ~backend'[b].hooked => StillL(base, b)
  BY <1>1, <1>8 DEF Live, StillL
<1>19. Lasting'
  <2>1. Links'
    BY <1>0, <1>8, <1>9, LinkTypes DEF Links, Live
  <2>2. Fields'
    BY <1>8 DEF IInv, Fields, Live
  <2>3. Lists'
    BY <1>8 DEF IInv, Lists, Listed, Live
  <2>4. Registry'
    BY <1>0, <1>5, <1>8, <1>9, RegistryKept, LinkTypes DEF IInv, Known, Fresh
  <2>5. Honest'
    <3>1. /\ \A e \in Objects : device'[e].connected /\ device'[e].be # None =>
               Open(device[e].be)'
          /\ \A e \in Objects : device'[e].hooked /\ device'[e].connected =>
               device'[e].be # None
      BY <1>8, <1>9 DEF IInv, Honest, Open
    <3>2. LinkIsOfItsDevice'
      BY <1>0, <1>5, <1>8, <1>9, LinkTypes
        DEF IInv, Honest, LinkIsOfItsDevice, Live, Fresh
    <3>. QED
      BY <3>1, <3>2 DEF Honest
  <2>. QED
    BY <2>1, <2>2, <2>3, <2>4, <2>5 DEF Lasting
<1>. QED
  BY <1>7, <1>10, <1>11, <1>12, <1>14, <1>15, <1>16, <1>17, <1>18, <1>19, StepOne

(* What waits below holds no backend that has a device. *)
LEMMA BelowIsUnowned ==
  ASSUME TypeOK, Stack, NEW base, Under(base), NEW f \in Elems(base),
         NEW b \in Backends, HoldsBackend(f, b)
  PROVE  Unowned(b)
<1>1. f \in Frame /\ Fits(f) /\ Deep(f)
  BY UnderIs
<1>2. f.op = "assign" /\ f.b = b /\ b # None
  BY <1>1, Names DEF HoldsBackend, Deep
<1>. QED
  BY <1>1, <1>2 DEF Fits

LEMMA RegisterInv ==
  ASSUME IInv, RegisterDevice, identified[device[Head(stack).d].id] = None
  PROVE  IInv'
<1>0. TypeOK /\ Stack /\ Links
  BY DEF IInv
<1>1. stack # <<>> /\ Head(stack).op = "identified"
  BY DEF RegisterDevice, Top
<1>2. /\ Head(stack) \in Frame /\ Head(stack) \in Elems(stack) /\ Fits(Head(stack))
      /\ Under(Tail(stack))
  BY <1>0, <1>1, HeadIs
<1>3. PICK d \in Objects : d = Head(stack).d
  BY <1>1, <1>2, FrameIs
<1>4. Fresh(d) /\ device[d].be # None /\ device[d].id = backend[device[d].be].id
  BY <1>1, <1>2, <1>3 DEF Fits
<1>5. /\ device[d].be \in Backends /\ Live(device[d].be) /\ device[d].id \in Ids
      /\ device[d].id # None
  BY <1>0, <1>4, LinkTypes, Names DEF IInv, Fields
<1>6. PICK id \in Ids : id = device[d].id
  BY <1>5
<1>7. PICK base : base = Tail(stack)
  OBVIOUS
<1>8. PICK x \in Frame : stack' = <<x>> \o base /\ x.op = "describe" /\ x.d = d
  BY <1>3, <1>7, FrameMade DEF RegisterDevice, Continue
<1>9. /\ device' = [device EXCEPT ![d].hooked = TRUE]
      /\ identified' = [identified EXCEPT ![id] = d]
      /\ UNCHANGED <<backend, out, tcpIn, virt>>
  BY <1>3, <1>6 DEF RegisterDevice
<1>10. /\ device' \in [Objects -> DeviceRecord]
       /\ \A e \in Objects : e # d => device'[e] = device[e]
       /\ device'[d].hooked = TRUE
       /\ \A e \in Objects :
            /\ device'[e].st = device[e].st /\ device'[e].be = device[e].be
            /\ device'[e].connected = device[e].connected
            /\ device'[e].id = device[e].id
  <2>1. device \in [Objects -> DeviceRecord]
    BY <1>0 DEF TypeOK
  <2>2. device[d] \in DeviceRecord
    BY <2>1
  <2>3. device'[d] = [device[d] EXCEPT !.hooked = TRUE]
    BY <1>9, <2>1
  <2>4. /\ device'[d] \in DeviceRecord /\ device'[d].hooked = TRUE
        /\ device'[d].st = device[d].st /\ device'[d].be = device[d].be
        /\ device'[d].connected = device[d].connected
        /\ device'[d].id = device[d].id
    BY <2>2, <2>3 DEF DeviceRecord
  <2>5. \A e \in Objects : e # d => device'[e] = device[e]
    BY <1>9, <2>1
  <2>6. device' \in [Objects -> DeviceRecord]
    BY <1>9, <2>1, <2>4, <2>5
  <2>. QED
    BY <2>4, <2>5, <2>6
<1>11. /\ identified' \in [Ids -> Objects \cup {None}]
       /\ identified'[id] = d /\ identified[id] = None
       /\ \A i \in Ids : i # id => identified'[i] = identified[i]
  BY <1>0, <1>3, <1>6, <1>9 DEF TypeOK
<1>12. base # stack /\ Under(base)
  BY <1>0, <1>1, <1>2, <1>7, TailIsOther DEF TypeOK
<1>13. Typed'
  BY <1>0, <1>9, <1>10, <1>11 DEF TypeOK, Typed
<1>14. \A f \in Elems(base) : Fits(f)'
  <2>1. \A e \in {d} : Mine(base, e)
    BY <1>1, <1>3, <1>4, <1>7 DEF Mine, HoldsDevice
  <2>2. PICK B \in SUBSET Backends : B = {}
    OBVIOUS
  <2>3. \A b \in B : MineToo(base, b)
    BY <2>2
  <2>4. \A e \in Objects \ {d} : device[e].st = "live" =>
          /\ device'[e].st = "live" /\ device'[e].hooked = device[e].hooked
          /\ device'[e].id = device[e].id
          /\ ~device[e].hooked => device'[e].be = device[e].be
    BY <1>10
  <2>5. \A b \in Backends \ B : Live(b) =>
          backend'[b].st = "live" /\ backend'[b].owner = backend[b].owner
    BY <1>9 DEF Live
  <2>6. /\ {d} \in SUBSET Objects
        /\ \A b \in Backends : Live(b) => backend'[b].id = backend[b].id
        /\ \A b \in Backends :
             backend[b].st \in {"dying", "dead"} => backend'[b].st \in {"dying", "dead"}
    BY <1>9
  <2>. QED
    BY <1>0, <1>12, <2>1, <2>3, <2>4, <2>5, <2>6, BaseFits
<1>15. \A f \in Elems(base) : Free(x, f)
  BY <1>8, FreeOps
<1>16. Fits(x)'
  BY <1>4, <1>8, <1>10 DEF Fits, Fresh, Known
<1>17. \A e \in Objects : Fresh(e)' => StillD(base, e)
  BY <1>1, <1>3, <1>10 DEF Fresh, StillD, HoldsDevice
<1>18. \A b \in Backends : Unowned(b)' => StillB(base, b)
  BY <1>1, <1>9 DEF Unowned, Live, StillB, HoldsBackend
<1>19. \A b \in Backends : Live(b)' /\ ~backend'[b].hooked => StillL(base, b)
  BY <1>1, <1>9 DEF Live, StillL
<1>20. Lasting'
  <2>1. Links'
    BY <1>0, <1>4, <1>9, <1>10, LinkTypes DEF Links, Live, Fresh
  <2>2. Fields'
    BY <1>9 DEF IInv, Fields, Live
  <2>3. Lists'
    BY <1>9 DEF IInv, Lists, Listed, Live
  <2>4. Registry'
    <3>1. ASSUME NEW e \in Objects, device'[e].hooked
          PROVE  device'[e].id # None /\ identified'[device'[e].id] = e
      <4>1. CASE e = d
        BY <1>5, <1>6, <1>10, <1>11, <4>1
      <4>2. CASE e # d
        <5>1. device[e].hooked /\ device'[e] = device[e]
          BY <1>10, <3>1, <4>2
        <5>2. device[e].id # None /\ identified[device[e].id] = e
          BY <5>1 DEF IInv, Registry, OneDevicePerId
        <5>3. device[e].id \in Ids
          BY <1>0, <5>2 DEF TypeOK, DeviceRecord
        <5>4. device[e].id # id
          BY <1>11, <5>2, Names
        <5>. QED
          BY <1>11, <5>1, <5>2, <5>3, <5>4
      <4>. QED
        BY <4>1, <4>2
    <3>2. ASSUME NEW i \in Ids
          PROVE  /\ identified'[i] = None => device'[i].st = "unused"
                 /\ identified'[i] # None => Known(identified[i])' /\ device'[identified'[i]].id = i
      <4>1. CASE i = id
        BY <1>4, <1>6, <1>10, <1>11, <4>1, Names DEF Known, Fresh
      <4>2. CASE i # id
        <5>1. identified'[i] = identified[i] /\ identified[i] \in Objects \cup {None}
          BY <1>0, <1>11, <4>2 DEF TypeOK
        <5>2. identified[i] # None => Known(identified[i]) /\ device[identified[i]].id = i
          BY DEF IInv, Registry
        <5>3. identified[i] # None => identified[i] # d
          BY <1>4, <5>2 DEF Known, Fresh
        <5>4. identified[i] = None => device[i].st = "unused"
          BY DEF IInv, Registry
        <5>. QED
          BY <1>10, <5>1, <5>2, <5>3, <5>4, Names DEF Known
      <4>. QED
        BY <4>1, <4>2
    <3>. QED
      BY <3>1, <3>2 DEF Registry, OneDevicePerId, Known
  <2>5. Honest'
    <3>1. /\ \A e \in Objects : device'[e].connected /\ device'[e].be # None =>
               Open(device[e].be)'
          /\ \A e \in Objects : device'[e].hooked /\ device'[e].connected =>
               device'[e].be # None
      BY <1>4, <1>9, <1>10 DEF IInv, Honest, Open
    <3>2. ASSUME NEW b \in Backends, Live(b), backend[b].owner # None,
                 device'[backend[b].owner].hooked
          PROVE  backend[b].id = device[backend[b].owner].id
      <4>1. CASE backend[b].owner = d
        BY <1>0, <1>4, <3>2, <4>1 DEF Links, Fresh
      <4>2. CASE backend[b].owner # d
        BY <1>0, <1>10, <3>2, <4>2, LinkTypes DEF IInv, Honest, LinkIsOfItsDevice
      <4>. QED
        BY <4>1, <4>2
    <3>3. LinkIsOfItsDevice'
      BY <1>0, <1>9, <1>10, <3>2, LinkTypes DEF LinkIsOfItsDevice, Live
    <3>. QED
      BY <3>1, <3>3 DEF Honest
  <2>. QED
    BY <2>1, <2>2, <2>3, <2>4, <2>5 DEF Lasting
<1>. QED
  BY <1>8, <1>12, <1>13, <1>14, <1>15, <1>16, <1>17, <1>18, <1>19, <1>20, StepOne

LEMMA RefuseInv ==
  ASSUME IInv, RegisterDevice,
         stack' = <<[op |-> "delete", d |-> Head(stack).d]>> \o Tail(stack),
         UNCHANGED <<backend, device, identified, out, tcpIn, virt>>
  PROVE  IInv'
<1>0. TypeOK /\ Stack
  BY DEF IInv
<1>1. stack # <<>> /\ Head(stack).op = "identified"
  BY DEF RegisterDevice, Top
<1>2. /\ Head(stack) \in Frame /\ Fits(Head(stack)) /\ Under(Tail(stack))
  BY <1>0, <1>1, HeadIs
<1>3. PICK x \in Frame : /\ x.op = "delete" /\ x.d = Head(stack).d
                         /\ stack' = <<x>> \o Tail(stack)
  BY <1>1, <1>2, FrameIs, FrameMade
<1>4. Fits(x)
  BY <1>1, <1>2, <1>3 DEF Fits
<1>5. /\ \A d : HoldsDevice(x, d) <=> HoldsDevice(Head(stack), d)
      /\ \A b : ~HoldsBackend(x, b) /\ ~HoldsBackend(Head(stack), b)
  BY <1>1, <1>3 DEF HoldsDevice, HoldsBackend
<1>6. \A f \in Elems(Tail(stack)) : Free(x, f)
  BY <1>0, <1>1, <1>5, SameHold
<1>7. PICK fs \in Seq(Frame) : fs = <<x>>
  BY One
<1>8. /\ Elems(fs) = {x} /\ Apart(fs) /\ fs[1] = x /\ \A i \in 2..Len(fs) : Deep(fs[i])
      /\ stack' = fs \o Tail(stack)
  BY <1>3, <1>7, One
<1>9. \A b \in Backends : Head(stack) # [op |-> "list", b |-> b]
  BY <1>1
<1>. QED
  BY <1>2, <1>3, <1>4, <1>5, <1>6, <1>8, <1>9, MoveOn

(* The new backend takes the place of the device's present one. *)
Replacing ==
  LET d == Head(stack).d
      b == device[d].be
      old == identified[device[d].id]
      oldBe == device[old].be
      delete == [op |-> "delete", d |-> d]
      assign == [op |-> "assign", d |-> old, b |-> b]
  IN  /\ old # None
      /\ oldBe # None => ShouldReplace(oldBe, b)
      /\ device' = [device EXCEPT ![d].be = None]
      /\ backend' = [backend EXCEPT ![b].owner = None]
      /\ Continue(IF oldBe = None THEN <<assign, delete>>
                  ELSE <<[op |-> "destroy", b |-> oldBe], assign, delete>>)
      /\ UNCHANGED <<identified, out, tcpIn, virt>>

LEMMA ReplaceInv ==
  ASSUME IInv, RegisterDevice, Replacing
  PROVE  IInv'
<1>0. TypeOK /\ Stack /\ Links
  BY DEF IInv
<1>1. stack # <<>> /\ Head(stack).op = "identified"
  BY DEF RegisterDevice, Top
<1>2. /\ Head(stack) \in Frame /\ Head(stack) \in Elems(stack) /\ Fits(Head(stack))
      /\ Under(Tail(stack))
  BY <1>0, <1>1, HeadIs
<1>3. PICK d \in Objects : d = Head(stack).d
  BY <1>1, <1>2, FrameIs
<1>4. Fresh(d) /\ device[d].be # None /\ device[d].id = backend[device[d].be].id
  BY <1>1, <1>2, <1>3 DEF Fits
<1>5. PICK b \in Backends : b = device[d].be
  BY <1>0, <1>4, LinkTypes
<1>6. Live(b) /\ backend[b].owner = d /\ device[d].id \in Ids /\ d # None /\ b # None
  BY <1>0, <1>4, <1>5, LinkTypes, Names DEF IInv, Fields
<1>7. PICK old \in Objects : old = identified[device[d].id] /\ old # None
  BY <1>0, <1>3, <1>6 DEF TypeOK, Replacing
<1>8. Known(old) /\ device[old].id = device[d].id /\ old # d
  BY <1>4, <1>6, <1>7 DEF IInv, Registry, Known, Fresh
<1>9. PICK oldBe \in Backends \cup {None} : oldBe = device[old].be
  BY <1>0, LinkTypes
<1>10. oldBe # None => /\ oldBe \in Backends /\ Live(oldBe) /\ backend[oldBe].owner = old
                       /\ oldBe # b /\ ShouldReplace(oldBe, b)
  BY <1>0, <1>3, <1>5, <1>6, <1>7, <1>8, <1>9, LinkTypes DEF Replacing
<1>11. PICK base : base = Tail(stack)
  OBVIOUS
<1>12. PICK z \in Frame : z = [op |-> "delete", d |-> d]
  BY FrameMade
<1>13. PICK y \in Frame : y = [op |-> "assign", d |-> old, b |-> b]
  BY FrameMade
<1>14. z.op = "delete" /\ z.d = d /\ y.op = "assign" /\ y.d = old /\ y.b = b
  BY <1>12, <1>13
<1>15. stack' = (IF oldBe = None THEN <<y, z>>
                 ELSE <<[op |-> "destroy", b |-> oldBe], y, z>>) \o base
  BY <1>3, <1>5, <1>7, <1>9, <1>11, <1>12, <1>13 DEF Replacing, Continue
<1>16. /\ device' = [device EXCEPT ![d].be = None]
       /\ backend' = [backend EXCEPT ![b].owner = None]
       /\ UNCHANGED <<identified, out, tcpIn, virt>>
  BY <1>3, <1>5 DEF Replacing
<1>17. /\ backend' \in [Backends -> BackendRecord]
       /\ \A c \in Backends : c # b => backend'[c] = backend[c]
       /\ backend'[b].owner = None
       /\ \A c \in Backends :
            /\ backend'[c].st = backend[c].st /\ backend'[c].kind = backend[c].kind
            /\ backend'[c].key = backend[c].key /\ backend'[c].id = backend[c].id
            /\ backend'[c].open = backend[c].open /\ backend'[c].said = backend[c].said
            /\ backend'[c].hooked = backend[c].hooked
  BY <1>0, <1>16, OwnerSet DEF TypeOK
<1>18. /\ device' \in [Objects -> DeviceRecord]
       /\ \A e \in Objects : e # d => device'[e] = device[e]
       /\ device'[d].be = None
       /\ \A e \in Objects :
            /\ device'[e].st = device[e].st /\ device'[e].id = device[e].id
            /\ device'[e].connected = device[e].connected
            /\ device'[e].hooked = device[e].hooked
  BY <1>0, <1>16 DEF TypeOK, DeviceRecord
<1>19. base # stack /\ Under(base)
  BY <1>0, <1>1, <1>2, <1>11, TailIsOther DEF TypeOK
<1>20. Typed'
  BY <1>0, <1>16, <1>17, <1>18 DEF TypeOK, Typed
<1>21. \A f \in Elems(base) : Fits(f)'
  <2>1. \A e \in {d} : Mine(base, e)
    BY <1>1, <1>3, <1>4, <1>11 DEF Mine, HoldsDevice
  <2>2. \A c \in {b} : MineToo(base, c)
    BY <1>6 DEF MineToo
  <2>3. \A e \in Objects \ {d} : device[e].st = "live" =>
          /\ device'[e].st = "live" /\ device'[e].hooked = device[e].hooked
          /\ device'[e].id = device[e].id
          /\ ~device[e].hooked => device'[e].be = device[e].be
    BY <1>18
  <2>4. \A c \in Backends \ {b} : Live(c) =>
          backend'[c].st = "live" /\ backend'[c].owner = backend[c].owner
    BY <1>17 DEF Live
  <2>5. /\ {d} \in SUBSET Objects /\ {b} \in SUBSET Backends
        /\ \A c \in Backends : Live(c) => backend'[c].id = backend[c].id
        /\ \A c \in Backends :
             backend[c].st \in {"dying", "dead"} => backend'[c].st \in {"dying", "dead"}
    BY <1>17
  <2>. QED
    BY <1>0, <1>19, <2>1, <2>2, <2>3, <2>4, <2>5, BaseFits
<1>22. \A f \in Elems(base) : Free(z, f)
  <2>1. /\ \A e : HoldsDevice(z, e) => HoldsDevice(Head(stack), e)
        /\ \A c : ~HoldsBackend(z, c)
    BY <1>1, <1>3, <1>14 DEF HoldsDevice, HoldsBackend
  <2>. QED
    BY <1>0, <1>1, <1>11, <2>1, SameHold
<1>23. \A f \in Elems(base) : Free(y, f)
  <2>1. /\ \A e : ~HoldsDevice(y, e)
        /\ \A c : HoldsBackend(y, c) => c = b
    BY <1>14 DEF HoldsDevice, HoldsBackend
  <2>2. \A f \in Elems(base) : ~HoldsBackend(f, b)
    BY <1>0, <1>6, <1>19, BelowIsUnowned DEF Unowned
  <2>. QED
    BY <2>1, <2>2 DEF Free
<1>24. Free(y, z) /\ Deep(y) /\ Deep(z)
  BY <1>14 DEF Free, Deep, HoldsDevice, HoldsBackend
<1>25. Fits(z)'
  BY <1>4, <1>14, <1>18 DEF Fits, Fresh
<1>26. Fits(y)'
  BY <1>4, <1>5, <1>6, <1>8, <1>14, <1>17, <1>18 DEF Fits, Known, Unowned, Live
<1>27. \A e \in Objects : Fresh(e)' => HoldsDevice(z, e) \/ StillD(base, e)
  BY <1>1, <1>3, <1>14, <1>18 DEF Fresh, StillD, HoldsDevice
<1>28. \A c \in Backends : Unowned(c)' => HoldsBackend(y, c) \/ StillB(base, c)
  BY <1>1, <1>14, <1>17 DEF Unowned, Live, StillB, HoldsBackend
<1>29. \A c \in Backends : Live(c)' /\ ~backend'[c].hooked => StillL(base, c)
  BY <1>1, <1>17 DEF Live, StillL
<1>30. Lasting'
  <2>1. Links'
    <3>1. ASSUME NEW e \in Objects
          PROVE  /\ device'[e].be # None =>
                      /\ device'[e].st = "live" /\ backend'[device'[e].be].st = "live"
                      /\ backend'[device'[e].be].owner = e
                 /\ device'[e].hooked => device'[e].st = "live"
      <4>1. CASE e = d
        BY <1>0, <1>18, <4>1, LinkTypes
      <4>2. CASE e # d
        BY <1>0, <1>6, <1>17, <1>18, <4>2, LinkTypes DEF Links, Live
      <4>. QED
        BY <4>1, <4>2
    <3>2. ASSUME NEW c \in Backends, Live(c)', backend'[c].owner # None
          PROVE  /\ device'[backend'[c].owner].st = "live"
                 /\ device'[backend'[c].owner].hooked \/ device'[backend'[c].owner].be = c
      <4>1. c # b /\ backend'[c] = backend[c] /\ Live(c)
        BY <1>17, <3>2 DEF Live
      <4>2. backend[c].owner # d
        BY <1>0, <1>4, <1>5, <3>2, <4>1 DEF Links, Fresh
      <4>. QED
        BY <1>0, <1>18, <3>2, <4>1, <4>2, LinkTypes DEF Links
    <3>3. ASSUME NEW c \in Backends, backend'[c].st = "unused" PROVE device'[c].st = "unused"
      BY <1>0, <1>17, <1>18, <3>3, Names DEF Links
    <3>. QED
      BY <3>1, <3>2, <3>3 DEF Links, Live
  <2>2. Fields'
    BY <1>17, FieldsKept DEF IInv, Live
  <2>3. Lists'
    BY <1>0, <1>16, <1>17, ListsKept DEF IInv, Listed, Live
  <2>4. Registry'
    BY <1>0, <1>16, <1>18, RegistryKept, LinkTypes, Names DEF IInv, Known
  <2>5. Honest'
    <3>1. /\ \A e \in Objects : device'[e].connected /\ device'[e].be # None =>
               Open(device[e].be)'
          /\ \A e \in Objects : device'[e].hooked /\ device'[e].connected =>
               device'[e].be # None
      BY <1>0, <1>4, <1>17, <1>18, LinkTypes DEF IInv, Honest, Open, Fresh
    <3>2. LinkIsOfItsDevice'
      BY <1>0, <1>17, <1>18, LinkTypes DEF IInv, Honest, LinkIsOfItsDevice, Live
    <3>. QED
      BY <3>1, <3>2 DEF Honest
  <2>. QED
    BY <2>1, <2>2, <2>3, <2>4, <2>5 DEF Lasting
<1>31. CASE oldBe = None
  BY <1>14, <1>15, <1>19, <1>20, <1>21, <1>22, <1>23, <1>24, <1>25, <1>26, <1>27, <1>28,
     <1>29, <1>30, <1>31, StepTwo
<1>32. CASE oldBe # None
  <2>1. PICK x \in Frame : x = [op |-> "destroy", b |-> oldBe]
    BY <1>10, <1>32, FrameMade
  <2>2. x.op = "destroy" /\ x.b = oldBe
    BY <2>1
  <2>3. stack' = <<x, y, z>> \o base
    BY <1>15, <1>32, <2>1
  <2>4. Free(x, y) /\ Free(x, z)
    BY <1>10, <1>14, <1>32, <2>2 DEF Free, HoldsDevice, HoldsBackend
  <2>5. \A f \in Elems(base) : Free(x, f)
    <3>1. /\ \A e : ~HoldsDevice(x, e)
          /\ \A c : HoldsBackend(x, c) => c = oldBe
      BY <2>2 DEF HoldsDevice, HoldsBackend
    <3>2. \A f \in Elems(base) : ~HoldsBackend(f, oldBe)
      BY <1>0, <1>10, <1>19, <1>32, BelowIsUnowned, Names DEF Unowned
    <3>. QED
      BY <3>1, <3>2 DEF Free
  <2>6. Fits(x)'
    BY <1>8, <1>10, <1>17, <1>18, <1>32, <2>2 DEF Fits, Live, Known
  <2>7. Replaced(x.b, y)'
    <3>1. y = [op |-> "assign", d |-> backend'[oldBe].owner, b |-> b]
      BY <1>10, <1>13, <1>17, <1>32
    <3>2. Priority(b)' > Priority(oldBe)'
      BY <1>10, <1>17, <1>32 DEF ShouldReplace, Priority
    <3>. QED
      BY <2>2, <3>1, <3>2 DEF Replaced
  <2>. QED
    BY <1>19, <1>20, <1>21, <1>22, <1>23, <1>24, <1>25, <1>26, <1>27, <1>28, <1>29, <1>30,
       <2>3, <2>4, <2>5, <2>6, <2>7, StepThree
<1>. QED
  BY <1>31, <1>32

LEMMA RegisterDeviceInv == IInv /\ RegisterDevice => IInv'
<1>. SUFFICES ASSUME IInv, RegisterDevice PROVE IInv'
  OBVIOUS
<1> DEFINE d == Head(stack).d
           b == device[d].be
           old == identified[device[d].id]
           oldBe == device[old].be
<1>1. CASE old = None
  BY <1>1, RegisterInv
<1>2. CASE old # None /\ (oldBe # None => ShouldReplace(oldBe, b))
  BY <1>2, ReplaceInv DEF RegisterDevice, Replacing
<1>3. CASE old # None /\ oldBe # None /\ ~ShouldReplace(oldBe, b)
  BY <1>3, RefuseInv DEF RegisterDevice, Continue
<1>. QED
  BY <1>1, <1>2, <1>3

LEMMA DeleteInv == IInv /\ DeleteDevice => IInv'
<1>. SUFFICES ASSUME IInv, DeleteDevice PROVE IInv'
  OBVIOUS
<1>0. TypeOK /\ Stack /\ Links
  BY DEF IInv
<1>1. stack # <<>> /\ Head(stack).op = "delete"
  BY DEF DeleteDevice, Top
<1>2. /\ Head(stack) \in Frame /\ Head(stack) \in Elems(stack) /\ Fits(Head(stack))
      /\ Under(Tail(stack))
  BY <1>0, <1>1, HeadIs
<1>3. PICK d \in Objects : d = Head(stack).d
  BY <1>1, <1>2, FrameIs
<1>4. Fresh(d)
  BY <1>1, <1>2, <1>3 DEF Fits
<1>5. PICK b \in Backends \cup {None} : b = device[d].be
  BY <1>0, LinkTypes
<1>6. b # None => b \in Backends /\ Live(b) /\ backend[b].owner = d /\ d # None
  BY <1>0, <1>3, <1>5, LinkTypes, Names
<1>7. PICK base : base = Tail(stack)
  OBVIOUS
<1>8. /\ device' = [device EXCEPT ![d] = [st |-> "dead", id |-> None, be |-> None,
                                          connected |-> FALSE, hooked |-> FALSE]]
      /\ UNCHANGED <<identified, out, tcpIn, virt>>
      /\ IF b = None
           THEN stack' = <<>> \o base /\ UNCHANGED backend
           ELSE /\ backend' = [backend EXCEPT ![b].owner = None]
                /\ stack' = <<[op |-> "destroy", b |-> b]>> \o base
  BY <1>3, <1>5, <1>7 DEF DeleteDevice, Continue
<1>9. /\ backend' \in [Backends -> BackendRecord]
      /\ \A c \in Backends : c # b => backend'[c] = backend[c]
      /\ b # None => backend'[b].owner = None
      /\ \A c \in Backends :
           /\ backend'[c].st = backend[c].st /\ backend'[c].kind = backend[c].kind
           /\ backend'[c].key = backend[c].key /\ backend'[c].id = backend[c].id
           /\ backend'[c].open = backend[c].open /\ backend'[c].said = backend[c].said
           /\ backend'[c].hooked = backend[c].hooked
  <2>1. backend \in [Backends -> BackendRecord]
    BY <1>0 DEF TypeOK
  <2>2. CASE b = None
    BY <1>8, <2>1, <2>2
  <2>3. CASE b # None
    BY <1>6, <1>8, <2>1, <2>3, OwnerSet
  <2>. QED
    BY <2>2, <2>3
<1>10. /\ device' \in [Objects -> DeviceRecord]
       /\ \A e \in Objects : e # d => device'[e] = device[e]
       /\ device'[d].st = "dead" /\ device'[d].be = None
       /\ device'[d].connected = FALSE /\ device'[d].hooked = FALSE
  BY <1>0, <1>8 DEF TypeOK, DeviceRecord
<1>11. base # stack /\ Under(base)
  BY <1>0, <1>1, <1>2, <1>7, TailIsOther DEF TypeOK
<1>12. Typed'
  BY <1>0, <1>8, <1>9, <1>10 DEF TypeOK, Typed
<1>13. \A f \in Elems(base) : Fits(f)'
  <2>1. \A e \in {d} : Mine(base, e)
    BY <1>1, <1>3, <1>4, <1>7 DEF Mine, HoldsDevice
  <2>2. PICK B \in SUBSET Backends : B = {c \in Backends : c = b}
    OBVIOUS
  <2>3. \A c \in B : MineToo(base, c)
    BY <1>6, <2>2, Names DEF MineToo
  <2>4. \A e \in Objects \ {d} : device[e].st = "live" =>
          /\ device'[e].st = "live" /\ device'[e].hooked = device[e].hooked
          /\ device'[e].id = device[e].id
          /\ ~device[e].hooked => device'[e].be = device[e].be
    BY <1>10
  <2>5. \A c \in Backends \ B : Live(c) =>
          backend'[c].st = "live" /\ backend'[c].owner = backend[c].owner
    BY <1>9, <2>2 DEF Live
  <2>6. /\ {d} \in SUBSET Objects
        /\ \A c \in Backends : Live(c) => backend'[c].id = backend[c].id
        /\ \A c \in Backends :
             backend[c].st \in {"dying", "dead"} => backend'[c].st \in {"dying", "dead"}
    BY <1>9
  <2>. QED
    BY <1>0, <1>11, <2>1, <2>3, <2>4, <2>5, <2>6, BaseFits
<1>14. \A e \in Objects : Fresh(e)' => StillD(base, e)
  BY <1>1, <1>3, <1>10 DEF Fresh, StillD, HoldsDevice
<1>15. \A c \in Backends : Unowned(c)' => (c = b /\ b # None) \/ StillB(base, c)
  BY <1>1, <1>9, Names DEF Unowned, Live, StillB, HoldsBackend
<1>16. \A c \in Backends : Live(c)' /\ ~backend'[c].hooked => StillL(base, c)
  BY <1>1, <1>9 DEF Live, StillL
<1>17. Lasting'
  <2>1. Links'
    <3>1. ASSUME NEW e \in Objects
          PROVE  /\ device'[e].be # None =>
                      /\ device'[e].st = "live" /\ backend'[device'[e].be].st = "live"
                      /\ backend'[device'[e].be].owner = e
                 /\ device'[e].hooked => device'[e].st = "live"
      <4>1. CASE e = d
        BY <1>10, <4>1
      <4>2. CASE e # d
        <5>1. device'[e] = device[e] /\ (device[e].be # None => device[e].be # b)
          BY <1>0, <1>6, <1>10, <4>2, LinkTypes
        <5>. QED
          BY <1>0, <1>9, <5>1, LinkTypes DEF Links, Live
      <4>. QED
        BY <4>1, <4>2
    <3>2. ASSUME NEW c \in Backends, Live(c)', backend'[c].owner # None
          PROVE  /\ device'[backend'[c].owner].st = "live"
                 /\ device'[backend'[c].owner].hooked \/ device'[backend'[c].owner].be = c
      <4>1. c # b /\ backend'[c] = backend[c] /\ Live(c)
        BY <1>9, <3>2, Names DEF Live
      <4>2. backend[c].owner # d
        BY <1>0, <1>4, <1>5, <3>2, <4>1 DEF Links, Fresh
      <4>. QED
        BY <1>0, <1>10, <3>2, <4>1, <4>2, LinkTypes DEF Links
    <3>3. ASSUME NEW c \in Backends, backend'[c].st = "unused" PROVE device'[c].st = "unused"
      BY <1>0, <1>4, <1>9, <1>10, <3>3, Names DEF Links, Fresh
    <3>. QED
      BY <3>1, <3>2, <3>3 DEF Links, Live
  <2>2. Fields'
    BY <1>9, FieldsKept DEF IInv, Live
  <2>3. Lists'
    BY <1>0, <1>8, <1>9, ListsKept DEF IInv, Listed, Live
  <2>4. Registry'
    <3>1. \A e \in Objects : device'[e].hooked = device[e].hooked
      BY <1>0, <1>4, <1>10, LinkTypes DEF Fresh
    <3>2. \A e \in Objects : Known(e) => Known(e)' /\ device'[e].id = device[e].id
      BY <1>4, <1>10 DEF Known, Fresh
    <3>3. \A id \in Ids : device[id].st = "unused" => device'[id].st = "unused"
      BY <1>4, <1>10, Names DEF Fresh
    <3>. QED
      BY <1>0, <1>8, <3>1, <3>2, <3>3, RegistryKept, LinkTypes DEF IInv
  <2>5. Honest'
    <3>1. /\ \A e \in Objects : device'[e].connected /\ device'[e].be # None =>
               Open(device[e].be)'
          /\ \A e \in Objects : device'[e].hooked /\ device'[e].connected =>
               device'[e].be # None
      BY <1>0, <1>9, <1>10, LinkTypes DEF IInv, Honest, Open
    <3>2. ASSUME NEW c \in Backends, Live(c)', backend'[c].owner # None,
                 device'[backend'[c].owner].hooked
          PROVE  backend'[c].id = device'[backend'[c].owner].id
      <4>1. c # b /\ backend'[c] = backend[c] /\ Live(c)
        BY <1>9, <3>2, Names DEF Live
      <4>2. backend[c].owner # d
        BY <1>10, <3>2, <4>1
      <4>3. device'[backend[c].owner] = device[backend[c].owner]
        BY <1>0, <1>10, <3>2, <4>1, <4>2, LinkTypes
      <4>. QED
        BY <3>2, <4>1, <4>3 DEF IInv, Honest, LinkIsOfItsDevice
    <3>3. LinkIsOfItsDevice'
      BY <3>2 DEF LinkIsOfItsDevice, Live
    <3>. QED
      BY <3>1, <3>3 DEF Honest
  <2>. QED
    BY <2>1, <2>2, <2>3, <2>4, <2>5 DEF Lasting
<1>18. CASE b = None
  BY <1>8, <1>11, <1>12, <1>13, <1>14, <1>15, <1>16, <1>17, <1>18, StepNone
<1>19. CASE b # None
  <2>1. PICK x \in Frame : x.op = "destroy" /\ x.b = b /\ stack' = <<x>> \o base
    BY <1>6, <1>8, <1>19, FrameMade
  <2>2. \A f \in Elems(base) : Free(x, f)
    <3>1. /\ \A e : ~HoldsDevice(x, e)
          /\ \A c : HoldsBackend(x, c) => c = b
      BY <2>1 DEF HoldsDevice, HoldsBackend
    <3>2. \A f \in Elems(base) : ~HoldsBackend(f, b)
      BY <1>0, <1>6, <1>11, <1>19, BelowIsUnowned DEF Unowned
    <3>. QED
      BY <3>1, <3>2 DEF Free
  <2>3. Fits(x)' /\ Reason(x.b)'
    BY <1>6, <1>9, <1>19, <2>1 DEF Fits, Live, Reason
  <2>4. \A c \in Backends : Unowned(c)' => HoldsBackend(x, c) \/ StillB(base, c)
    BY <1>15, <2>1 DEF HoldsBackend
  <2>. QED
    BY <1>11, <1>12, <1>13, <1>14, <1>16, <1>17, <2>1, <2>2, <2>3, <2>4, StepOne
<1>. QED
  BY <1>18, <1>19

(* Nobody below relies on a device that changed, or on a backend that did. *)
LEMMA BaseFitsDevices ==
  ASSUME TypeOK, Stack, Links, NEW base, Under(base),
         NEW B \in SUBSET Backends, \A b \in B : MineToo(base, b),
         \A d \in Objects : device[d].st = "live" =>
           /\ device'[d].st = "live" /\ device'[d].hooked = device[d].hooked
           /\ device'[d].id = device[d].id
           /\ ~device[d].hooked => device'[d].be = device[d].be,
         \A b \in Backends \ B : Live(b) =>
           backend'[b].st = "live" /\ backend'[b].owner = backend[b].owner,
         \A b \in Backends : Live(b) => backend'[b].id = backend[b].id,
         \A b \in Backends :
           backend[b].st \in {"dying", "dead"} => backend'[b].st \in {"dying", "dead"}
  PROVE  \A f \in Elems(base) : Fits(f)'
<1>1. PICK D \in SUBSET Objects : D = {}
  OBVIOUS
<1>2. \A d \in D : Mine(base, d)
  BY <1>1
<1>3. \A d \in Objects \ D : device[d].st = "live" =>
        /\ device'[d].st = "live" /\ device'[d].hooked = device[d].hooked
        /\ device'[d].id = device[d].id
        /\ ~device[d].hooked => device'[d].be = device[d].be
  OBVIOUS
<1>. QED
  BY <1>2, <1>3, BaseFits

LEMMA BaseFitsAll ==
  ASSUME TypeOK, Stack, Links, NEW base, Under(base),
         \A d \in Objects : device[d].st = "live" =>
           /\ device'[d].st = "live" /\ device'[d].hooked = device[d].hooked
           /\ device'[d].id = device[d].id
           /\ ~device[d].hooked => device'[d].be = device[d].be,
         \A b \in Backends : Live(b) =>
           /\ backend'[b].st = "live" /\ backend'[b].owner = backend[b].owner
           /\ backend'[b].id = backend[b].id,
         \A b \in Backends :
           backend[b].st \in {"dying", "dead"} => backend'[b].st \in {"dying", "dead"}
  PROVE  \A f \in Elems(base) : Fits(f)'
<1>1. PICK B \in SUBSET Backends : B = {}
  OBVIOUS
<1>2. \A b \in B : MineToo(base, b)
  BY <1>1
<1>. QED
  BY <1>2, BaseFitsDevices

LEMMA ListInv == IInv /\ ListBackend => IInv'
<1>. SUFFICES ASSUME IInv, ListBackend PROVE IInv'
  OBVIOUS
<1>0. TypeOK /\ Stack /\ Links
  BY DEF IInv
<1>1. stack # <<>> /\ Head(stack).op = "list"
  BY DEF ListBackend, Top
<1>2. Head(stack) \in Frame /\ Under(Tail(stack))
  BY <1>0, <1>1, HeadIs
<1>3. PICK b \in Backends : b = Head(stack).b
  BY <1>1, <1>2, FrameIs
<1>4. Head(stack) = [op |-> "list", b |-> b]
  BY <1>1, <1>2, <1>3 DEF Frame
<1>5. PICK base : base = Tail(stack)
  OBVIOUS
<1>6. stack' = <<>> \o base /\ UNCHANGED <<device, identified>>
  BY <1>5 DEF ListBackend, Continue
<1>7. base # stack /\ Under(base)
  BY <1>0, <1>1, <1>2, <1>5, TailIsOther DEF TypeOK
<1>8. b # None /\ backend \in [Backends -> BackendRecord]
  BY <1>0, Names DEF TypeOK
<1>9. CASE backend[b].st # "live"
  <2>1. UNCHANGED <<backend, device, identified, out, tcpIn, virt>>
    BY <1>3, <1>6, <1>9 DEF ListBackend
  <2>2. Lasting' /\ Typed'
    BY <1>0, <2>1, LastingKept DEF IInv, Lasting, TypeOK, Typed
  <2>3. \A f \in Elems(base) : Fits(f)'
    <3>1. \A f : Fits(f) => Fits(f)'
      BY <2>1 DEF Fits, Unowned, Live, Known, Fresh
    <3>. QED
      BY <1>0, <1>7, <3>1, UnderIs
  <2>4. /\ \A d \in Objects : Fresh(d)' => StillD(base, d)
        /\ \A c \in Backends : Unowned(c)' => StillB(base, c)
    BY <1>4, <2>1 DEF Fresh, Unowned, Live, StillD, StillB, HoldsDevice, HoldsBackend
  <2>5. \A c \in Backends : Live(c)' /\ ~backend'[c].hooked => StillL(base, c)
    BY <1>4, <1>9, <2>1 DEF Live, StillL
  <2>. QED
    BY <1>6, <1>7, <2>2, <2>3, <2>4, <2>5, StepNone
<1>10. CASE backend[b].st = "live"
  <2>1. /\ backend' = [backend EXCEPT ![b].hooked = TRUE]
        /\ out' = IF backend[b].kind = "tty" THEN [out EXCEPT ![backend[b].key] = b] ELSE out
        /\ tcpIn' = IF backend[b].kind = "tcp" THEN tcpIn \cup {b} ELSE tcpIn
        /\ virt' = IF backend[b].kind = "virtual" THEN [virt EXCEPT ![backend[b].key] = b]
                   ELSE virt
    BY <1>3, <1>10 DEF ListBackend
  <2>2. /\ backend' \in [Backends -> BackendRecord]
        /\ \A c \in Backends : c # b => backend'[c] = backend[c]
        /\ backend'[b].hooked = TRUE
        /\ \A c \in Backends :
             /\ backend'[c].st = backend[c].st /\ backend'[c].kind = backend[c].kind
             /\ backend'[c].key = backend[c].key /\ backend'[c].id = backend[c].id
             /\ backend'[c].open = backend[c].open /\ backend'[c].said = backend[c].said
             /\ backend'[c].owner = backend[c].owner
    <3>1. backend[b] \in BackendRecord
      BY <1>8
    <3>2. backend'[b] = [backend[b] EXCEPT !.hooked = TRUE]
      BY <1>8, <2>1
    <3>3. /\ backend'[b] \in BackendRecord /\ backend'[b].hooked = TRUE
          /\ backend'[b].st = backend[b].st /\ backend'[b].kind = backend[b].kind
          /\ backend'[b].key = backend[b].key /\ backend'[b].id = backend[b].id
          /\ backend'[b].open = backend[b].open /\ backend'[b].said = backend[b].said
          /\ backend'[b].owner = backend[b].owner
      BY <3>1, <3>2 DEF BackendRecord
    <3>4. \A c \in Backends : c # b => backend'[c] = backend[c]
      BY <1>8, <2>1
    <3>5. backend' \in [Backends -> BackendRecord]
      BY <1>8, <2>1, <3>3, <3>4
    <3>. QED
      BY <3>3, <3>4, <3>5
  <2>3. Live(b) /\ Listed(b)' /\ \A c \in Backends : Listed(c) => Listed(c)'
    BY <1>10, <2>2 DEF Live, Listed
  <2>4. /\ backend[b].kind \in {"virtual", "tcp", "tty"}
        /\ backend[b].kind = "tty" => backend[b].key \in Ports
        /\ backend[b].kind = "virtual" => backend[b].key \in Ids
    BY <2>3, Names DEF IInv, Fields
  <2>5. /\ out' \in [Ports -> Backends \cup {None}]
        /\ \A p \in Ports : \/ out'[p] = out[p]
                            \/ out'[p] = b /\ backend[b].kind = "tty" /\ backend[b].key = p
    BY <1>0, <2>1, <2>4 DEF TypeOK
  <2>6. /\ virt' \in [Ids -> Backends \cup {None}]
        /\ \A id \in Ids : \/ virt'[id] = virt[id]
                           \/ /\ virt'[id] = b /\ backend[b].kind = "virtual"
                              /\ backend[b].key = id
    BY <1>0, <2>1, <2>4 DEF TypeOK
  <2>7. tcpIn' \in SUBSET Backends /\ \A c \in tcpIn' : c \in tcpIn \/ c = b
    BY <1>0, <2>1 DEF TypeOK
  <2>8. Typed'
    BY <1>0, <1>6, <2>2, <2>5, <2>6, <2>7 DEF TypeOK, Typed
  <2>9. \A f \in Elems(base) : Fits(f)'
    BY <1>0, <1>6, <1>7, <2>2, BaseFitsAll DEF Live
  <2>10. \A d \in Objects : Fresh(d)' => StillD(base, d)
    BY <1>1, <1>6 DEF Fresh, StillD, HoldsDevice
  <2>11. \A c \in Backends : Unowned(c)' => StillB(base, c)
    BY <1>1, <2>2 DEF Unowned, Live, StillB, HoldsBackend
  <2>12. ASSUME NEW c \in Backends, Live(c)', ~backend'[c].hooked PROVE StillL(base, c)
    <3>1. c # b
      BY <2>2, <2>12
    <3>2. Head(stack) # [op |-> "list", b |-> c]
      BY <1>3, <3>1
    <3>. QED
      BY <2>2, <2>12, <3>1, <3>2 DEF Live, StillL
  <2>13. Lasting'
    <3>1. Links'
      BY <1>0, <1>6, <2>2, LinkTypes DEF Links, Live
    <3>2. Fields'
      BY <2>2, FieldsKept DEF IInv, Live
    <3>3. Lists'
      <4>1. ASSUME NEW p \in Ports, out'[p] # None
            PROVE  Listed(out[p])' /\ backend'[out'[p]].kind = "tty" /\ backend'[out'[p]].key = p
        <5>1. CASE out'[p] = b /\ backend[b].kind = "tty" /\ backend[b].key = p
          BY <2>2, <2>3, <5>1 DEF Listed, Live
        <5>2. CASE out'[p] = out[p]
          <6>1. out[p] \in Backends
            BY <1>0, <4>1, <5>2 DEF TypeOK
          <6>. QED
            BY <2>2, <2>3, <4>1, <5>2, <6>1 DEF IInv, Lists, Listed, Live
        <5>. QED
          BY <2>5, <5>1, <5>2
      <4>2. ASSUME NEW id \in Ids, virt'[id] # None
            PROVE  /\ Listed(virt[id])' /\ backend'[virt'[id]].kind = "virtual"
                   /\ backend'[virt'[id]].key = id
        <5>1. CASE virt'[id] = b /\ backend[b].kind = "virtual" /\ backend[b].key = id
          BY <2>2, <2>3, <5>1 DEF Listed, Live
        <5>2. CASE virt'[id] = virt[id]
          <6>1. virt[id] \in Backends
            BY <1>0, <4>2, <5>2 DEF TypeOK
          <6>. QED
            BY <2>2, <2>3, <4>2, <5>2, <6>1 DEF IInv, Lists, Listed, Live
        <5>. QED
          BY <2>6, <5>1, <5>2
      <4>3. \A c \in tcpIn' : Listed(c)'
        BY <1>0, <2>3, <2>7 DEF TypeOK, IInv, Lists
      <4>. QED
        BY <4>1, <4>2, <4>3 DEF Lists, Listed, Live
    <3>4. Registry'
      BY <1>6 DEF IInv, Registry, OneDevicePerId, Known
    <3>5. Honest'
      <4>1. \A e \in Objects : device'[e].connected /\ device'[e].be # None =>
              Open(device[e].be)'
        BY <1>0, <1>6, <2>2, LinkTypes DEF IInv, Honest, Open
      <4>2. LinkIsOfItsDevice'
        BY <1>6, <2>2 DEF IInv, Honest, LinkIsOfItsDevice, Live
      <4>. QED
        BY <1>6, <4>1, <4>2 DEF IInv, Honest
    <3>. QED
      BY <3>1, <3>2, <3>3, <3>4, <3>5 DEF Lasting
  <2>. QED
    BY <1>6, <1>7, <2>8, <2>9, <2>10, <2>11, <2>12, <2>13, StepNone
<1>. QED
  BY <1>9, <1>10

LEMMA FreedInv == IInv /\ BackendFreed => IInv'
<1>. SUFFICES ASSUME IInv, BackendFreed PROVE IInv'
  OBVIOUS
<1>0. TypeOK /\ Stack /\ Links
  BY DEF IInv
<1>1. stack # <<>> /\ Head(stack).op = "freed"
  BY DEF BackendFreed, Top
<1>2. Head(stack) \in Frame /\ Fits(Head(stack)) /\ Under(Tail(stack))
  BY <1>0, <1>1, HeadIs
<1>3. PICK b \in Backends : b = Head(stack).b
  BY <1>1, <1>2, FrameIs
<1>4. backend[b].st \in {"dying", "dead"}
  BY <1>1, <1>2, <1>3 DEF Fits
<1>5. PICK base : base = Tail(stack)
  OBVIOUS
<1>6. stack' = <<>> \o base /\ UNCHANGED <<device, identified, out, tcpIn, virt>>
  BY <1>5 DEF BackendFreed, Continue
<1>7. base # stack /\ Under(base)
  BY <1>0, <1>1, <1>2, <1>5, TailIsOther DEF TypeOK
<1>8. /\ backend' \in [Backends -> BackendRecord]
      /\ \A c \in Backends : c # b => backend'[c] = backend[c]
      /\ backend'[b].st = "dead"
  <2>1. Freed \in BackendRecord /\ Freed.st = "dead"
    BY DEF Freed, BackendRecord
  <2>. QED
    BY <1>0, <1>3, <2>1 DEF BackendFreed, TypeOK
<1>9. \A c \in Backends : Live(c) \/ backend'[c].st \in {"live", "unused"} =>
        c # b /\ backend'[c] = backend[c]
  BY <1>4, <1>8 DEF Live
<1>10. Typed'
  BY <1>0, <1>6, <1>8 DEF TypeOK, Typed
<1>11. \A f \in Elems(base) : Fits(f)'
  <2>1. \A c \in Backends :
          backend[c].st \in {"dying", "dead"} => backend'[c].st \in {"dying", "dead"}
    BY <1>8
  <2>2. \A c \in Backends : Live(c) => backend'[c].st = "live"
    BY <1>9 DEF Live
  <2>. QED
    BY <1>0, <1>6, <1>7, <1>9, <2>1, <2>2, BaseFitsAll
<1>12. \A d \in Objects : Fresh(d)' => StillD(base, d)
  BY <1>1, <1>6 DEF Fresh, StillD, HoldsDevice
<1>13. \A c \in Backends : Unowned(c)' => StillB(base, c)
  BY <1>1, <1>9 DEF Unowned, Live, StillB, HoldsBackend
<1>14. \A c \in Backends : Live(c)' /\ ~backend'[c].hooked => StillL(base, c)
  BY <1>1, <1>9 DEF Live, StillL
<1>15. Lasting'
  <2>1. Links'
    BY <1>0, <1>6, <1>9, LinkTypes DEF Links, Live
  <2>2. Fields'
    BY <1>9, FieldsKept DEF IInv, Live
  <2>3. Lists'
    BY <1>0, <1>6, <1>9, ListsKept DEF IInv, Listed, Live
  <2>4. Registry'
    BY <1>6 DEF IInv, Registry, OneDevicePerId, Known
  <2>5. Honest'
    <3>1. \A e \in Objects : device'[e].connected /\ device'[e].be # None =>
            Open(device[e].be)'
      BY <1>0, <1>6, <1>9, LinkTypes DEF IInv, Honest, Open
    <3>2. LinkIsOfItsDevice'
      BY <1>6, <1>9 DEF IInv, Honest, LinkIsOfItsDevice, Live
    <3>. QED
      BY <1>6, <3>1, <3>2 DEF IInv, Honest
  <2>. QED
    BY <2>1, <2>2, <2>3, <2>4, <2>5 DEF Lasting
<1>. QED
  BY <1>6, <1>7, <1>10, <1>11, <1>12, <1>13, <1>14, <1>15, StepNone

(* The new backend takes its place, whatever has it now: the other one     *)
(* still leads to its device, and so is not lost.                          *)
LEMMA AssignInv == IInv /\ AssignBackend => IInv'
<1>. SUFFICES ASSUME IInv, AssignBackend PROVE IInv'
  OBVIOUS
<1>0. TypeOK /\ Stack /\ Links
  BY DEF IInv
<1>1. stack # <<>> /\ Head(stack).op = "assign"
  BY DEF AssignBackend, Top
<1>2. Head(stack) \in Frame /\ Fits(Head(stack)) /\ Under(Tail(stack))
  BY <1>0, <1>1, HeadIs
<1>3. PICK d \in Objects : d = Head(stack).d
  BY <1>1, <1>2, FrameIs
<1>4. PICK b \in Backends \cup {None} : b = Head(stack).b
  BY <1>1, <1>2, FrameIs
<1>5. /\ Known(d) /\ d # None
      /\ b # None => /\ b \in Backends /\ Unowned(b) /\ backend[b].id = device[d].id
                     /\ backend[b].open \in BOOLEAN
  <2>1. Known(d) /\ (b # None => Unowned(b) /\ backend[b].id = device[d].id)
    BY <1>1, <1>2, <1>3, <1>4 DEF Fits
  <2>2. b # None => b \in Backends /\ backend[b].open \in BOOLEAN
    BY <1>0, <1>4 DEF TypeOK, BackendRecord
  <2>. QED
    BY <2>1, <2>2, Names
<1>6. PICK base : base = Tail(stack)
  OBVIOUS
<1>7. PICK up \in BOOLEAN : up = (b # None /\ backend[b].open)
  BY <1>5
<1>8. /\ device' = [device EXCEPT ![d].be = b, ![d].connected = up]
      /\ backend' = IF b = None THEN backend ELSE [backend EXCEPT ![b].owner = d]
      /\ device[d].connected /\ ~up /\ b # None =>
           stack' = <<[op |-> "destroy", b |-> b],
                      [op |-> "assign", d |-> d, b |-> None]>> \o base
      /\ ~device[d].connected /\ up => stack' = <<[op |-> "describe", d |-> d]>> \o base
      /\ ~(device[d].connected /\ ~up /\ b # None) /\ ~(~device[d].connected /\ up) =>
           stack' = <<>> \o base
      /\ UNCHANGED <<identified, out, tcpIn, virt>>
  <2>1. Top("assign")
    BY DEF AssignBackend
  <2>2. /\ device' = [device EXCEPT ![d].be = b, ![d].connected = up]
        /\ backend' = IF b = None THEN backend ELSE [backend EXCEPT ![b].owner = d]
        /\ UNCHANGED <<identified, out, tcpIn, virt>>
    BY <1>3, <1>4, <1>7 DEF AssignBackend
  <2>3. stack' = (CASE device[d].connected /\ ~up /\ b # None ->
                         <<[op |-> "destroy", b |-> b],
                           [op |-> "assign", d |-> d, b |-> None]>>
                    [] ~device[d].connected /\ up -> <<[op |-> "describe", d |-> d]>>
                    [] OTHER -> <<>>) \o base
    BY <1>3, <1>4, <1>6, <1>7 DEF AssignBackend, Continue
  <2>4. device[d].connected \in BOOLEAN
    BY <1>0 DEF TypeOK, DeviceRecord
  <2>. QED
    BY <2>2, <2>3, <2>4
<1>9. /\ backend' \in [Backends -> BackendRecord]
      /\ \A c \in Backends : c # b => backend'[c] = backend[c]
      /\ b # None => backend'[b].owner = d
      /\ \A c \in Backends :
           /\ backend'[c].st = backend[c].st /\ backend'[c].kind = backend[c].kind
           /\ backend'[c].key = backend[c].key /\ backend'[c].id = backend[c].id
           /\ backend'[c].open = backend[c].open /\ backend'[c].said = backend[c].said
           /\ backend'[c].hooked = backend[c].hooked
  <2>1. backend \in [Backends -> BackendRecord]
    BY <1>0 DEF TypeOK
  <2>2. CASE b = None
    BY <1>8, <2>1, <2>2
  <2>3. CASE b # None
    <3>1. backend' = [backend EXCEPT ![b].owner = d]
      BY <1>8, <2>3
    <3>. QED
      BY <1>5, <2>1, <2>3, <3>1, OwnerSet
  <2>. QED
    BY <2>2, <2>3
<1>10. /\ device' \in [Objects -> DeviceRecord]
       /\ \A e \in Objects : e # d => device'[e] = device[e]
       /\ device'[d].be = b /\ device'[d].connected = up
       /\ \A e \in Objects :
            /\ device'[e].st = device[e].st /\ device'[e].id = device[e].id
            /\ device'[e].hooked = device[e].hooked
  <2>1. device \in [Objects -> DeviceRecord]
    BY <1>0 DEF TypeOK
  <2>2. device[d] \in DeviceRecord
    BY <2>1
  <2>3. device'[d] = [device[d] EXCEPT !.be = b, !.connected = up]
    BY <1>8, <2>1
  <2>4. /\ device'[d] \in DeviceRecord /\ device'[d].be = b /\ device'[d].connected = up
        /\ device'[d].st = device[d].st /\ device'[d].id = device[d].id
        /\ device'[d].hooked = device[d].hooked
    BY <2>2, <2>3 DEF DeviceRecord
  <2>5. \A e \in Objects : e # d => device'[e] = device[e]
    BY <1>8, <2>1
  <2>6. device' \in [Objects -> DeviceRecord]
    BY <1>8, <2>1, <2>4, <2>5
  <2>. QED
    BY <2>4, <2>5, <2>6
<1>11. base # stack /\ Under(base)
  BY <1>0, <1>1, <1>2, <1>6, TailIsOther DEF TypeOK
<1>12. Typed'
  BY <1>0, <1>8, <1>9, <1>10 DEF TypeOK, Typed
<1>13. \A f \in Elems(base) : Fits(f)'
  <2>1. PICK B \in SUBSET Backends : B = {c \in Backends : c = b}
    OBVIOUS
  <2>2. \A c \in B : MineToo(base, c)
    BY <1>1, <1>4, <1>6, <2>1 DEF MineToo, HoldsBackend
  <2>3. \A e \in Objects : device[e].st = "live" =>
          /\ device'[e].st = "live" /\ device'[e].hooked = device[e].hooked
          /\ device'[e].id = device[e].id
          /\ ~device[e].hooked => device'[e].be = device[e].be
    BY <1>5, <1>10 DEF Known
  <2>4. \A c \in Backends \ B : Live(c) =>
          backend'[c].st = "live" /\ backend'[c].owner = backend[c].owner
    BY <1>9, <2>1 DEF Live
  <2>. QED
    BY <1>0, <1>9, <1>11, <2>2, <2>3, <2>4, BaseFitsDevices
<1>14. \A e \in Objects : Fresh(e)' => StillD(base, e)
  BY <1>1, <1>10 DEF Fresh, StillD, HoldsDevice
<1>15. \A c \in Backends : Unowned(c)' => StillB(base, c)
  BY <1>4, <1>5, <1>9, Names DEF Unowned, Live, StillB, HoldsBackend
<1>16. \A c \in Backends : Live(c)' /\ ~backend'[c].hooked => StillL(base, c)
  BY <1>1, <1>9 DEF Live, StillL
<1>17. Lasting'
  <2>1. Links'
    <3>1. ASSUME NEW e \in Objects
          PROVE  /\ device'[e].be # None =>
                      /\ device'[e].st = "live" /\ backend'[device'[e].be].st = "live"
                      /\ backend'[device'[e].be].owner = e
                 /\ device'[e].hooked => device'[e].st = "live"
      <4>1. CASE e = d
        BY <1>5, <1>9, <1>10, <4>1 DEF Known, Unowned, Live
      <4>2. CASE e # d
        <5>1. device'[e] = device[e] /\ (device[e].be # None => device[e].be # b)
          BY <1>0, <1>5, <1>10, <4>2, LinkTypes, Names DEF Unowned
        <5>. QED
          BY <1>0, <1>9, <5>1, LinkTypes DEF Links, Live
      <4>. QED
        BY <4>1, <4>2
    <3>2. ASSUME NEW c \in Backends, Live(c)', backend'[c].owner # None
          PROVE  /\ device'[backend'[c].owner].st = "live"
                 /\ device'[backend'[c].owner].hooked \/ device'[backend'[c].owner].be = c
      <4>1. CASE c = b
        BY <1>5, <1>9, <1>10, <4>1, Names DEF Known
      <4>2. CASE c # b
        <5>1. backend'[c] = backend[c] /\ Live(c) /\ backend[c].owner \in Objects
          BY <1>0, <1>9, <3>2, <4>2, LinkTypes DEF Live
        <5>2. CASE backend[c].owner = d
          BY <1>5, <1>10, <5>1, <5>2 DEF Known
        <5>3. CASE backend[c].owner # d
          BY <1>0, <1>10, <3>2, <5>1, <5>3 DEF Links
        <5>. QED
          BY <5>2, <5>3
      <4>. QED
        BY <4>1, <4>2
    <3>3. ASSUME NEW c \in Backends, backend'[c].st = "unused" PROVE device'[c].st = "unused"
      BY <1>0, <1>9, <1>10, <3>3, Names DEF Links
    <3>. QED
      BY <3>1, <3>2, <3>3 DEF Links, Live
  <2>2. Fields'
    BY <1>9, FieldsKept DEF IInv, Live
  <2>3. Lists'
    BY <1>0, <1>8, <1>9, ListsKept DEF IInv, Listed, Live
  <2>4. Registry'
    BY <1>0, <1>8, <1>10, RegistryKept, LinkTypes, Names DEF IInv, Known
  <2>5. Honest'
    <3>1. ASSUME NEW e \in Objects, device'[e].connected, device'[e].be # None
          PROVE  Open(device[e].be)'
      <4>1. CASE e = d
        BY <1>5, <1>7, <1>9, <1>10, <3>1, <4>1 DEF Open
      <4>2. CASE e # d
        BY <1>0, <1>9, <1>10, <3>1, <4>2, LinkTypes DEF IInv, Honest, Open
      <4>. QED
        BY <4>1, <4>2
    <3>2. \A e \in Objects : device'[e].hooked /\ device'[e].connected =>
            device'[e].be # None
      BY <1>7, <1>10 DEF IInv, Honest
    <3>3. ASSUME NEW c \in Backends, Live(c)', backend'[c].owner # None,
                 device'[backend'[c].owner].hooked
          PROVE  backend'[c].id = device'[backend'[c].owner].id
      <4>1. CASE c = b
        BY <1>5, <1>9, <1>10, <4>1, Names
      <4>2. CASE c # b
        BY <1>0, <1>9, <1>10, <3>3, <4>2, LinkTypes DEF IInv, Honest, LinkIsOfItsDevice, Live
      <4>. QED
        BY <4>1, <4>2
    <3>4. LinkIsOfItsDevice'
      BY <3>3 DEF LinkIsOfItsDevice, Live
    <3>. QED
      BY <3>1, <3>2, <3>4 DEF Honest
  <2>. QED
    BY <2>1, <2>2, <2>3, <2>4, <2>5 DEF Lasting
<1>18. CASE /\ ~(device[d].connected /\ ~up /\ b # None)
            /\ ~(~device[d].connected /\ up)
  <2>1. stack' = <<>> \o base
    BY <1>8, <1>18
  <2>. QED
    BY <1>11, <1>12, <1>13, <1>14, <1>15, <1>16, <1>17, <2>1, StepNone
<1>19. CASE device[d].connected /\ ~up /\ b # None
  <2>1. PICK x \in Frame : x = [op |-> "destroy", b |-> b]
    BY <1>5, <1>19, FrameMade
  <2>2. PICK y \in Frame : y = [op |-> "assign", d |-> d, b |-> None]
    BY FrameMade
  <2>3. stack' = <<x, y>> \o base
    BY <1>8, <1>19, <2>1, <2>2
  <2>4. x.op = "destroy" /\ x.b = b /\ y.op = "assign" /\ y.d = d /\ y.b = None
    BY <2>1, <2>2
  <2>5. Free(x, y) /\ Deep(y)
    BY <2>4, Names DEF Free, Deep, HoldsDevice, HoldsBackend
  <2>6. \A f \in Elems(base) : Free(x, f) /\ Free(y, f)
    <3>1. /\ \A e \in Objects : ~HoldsDevice(x, e) /\ ~HoldsDevice(y, e)
          /\ \A c \in Backends : HoldsBackend(x, c) => HoldsBackend(Head(stack), c)
          /\ \A c \in Backends : ~HoldsBackend(y, c)
      BY <1>1, <1>4, <2>4, Names DEF HoldsDevice, HoldsBackend
    <3>2. \A f \in Elems(base) : Free(x, f)
      BY <1>0, <1>1, <1>6, <3>1, SameHold
    <3>3. \A f \in Elems(base) : Free(y, f)
      BY <1>0, <1>1, <1>6, <3>1, SameHold
    <3>. QED
      BY <3>2, <3>3
  <2>7. Fits(x)'
    BY <1>5, <1>9, <1>10, <1>19, <2>4 DEF Fits, Live, Unowned, Known
  <2>8. Fits(y)'
    BY <1>5, <1>10, <2>4 DEF Fits, Known
  <2>9. Reason(x.b)'
    BY <1>5, <1>7, <1>9, <1>19, <2>4 DEF Reason
  <2>. QED
    BY <1>11, <1>12, <1>13, <1>14, <1>15, <1>16, <1>17, <2>3, <2>5, <2>6, <2>7, <2>8, <2>9,
       StepTwo
<1>20. CASE ~device[d].connected /\ up
  <2>1. PICK x \in Frame : x = [op |-> "describe", d |-> d]
    BY FrameMade
  <2>2. stack' = <<x>> \o base
    BY <1>8, <1>20, <2>1
  <2>3. x.op = "describe" /\ x.d = d
    BY <2>1
  <2>4. \A f \in Elems(base) : Free(x, f)
    BY <2>3 DEF Free, HoldsDevice, HoldsBackend
  <2>5. Fits(x)'
    BY <1>5, <1>10, <2>3 DEF Fits, Known
  <2>. QED
    BY <1>11, <1>12, <1>13, <1>14, <1>15, <1>16, <1>17, <2>2, <2>3, <2>4, <2>5, StepOne
<1>. QED
  BY <1>18, <1>19, <1>20

LEMMA TwoIs ==
  ASSUME NEW x \in Frame, NEW y \in Frame
  PROVE  <<x>> \o <<y>> = <<x, y>>
<1> DEFINE s == <<x>>
           t == <<y>>
<1>1. s \in Seq(Frame) /\ Len(s) = 1 /\ s[1] = x
  OBVIOUS
<1>2. t \in Seq(Frame) /\ Len(t) = 1 /\ t[1] = y
  OBVIOUS
<1>3. <<x, y>> \in Seq(Frame) /\ Len(<<x, y>>) = 2
  OBVIOUS
<1>. HIDE DEF s, t
<1>4. s \o t \in Seq(Frame) /\ Len(s \o t) = Len(s) + Len(t)
  BY <1>1, <1>2, ConcatProperties
<1>5. (s \o t)[1] = x /\ (s \o t)[2] = y
  <2>1. \A i \in 1..(Len(s) + Len(t)) :
          (s \o t)[i] = IF i <= Len(s) THEN s[i] ELSE t[i - Len(s)]
    BY <1>1, <1>2, ConcatProperties
  <2>. QED
    BY <1>1, <1>2, <2>1
<1>6. Len(s \o t) = 2 /\ \A i \in 1..Len(s \o t) : (s \o t)[i] = <<x, y>>[i]
  BY <1>1, <1>2, <1>4, <1>5
<1>7. s \o t = <<x, y>>
  BY <1>3, <1>4, <1>6, SeqEqual
<1>. QED
  BY <1>7 DEF s, t

LEMMA DestroyInv == IInv /\ DestroyBackend => IInv'
<1>. SUFFICES ASSUME IInv, DestroyBackend PROVE IInv'
  OBVIOUS
<1>0. TypeOK /\ Stack /\ Links
  BY DEF IInv
<1>1. stack # <<>> /\ Head(stack).op = "destroy"
  BY DEF DestroyBackend, Top
<1>2. Head(stack) \in Frame /\ Fits(Head(stack)) /\ Under(Tail(stack))
  BY <1>0, <1>1, HeadIs
<1>3. PICK b \in Backends : b = Head(stack).b
  BY <1>1, <1>2, FrameIs
<1>4. PICK d \in Objects \cup {None} : d = backend[b].owner
  BY <1>0, LinkTypes
<1>5. /\ Live(b) /\ b # None
      /\ d # None => d \in Objects /\ Known(d)
  <2>1. Live(b) /\ (d # None => device[d].hooked)
    BY <1>1, <1>2, <1>3, <1>4 DEF Fits
  <2>. QED
    BY <1>0, <1>4, <2>1, LinkTypes, Names DEF Known
<1>6. PICK base : base = Tail(stack)
  OBVIOUS
<1>7. PICK tty \in BOOLEAN : tty = (backend[b].hooked /\ backend[b].kind = "tty")
  BY <1>0 DEF TypeOK, BackendRecord
<1>8. /\ backend' = [backend EXCEPT ![b].st = "dying", ![b].open = FALSE]
      /\ device' = IF d = None THEN device
                   ELSE [device EXCEPT ![d].be = None, ![d].connected = FALSE]
      /\ out' = IF tty THEN [out EXCEPT ![backend[b].key] = None] ELSE out
      /\ tcpIn' = IF backend[b].hooked THEN tcpIn \ {b} ELSE tcpIn
      /\ virt' = IF backend[b].hooked /\ backend[b].kind = "virtual"
                   THEN [virt EXCEPT ![backend[b].key] = None] ELSE virt
      /\ stack' = (IF tty THEN Check(Ports) \o <<[op |-> "freed", b |-> b]>>
                   ELSE <<[op |-> "freed", b |-> b]>>) \o base
      /\ UNCHANGED identified
  BY <1>3, <1>4, <1>6, <1>7 DEF DestroyBackend, Continue
<1>9. /\ backend' \in [Backends -> BackendRecord]
      /\ \A c \in Backends : c # b => backend'[c] = backend[c]
      /\ backend'[b].st = "dying"
      /\ \A c \in Backends : backend'[c].id = backend[c].id
  <2>1. backend \in [Backends -> BackendRecord]
    BY <1>0 DEF TypeOK
  <2>2. backend[b] \in BackendRecord
    BY <2>1
  <2>3. backend'[b] = [backend[b] EXCEPT !.st = "dying", !.open = FALSE]
    BY <1>8, <2>1
  <2>4. /\ backend'[b] \in BackendRecord /\ backend'[b].st = "dying"
        /\ backend'[b].id = backend[b].id
    BY <2>2, <2>3 DEF BackendRecord
  <2>5. \A c \in Backends : c # b => backend'[c] = backend[c]
    BY <1>8, <2>1
  <2>6. backend' \in [Backends -> BackendRecord]
    BY <1>8, <2>1, <2>4, <2>5
  <2>. QED
    BY <2>4, <2>5, <2>6
<1>10. /\ device' \in [Objects -> DeviceRecord]
       /\ \A e \in Objects : e # d => device'[e] = device[e]
       /\ d # None => device'[d].be = None /\ ~device'[d].connected
       /\ \A e \in Objects :
            /\ device'[e].st = device[e].st /\ device'[e].id = device[e].id
            /\ device'[e].hooked = device[e].hooked
  <2>1. device \in [Objects -> DeviceRecord]
    BY <1>0 DEF TypeOK
  <2>2. CASE d = None
    BY <1>8, <2>1, <2>2, Names
  <2>3. CASE d # None
    <3>0. device' = [device EXCEPT ![d].be = None, ![d].connected = FALSE]
      BY <1>8, <2>3
    <3>1. device[d] \in DeviceRecord /\ d \in Objects
      BY <1>5, <2>1, <2>3
    <3>2. device'[d] = [device[d] EXCEPT !.be = None, !.connected = FALSE]
      BY <2>1, <3>0, <3>1
    <3>3. /\ device'[d] \in DeviceRecord /\ device'[d].be = None /\ ~device'[d].connected
          /\ device'[d].st = device[d].st /\ device'[d].id = device[d].id
          /\ device'[d].hooked = device[d].hooked
      BY <3>1, <3>2 DEF DeviceRecord
    <3>4. \A e \in Objects : e # d => device'[e] = device[e]
      BY <2>1, <3>0
    <3>5. device' \in [Objects -> DeviceRecord]
      BY <2>1, <3>0, <3>3, <3>4
    <3>. QED
      BY <3>3, <3>4, <3>5
  <2>. QED
    BY <2>2, <2>3
<1>11. /\ tty => backend[b].key \in Ports
       /\ backend[b].kind = "virtual" => backend[b].key \in Ids
  BY <1>5, <1>7 DEF IInv, Fields
<1>12. /\ out' \in [Ports -> Backends \cup {None}]
       /\ \A p \in Ports : out'[p] # None =>
            out'[p] = out[p] /\ (tty => backend[b].key # p)
  BY <1>0, <1>8, <1>11 DEF TypeOK
<1>13. /\ virt' \in [Ids -> Backends \cup {None}]
       /\ \A id \in Ids : virt'[id] # None =>
            /\ virt'[id] = virt[id]
            /\ backend[b].hooked /\ backend[b].kind = "virtual" => backend[b].key # id
  BY <1>0, <1>8, <1>11 DEF TypeOK
<1>14. /\ tcpIn' \in SUBSET Backends
       /\ \A c \in tcpIn' : c \in tcpIn /\ (backend[b].hooked => c # b)
  BY <1>0, <1>8 DEF TypeOK
<1>15. base # stack /\ Under(base)
  BY <1>0, <1>1, <1>2, <1>6, TailIsOther DEF TypeOK
<1>16. Typed'
  BY <1>0, <1>8, <1>9, <1>10, <1>12, <1>13, <1>14 DEF TypeOK, Typed
<1>17. \A f \in Elems(base) : Fits(f)'
  <2>1. \A c \in {b} : MineToo(base, c)
    BY <1>1, <1>3, <1>6 DEF MineToo, HoldsBackend
  <2>2. \A e \in Objects : device[e].st = "live" =>
          /\ device'[e].st = "live" /\ device'[e].hooked = device[e].hooked
          /\ device'[e].id = device[e].id
          /\ ~device[e].hooked => device'[e].be = device[e].be
    BY <1>5, <1>10, Names DEF Known
  <2>3. \A c \in Backends \ {b} : Live(c) =>
          backend'[c].st = "live" /\ backend'[c].owner = backend[c].owner
    BY <1>9 DEF Live
  <2>4. /\ {b} \in SUBSET Backends
        /\ \A c \in Backends : Live(c) => backend'[c].id = backend[c].id
        /\ \A c \in Backends :
             backend[c].st \in {"dying", "dead"} => backend'[c].st \in {"dying", "dead"}
    BY <1>9
  <2>. QED
    BY <1>0, <1>15, <2>1, <2>2, <2>3, <2>4, BaseFitsDevices
<1>18. \A e \in Objects : Fresh(e)' => StillD(base, e)
  BY <1>1, <1>10 DEF Fresh, StillD, HoldsDevice
<1>19. \A c \in Backends : Unowned(c)' => StillB(base, c)
  BY <1>3, <1>9 DEF Unowned, Live, StillB, HoldsBackend
<1>20. \A c \in Backends : Live(c)' /\ ~backend'[c].hooked => StillL(base, c)
  BY <1>1, <1>9 DEF Live, StillL
<1>21. \A c \in Backends : backend'[c].st \in {"live", "unused"} =>
         c # b /\ backend'[c] = backend[c]
  BY <1>9
<1>22. Lasting'
  <2>1. Links'
    <3>1. ASSUME NEW e \in Objects
          PROVE  /\ device'[e].be # None =>
                      /\ device'[e].st = "live" /\ backend'[device'[e].be].st = "live"
                      /\ backend'[device'[e].be].owner = e
                 /\ device'[e].hooked => device'[e].st = "live"
      <4>1. CASE e = d
        BY <1>0, <1>10, <4>1, LinkTypes, Names
      <4>2. CASE e # d
        <5>1. device'[e] = device[e] /\ (device[e].be # None => device[e].be # b)
          BY <1>0, <1>4, <1>10, <4>2, LinkTypes
        <5>. QED
          BY <1>0, <1>9, <5>1, LinkTypes DEF Links, Live
      <4>. QED
        BY <4>1, <4>2
    <3>2. ASSUME NEW c \in Backends, Live(c)', backend'[c].owner # None
          PROVE  /\ device'[backend'[c].owner].st = "live"
                 /\ device'[backend'[c].owner].hooked \/ device'[backend'[c].owner].be = c
      <4>1. c # b /\ backend'[c] = backend[c] /\ Live(c) /\ backend[c].owner \in Objects
        BY <1>0, <1>21, <3>2, LinkTypes DEF Live
      <4>2. CASE backend[c].owner = d
        BY <1>5, <1>10, <3>2, <4>1, <4>2 DEF Known
      <4>3. CASE backend[c].owner # d
        BY <1>0, <1>10, <3>2, <4>1, <4>3 DEF Links
      <4>. QED
        BY <4>2, <4>3
    <3>3. ASSUME NEW c \in Backends, backend'[c].st = "unused" PROVE device'[c].st = "unused"
      BY <1>0, <1>10, <1>21, <3>3, Names DEF Links
    <3>. QED
      BY <3>1, <3>2, <3>3 DEF Links, Live
  <2>2. Fields'
    BY <1>21, FieldsKept DEF IInv, Live
  <2>3. Lists'
    <3>1. ASSUME NEW p \in Ports, out'[p] # None
          PROVE  Listed(out[p])' /\ backend'[out'[p]].kind = "tty" /\ backend'[out'[p]].key = p
      <4>1. /\ out'[p] = out[p] /\ out[p] \in Backends
            /\ Listed(out[p]) /\ backend[out[p]].kind = "tty" /\ backend[out[p]].key = p
        BY <1>0, <1>12, <3>1 DEF TypeOK, IInv, Lists
      <4>2. out[p] # b
        BY <1>7, <1>12, <3>1, <4>1 DEF Listed
      <4>. QED
        BY <1>9, <4>1, <4>2 DEF Listed, Live
    <3>2. ASSUME NEW id \in Ids, virt'[id] # None
          PROVE  /\ Listed(virt[id])' /\ backend'[virt'[id]].kind = "virtual"
                 /\ backend'[virt'[id]].key = id
      <4>1. /\ virt'[id] = virt[id] /\ virt[id] \in Backends
            /\ Listed(virt[id]) /\ backend[virt[id]].kind = "virtual"
            /\ backend[virt[id]].key = id
        BY <1>0, <1>13, <3>2 DEF TypeOK, IInv, Lists
      <4>2. virt[id] # b
        BY <1>13, <3>2, <4>1 DEF Listed
      <4>. QED
        BY <1>9, <4>1, <4>2 DEF Listed, Live
    <3>3. ASSUME NEW c \in tcpIn' PROVE Listed(c)'
      BY <1>0, <1>9, <1>14, <3>3 DEF TypeOK, IInv, Lists, Listed, Live
    <3>. QED
      BY <3>1, <3>2, <3>3 DEF Lists, Listed, Live
  <2>4. Registry'
    BY <1>0, <1>8, <1>10, RegistryKept, LinkTypes, Names DEF IInv, Known
  <2>5. Honest'
    <3>1. ASSUME NEW e \in Objects, device'[e].connected
          PROVE  e # d /\ device'[e] = device[e] /\ (device[e].be # None => device[e].be # b)
      BY <1>0, <1>4, <1>10, <3>1, LinkTypes, Names
    <3>2. \A e \in Objects : device'[e].connected /\ device'[e].be # None =>
            Open(device[e].be)'
      BY <1>0, <1>9, <3>1, LinkTypes DEF IInv, Honest, Open
    <3>3. \A e \in Objects : device'[e].hooked /\ device'[e].connected =>
            device'[e].be # None
      BY <3>1 DEF IInv, Honest
    <3>4. LinkIsOfItsDevice'
      BY <1>0, <1>10, <1>21, LinkTypes DEF IInv, Honest, LinkIsOfItsDevice, Live
    <3>. QED
      BY <3>2, <3>3, <3>4 DEF Honest
  <2>. QED
    BY <2>1, <2>2, <2>3, <2>4, <2>5 DEF Lasting
<1>23. PICK y \in Frame : y = [op |-> "freed", b |-> b]
  BY FrameMade
<1>24. y.op = "freed" /\ y.b = b
  BY <1>23
<1>25. Fits(y)'
  BY <1>9, <1>24 DEF Fits
<1>26. CASE stack' = <<y>> \o base
  BY <1>15, <1>16, <1>17, <1>18, <1>19, <1>20, <1>22, <1>24, <1>25, <1>26, FreeOps, StepOne
<1>27. CASE tty /\ Check(Ports) # <<>>
  <2>1. PICK x \in Frame : x = [op |-> "check", ports |-> Ports]
    BY FrameMade
  <2>2. x.op = "check"
    BY <2>1
  <2>3. Check(Ports) = <<x>>
    BY <1>27, <2>1 DEF Check
  <2>4. <<x>> \o <<y>> = <<x, y>>
    BY TwoIs
  <2>5. stack' = <<x, y>> \o base
    BY <1>8, <1>23, <1>27, <2>3, <2>4
  <2>6. Fits(x)' /\ Deep(y)
    BY <1>24, <2>2 DEF Fits, Deep
  <2>7. Free(x, y) /\ \A f \in Elems(base) : Free(x, f) /\ Free(y, f)
    BY <1>24, <2>2, FreeOps
  <2>. QED
    BY <1>15, <1>16, <1>17, <1>18, <1>19, <1>20, <1>22, <1>25, <2>2, <2>5, <2>6, <2>7, StepTwo
<1>28. CASE tty /\ Check(Ports) = <<>>
  <2>1. <<>> \o <<y>> = <<y>>
    OBVIOUS
  <2>2. stack' = <<y>> \o base
    BY <1>8, <1>23, <1>28, <2>1
  <2>. QED
    BY <1>26, <2>2
<1>29. CASE ~tty
  BY <1>8, <1>23, <1>26, <1>29
<1>. QED
  BY <1>27, <1>28, <1>29

LEMMA DeviceByIdInv ==
  ASSUME IInv, NEW id \in Ids, DeviceById(id)
  PROVE  IInv'
<1>0. TypeOK /\ Stack /\ Links
  BY DEF IInv
<1>1. /\ identified[id] = None /\ stack' = <<>> \o stack /\ Under(stack)
      /\ identified' = [identified EXCEPT ![id] = id]
      /\ UNCHANGED <<backend, out, tcpIn, virt>>
  BY DEF DeviceById, Handle, Under
<1>2. device[id].st = "unused" /\ id \in Objects /\ id # None /\ id \notin Backends
  BY <1>1, Names DEF IInv, Registry
<1>3. /\ device' \in [Objects -> DeviceRecord]
      /\ \A e \in Objects : e # id => device'[e] = device[e]
      /\ device'[id].st = "live" /\ device'[id].id = id /\ device'[id].be = None
      /\ device'[id].connected = FALSE /\ device'[id].hooked = TRUE
  BY <1>0, <1>2 DEF DeviceById, TypeOK, DeviceRecord
<1>4. \A e \in Objects : device[e].st = "live" => e # id /\ device'[e] = device[e]
  BY <1>2, <1>3
<1>5. /\ identified' \in [Ids -> Objects \cup {None}]
      /\ identified'[id] = id
      /\ \A i \in Ids : i # id => identified'[i] = identified[i]
  BY <1>0, <1>1, <1>2 DEF TypeOK
<1>6. Typed'
  BY <1>0, <1>1, <1>3, <1>5 DEF TypeOK, Typed
<1>7. \A f \in Elems(stack) : Fits(f)'
  <2>1. \A b \in Backends : Live(b) => backend'[b].st = "live"
    BY <1>1 DEF Live
  <2>. QED
    BY <1>0, <1>1, <1>4, <2>1, BaseFitsAll
<1>8. \A e \in Objects : Fresh(e)' => StillD(stack, e)
  BY <1>3 DEF Fresh, StillD
<1>9. \A b \in Backends : Unowned(b)' => StillB(stack, b)
  BY <1>1 DEF Unowned, Live, StillB
<1>10. \A b \in Backends : Live(b)' /\ ~backend'[b].hooked => StillL(stack, b)
  BY <1>1 DEF Live, StillL
<1>11. Lasting'
  <2>1. Links'
    <3>1. \A e \in Objects :
            /\ device'[e].be # None =>
                 /\ device'[e].st = "live" /\ backend[device'[e].be].st = "live"
                 /\ backend[device'[e].be].owner = e
            /\ device'[e].hooked => device'[e].st = "live"
      BY <1>0, <1>3, LinkTypes DEF Links, Live
    <3>2. \A b \in Backends :
            Live(b) /\ backend[b].owner # None =>
              /\ device'[backend[b].owner].st = "live"
              /\ device'[backend[b].owner].hooked \/ device'[backend[b].owner].be = b
      BY <1>0, <1>4, LinkTypes DEF Links
    <3>3. \A b \in Backends : backend[b].st = "unused" => device'[b].st = "unused"
      BY <1>0, <1>2, <1>3, Names DEF Links
    <3>. QED
      BY <1>1, <3>1, <3>2, <3>3 DEF Links, Live
  <2>2. Fields'
    BY <1>1 DEF IInv, Fields, Live
  <2>3. Lists'
    BY <1>1 DEF IInv, Lists, Listed, Live
  <2>4. Registry'
    <3>1. ASSUME NEW e \in Objects, device'[e].hooked
          PROVE  device'[e].id # None /\ identified'[device'[e].id] = e
      <4>1. CASE e = id
        BY <1>2, <1>3, <1>5, <4>1
      <4>2. CASE e # id
        <5>1. device[e].hooked /\ device'[e] = device[e]
          BY <1>3, <3>1, <4>2
        <5>2. device[e].id # None /\ identified[device[e].id] = e
          BY <5>1 DEF IInv, Registry, OneDevicePerId
        <5>3. device[e].id \in Ids
          BY <1>0, <5>2 DEF TypeOK, DeviceRecord
        <5>4. device[e].id # id
          BY <1>1, <5>2, Names
        <5>. QED
          BY <1>5, <5>1, <5>2, <5>3, <5>4
      <4>. QED
        BY <4>1, <4>2
    <3>2. ASSUME NEW i \in Ids
          PROVE  /\ identified'[i] = None => device'[i].st = "unused"
                 /\ identified'[i] # None => Known(identified[i])' /\ device'[identified'[i]].id = i
      <4>1. CASE i = id
        BY <1>2, <1>3, <1>5, <4>1 DEF Known
      <4>2. CASE i # id
        <5>1. identified'[i] = identified[i] /\ identified[i] \in Objects \cup {None}
          BY <1>0, <1>5, <4>2 DEF TypeOK
        <5>2. identified[i] # None => Known(identified[i]) /\ device[identified[i]].id = i
          BY DEF IInv, Registry
        <5>3. identified[i] = None => device[i].st = "unused"
          BY DEF IInv, Registry
        <5>. QED
          BY <1>3, <1>4, <4>2, <5>1, <5>2, <5>3, Names DEF Known
      <4>. QED
        BY <4>1, <4>2
    <3>. QED
      BY <3>1, <3>2 DEF Registry, OneDevicePerId, Known
  <2>5. Honest'
    <3>1. /\ \A e \in Objects : device'[e].connected /\ device'[e].be # None =>
               Open(device[e].be)'
          /\ \A e \in Objects : device'[e].hooked /\ device'[e].connected =>
               device'[e].be # None
      BY <1>1, <1>3 DEF IInv, Honest, Open
    <3>2. ASSUME NEW b \in Backends, Live(b), backend[b].owner # None,
                 device'[backend[b].owner].hooked
          PROVE  backend[b].id = device'[backend[b].owner].id
      <4>1. device'[backend[b].owner] = device[backend[b].owner]
        BY <1>0, <1>4, <3>2, LinkTypes DEF Links
      <4>. QED
        BY <3>2, <4>1 DEF IInv, Honest, LinkIsOfItsDevice
    <3>3. LinkIsOfItsDevice'
      BY <1>1, <3>2 DEF LinkIsOfItsDevice, Live
    <3>. QED
      BY <3>1, <3>3 DEF Honest
  <2>. QED
    BY <2>1, <2>2, <2>3, <2>4, <2>5 DEF Lasting
<1>. QED
  BY <1>1, <1>6, <1>7, <1>8, <1>9, <1>10, <1>11, StepNone

LEMMA FrameSet ==
  ASSUME NEW f \in Frame, f.op = "identify", NEW res \in Ids
  PROVE  /\ [f EXCEPT !.res = res] \in Frame
         /\ [f EXCEPT !.res = res].op = "identify"
         /\ [f EXCEPT !.res = res].d = f.d
         /\ [f EXCEPT !.res = res].res = res
<1>1. f \in [op : {"identify"}, d : Objects, res : Ids \cup {None}]
  BY DEF Frame
<1>2. /\ [f EXCEPT !.res = res] \in [op : {"identify"}, d : Objects, res : Ids \cup {None}]
      /\ [f EXCEPT !.res = res].op = "identify"
      /\ [f EXCEPT !.res = res].d = f.d
      /\ [f EXCEPT !.res = res].res = res
  BY <1>1
<1>. QED
  BY <1>2 DEF Frame

LEMMA DeviceInfoInv ==
  ASSUME IInv, NEW i \in 1..Len(stack), DeviceInfo(i)
  PROVE  IInv'
<1>0. TypeOK /\ Stack /\ Links /\ stack \in Seq(Frame)
  BY DEF IInv, TypeOK
<1>1. /\ Waiting /\ stack[i].op = "identify" /\ stack[i].res = None
      /\ UNCHANGED <<backend, device, identified, out, tcpIn, virt>>
  BY DEF DeviceInfo
<1>2. stack[i] \in Frame /\ Fits(stack[i])
  BY <1>0, ElementOfSeq DEF Stack, Elems
<1>3. PICK d \in Objects : d = stack[i].d
  BY <1>1, <1>2, FrameIs
<1>4. Fresh(d) /\ device[d].be # None
  BY <1>1, <1>2, <1>3 DEF Fits
<1>5. backend[device[d].be].id \in Ids
  BY <1>0, <1>4, LinkTypes DEF IInv, Fields
<1>6. PICK res \in Ids : res = backend[device[d].be].id
  BY <1>5
<1>7. PICK x \in Frame : x = [stack[i] EXCEPT !.res = res]
  BY <1>1, <1>2, FrameSet
<1>8. x.op = "identify" /\ x.d = d /\ x.res = res
  BY <1>1, <1>2, <1>3, <1>7, FrameSet
<1>9. stack' = [stack EXCEPT ![i] = x]
  BY <1>3, <1>6, <1>7 DEF DeviceInfo
<1>10. PICK t : t = stack'
  OBVIOUS
<1>11. /\ t \in Seq(Frame) /\ Len(t) = Len(stack)
       /\ \A j \in 1..Len(stack) : t[j] = IF j = i THEN x ELSE stack[j]
  BY <1>0, <1>9, <1>10, ExceptSeq
<1>12. /\ \A e : HoldsDevice(x, e) <=> HoldsDevice(stack[i], e)
       /\ \A b : HoldsBackend(x, b) <=> HoldsBackend(stack[i], b)
  BY <1>1, <1>3, <1>8 DEF HoldsDevice, HoldsBackend
<1>13. ASSUME NEW j \in 1..Len(stack)
       PROVE  /\ \A e : HoldsDevice(t[j], e) <=> HoldsDevice(stack[j], e)
              /\ \A b : HoldsBackend(t[j], b) <=> HoldsBackend(stack[j], b)
  BY <1>11, <1>12
<1>14. Elems(stack)' = {t[j] : j \in 1..Len(stack)}
  BY <1>10, <1>11 DEF Elems
<1>15. Stack'
  <2>1. \A f : Fits(f) => Fits(f)'
    BY <1>1 DEF Fits, Unowned, Live, Known, Fresh
  <2>2. Fits(x)'
    BY <1>1, <1>4, <1>6, <1>8 DEF Fits, Fresh
  <2>3. \A f \in Elems(stack)' : f = x \/ f \in Elems(stack)
    BY <1>11, <1>14 DEF Elems
  <2>4. \A f \in Elems(stack)' : Fits(f)'
    BY <1>0, <2>1, <2>2, <2>3 DEF Stack
  <2>5. Apart(t)
    <3>. SUFFICES ASSUME NEW j \in 1..Len(t), NEW k \in 1..Len(t), j # k
                  PROVE  Free(t[j], t[k])
      BY DEF Apart
    <3>1. Free(stack[j], stack[k])
      BY <1>0, <1>11 DEF Stack, Apart
    <3>. QED
      BY <1>11, <1>13, <3>1 DEF Free
  <2>6. \A j \in 2..Len(t) : Deep(t[j])
    BY <1>0, <1>8, <1>11 DEF Stack, Deep
  <2>. QED
    BY <1>10, <2>4, <2>5, <2>6 DEF Stack
<1>16. Pending'
  <2>1. ASSUME NEW e \in Objects, Fresh(e)' PROVE \E f \in Elems(stack)' : HoldsDevice(f, e)
    <3>1. Fresh(e)
      BY <1>1, <2>1 DEF Fresh
    <3>2. PICK j \in 1..Len(stack) : HoldsDevice(stack[j], e)
      BY <3>1 DEF IInv, Pending, Elems
    <3>. QED
      BY <1>13, <1>14, <3>2
  <2>2. ASSUME NEW b \in Backends, Unowned(b)' PROVE \E f \in Elems(stack)' : HoldsBackend(f, b)
    <3>1. Unowned(b)
      BY <1>1, <2>2 DEF Unowned, Live
    <3>2. PICK j \in 1..Len(stack) : HoldsBackend(stack[j], b)
      BY <3>1 DEF IInv, Pending, Elems
    <3>. QED
      BY <1>13, <1>14, <3>2
  <2>3. ASSUME NEW b \in Backends, Live(b)', ~backend'[b].hooked
        PROVE  [op |-> "list", b |-> b] \in Elems(stack)'
    <3>1. Live(b) /\ ~backend[b].hooked
      BY <1>1, <2>3 DEF Live
    <3>2. PICK j \in 1..Len(stack) : stack[j] = [op |-> "list", b |-> b]
      BY <3>1 DEF IInv, Pending, Elems
    <3>3. j # i
      BY <1>1, <3>2
    <3>. QED
      BY <1>11, <1>14, <3>2, <3>3
  <2>. QED
    BY <2>1, <2>2, <2>3 DEF Pending, HoldsDevice, HoldsBackend
<1>17. Destroying'
  <2>1. stack # <<>> /\ Head(stack) = stack[1] /\ 1 \in 1..Len(stack)
    BY <1>0, HeadTailProperties, EmptySeq, LenProperties
  <2>2. Head(stack).op # "destroy"
    BY <1>1, <2>1 DEF Waiting
  <2>3. t # <<>> /\ Head(t) = t[1]
    BY <1>11, <2>1, HeadTailProperties, EmptySeq, LenProperties
  <2>4. Head(t).op # "destroy"
    BY <1>8, <1>11, <2>1, <2>2, <2>3
  <2>. QED
    BY <1>10, <2>4 DEF Destroying, Top
<1>18. TypeOK'
  BY <1>1, <1>10, <1>11 DEF IInv, TypeOK
<1>19. Lasting'
  BY <1>1, LastingKept DEF IInv, Lasting
<1>. QED
  BY <1>15, <1>16, <1>17, <1>18, <1>19 DEF IInv, Lasting

LEMMA Closing ==
  ASSUME TypeOK, NEW b \in Backends,
         \/ backend' = [backend EXCEPT ![b].open = FALSE]
         \/ backend' = [backend EXCEPT ![b].open = FALSE, ![b].said = TRUE]
  PROVE  /\ backend' \in [Backends -> BackendRecord]
         /\ \A c \in Backends : c # b => backend'[c] = backend[c]
         /\ ~backend'[b].open
         /\ \A c \in Backends :
              /\ backend'[c].st = backend[c].st /\ backend'[c].kind = backend[c].kind
              /\ backend'[c].key = backend[c].key /\ backend'[c].id = backend[c].id
              /\ backend'[c].owner = backend[c].owner
              /\ backend'[c].hooked = backend[c].hooked
              /\ backend'[c].open => backend[c].open /\ backend'[c].said = backend[c].said
         /\ backend' = [backend EXCEPT ![b].open = FALSE] =>
              backend'[b].said = backend[b].said
<1>1. backend \in [Backends -> BackendRecord]
  BY DEF TypeOK
<1>2. backend[b] \in BackendRecord
  BY <1>1
<1>3. \A c \in Backends : c # b => backend'[c] = backend[c]
  BY <1>1
<1>4. CASE backend' = [backend EXCEPT ![b].open = FALSE]
  <2>1. backend'[b] = [backend[b] EXCEPT !.open = FALSE]
    BY <1>1, <1>4
  <2>2. /\ backend'[b] \in BackendRecord /\ ~backend'[b].open
        /\ backend'[b].st = backend[b].st /\ backend'[b].kind = backend[b].kind
        /\ backend'[b].key = backend[b].key /\ backend'[b].id = backend[b].id
        /\ backend'[b].owner = backend[b].owner /\ backend'[b].hooked = backend[b].hooked
        /\ backend'[b].said = backend[b].said
    BY <1>2, <2>1 DEF BackendRecord
  <2>3. backend' \in [Backends -> BackendRecord]
    BY <1>1, <1>3, <1>4, <2>2
  <2>. QED
    BY <1>3, <2>2, <2>3
<1>5. CASE backend' = [backend EXCEPT ![b].open = FALSE, ![b].said = TRUE]
  <2>1. backend'[b] = [backend[b] EXCEPT !.open = FALSE, !.said = TRUE]
    BY <1>1, <1>5
  <2>2. /\ backend'[b] \in BackendRecord /\ ~backend'[b].open
        /\ backend'[b].st = backend[b].st /\ backend'[b].kind = backend[b].kind
        /\ backend'[b].key = backend[b].key /\ backend'[b].id = backend[b].id
        /\ backend'[b].owner = backend[b].owner /\ backend'[b].hooked = backend[b].hooked
        /\ backend'[b].said = TRUE
    BY <1>2, <2>1 DEF BackendRecord
  <2>3. backend' \in [Backends -> BackendRecord]
    BY <1>1, <1>3, <1>5, <2>2
  <2>4. backend' = [backend EXCEPT ![b].open = FALSE] => backend'[b].said = backend[b].said
    <3>. SUFFICES ASSUME backend' = [backend EXCEPT ![b].open = FALSE]
                  PROVE  backend'[b].said = backend[b].said
      OBVIOUS
    <3>1. backend'[b] = [backend[b] EXCEPT !.open = FALSE]
      BY <1>1
    <3>. QED
      BY <1>2, <3>1 DEF BackendRecord
  <2>. QED
    BY <1>3, <2>2, <2>3, <2>4
<1>. QED
  BY <1>4, <1>5

LEMMA LostInv ==
  ASSUME IInv, NEW b \in Backends, ConnectionLost(b)
  PROVE  IInv'
<1>0. TypeOK /\ Stack /\ Links
  BY DEF IInv
<1>1. /\ Waiting /\ Live(b) /\ backend[b].kind = "tcp" /\ backend[b].open
      /\ backend' = [backend EXCEPT ![b].open = FALSE]
      /\ UNCHANGED <<device, identified, out, tcpIn, virt, stack>>
  BY DEF ConnectionLost, Live
<1>2. /\ backend' \in [Backends -> BackendRecord]
      /\ \A c \in Backends :
           /\ backend'[c].st = backend[c].st /\ backend'[c].kind = backend[c].kind
           /\ backend'[c].key = backend[c].key /\ backend'[c].id = backend[c].id
           /\ backend'[c].said = backend[c].said
           /\ backend'[c].owner = backend[c].owner /\ backend'[c].hooked = backend[c].hooked
           /\ backend'[c].open => backend[c].open
      /\ \A c \in Backends : c # b => backend'[c] = backend[c]
  <2>1. /\ backend' \in [Backends -> BackendRecord]
        /\ \A c \in Backends : c # b => backend'[c] = backend[c]
        /\ backend'[b].said = backend[b].said
        /\ \A c \in Backends :
             /\ backend'[c].st = backend[c].st /\ backend'[c].kind = backend[c].kind
             /\ backend'[c].key = backend[c].key /\ backend'[c].id = backend[c].id
             /\ backend'[c].owner = backend[c].owner
             /\ backend'[c].hooked = backend[c].hooked
             /\ backend'[c].open => backend[c].open
    BY <1>0, <1>1, Closing
  <2>. QED
    BY <2>1
<1>3. ~backend[b].said
  BY <1>1 DEF IInv, Fields
<1>4. Under(stack) /\ stack' = <<>> \o stack
  <2>1. stack \in Seq(Frame)
    BY <1>0 DEF TypeOK
  <2>. QED
    BY <1>1, <2>1, ConcatEmptySeq DEF Under
<1>5. Typed'
  BY <1>0, <1>1, <1>2 DEF TypeOK, Typed
<1>6. \A f \in Elems(stack) : Fits(f)'
  BY <1>0, <1>1, <1>2, <1>4, BaseFitsAll DEF Live
<1>7. /\ \A d \in Objects : Fresh(d)' => StillD(stack, d)
      /\ \A c \in Backends : Unowned(c)' => StillB(stack, c)
      /\ \A c \in Backends : Live(c)' /\ ~backend'[c].hooked => StillL(stack, c)
  BY <1>1, <1>2 DEF Fresh, Unowned, Live, StillD, StillB, StillL
<1>8. Lasting'
  <2>1. Links'
    BY <1>0, <1>1, <1>2, LinkTypes DEF Links, Live
  <2>2. Fields'
    BY <1>2, FieldsKept DEF IInv, Live
  <2>3. Lists'
    BY <1>0, <1>1, <1>2, ListsKept DEF IInv, Listed, Live
  <2>4. Registry'
    BY <1>1 DEF IInv, Registry, OneDevicePerId, Known
  <2>5. Honest'
    <3>1. \A c \in Backends : Open(c) => Open(c)'
      BY <1>1, <1>2, <1>3 DEF Open
    <3>2. \A e \in Objects : device'[e].connected /\ device'[e].be # None =>
            Open(device[e].be)'
      BY <1>0, <1>1, <3>1, LinkTypes DEF IInv, Honest, Open
    <3>3. LinkIsOfItsDevice'
      BY <1>1, <1>2 DEF IInv, Honest, LinkIsOfItsDevice, Live
    <3>. QED
      BY <1>1, <3>2, <3>3 DEF IInv, Honest
  <2>. QED
    BY <2>1, <2>2, <2>3, <2>4, <2>5 DEF Lasting
<1>. QED
  BY <1>4, <1>5, <1>6, <1>7, <1>8, StepNone

(* A backend closes, and its device goes offline: it drops the backend     *)
(* that it has now, which is this one or another of its own.               *)
LEMMA OfflineInv ==
  ASSUME IInv, NEW d \in Objects \cup {None}, NEW b \in Backends, Live(b),
         backend[b].owner = d, Waiting,
         \/ backend' = [backend EXCEPT ![b].open = FALSE]
         \/ backend' = [backend EXCEPT ![b].open = FALSE, ![b].said = TRUE],
         device' = IF d = None THEN device ELSE Offline(d),
         stack' = (IF d = None THEN <<>> ELSE Dropping(d)) \o stack,
         UNCHANGED <<identified, out, tcpIn, virt>>
  PROVE  IInv'
<1>0. TypeOK /\ Stack /\ Links
  BY DEF IInv
<1>1. /\ backend' \in [Backends -> BackendRecord]
      /\ \A c \in Backends : c # b => backend'[c] = backend[c]
      /\ ~backend'[b].open
      /\ \A c \in Backends :
           /\ backend'[c].st = backend[c].st /\ backend'[c].kind = backend[c].kind
           /\ backend'[c].key = backend[c].key /\ backend'[c].id = backend[c].id
           /\ backend'[c].owner = backend[c].owner /\ backend'[c].hooked = backend[c].hooked
           /\ backend'[c].open => backend[c].open /\ backend'[c].said = backend[c].said
  BY <1>0, Closing
<1>2. /\ device' \in [Objects -> DeviceRecord]
      /\ \A e \in Objects : e # d => device'[e] = device[e]
      /\ d # None => ~device'[d].connected
      /\ \A e \in Objects :
           /\ device'[e].st = device[e].st /\ device'[e].id = device[e].id
           /\ device'[e].hooked = device[e].hooked /\ device'[e].be = device[e].be
  <2>1. device \in [Objects -> DeviceRecord]
    BY <1>0 DEF TypeOK
  <2>2. CASE d = None
    BY <2>1, <2>2, Names
  <2>3. CASE d # None
    <3>0. device' = [device EXCEPT ![d].connected = FALSE]
      BY <2>3 DEF Offline
    <3>1. device[d] \in DeviceRecord /\ d \in Objects
      BY <2>1, <2>3
    <3>2. device'[d] = [device[d] EXCEPT !.connected = FALSE]
      BY <2>1, <3>0, <3>1
    <3>3. /\ device'[d] \in DeviceRecord /\ ~device'[d].connected
          /\ device'[d].st = device[d].st /\ device'[d].id = device[d].id
          /\ device'[d].hooked = device[d].hooked /\ device'[d].be = device[d].be
      BY <3>1, <3>2 DEF DeviceRecord
    <3>4. \A e \in Objects : e # d => device'[e] = device[e]
      BY <2>1, <3>0
    <3>5. device' \in [Objects -> DeviceRecord]
      BY <2>1, <3>0, <3>3, <3>4
    <3>. QED
      BY <3>3, <3>4, <3>5
  <2>. QED
    BY <2>2, <2>3
<1>3. Under(stack)
  BY DEF Under
<1>4. Typed'
  BY <1>0, <1>1, <1>2 DEF TypeOK, Typed
<1>5. \A f \in Elems(stack) : Fits(f)'
  BY <1>0, <1>1, <1>2, <1>3, BaseFitsAll DEF Live
<1>6. \A e \in Objects : Fresh(e)' => StillD(stack, e)
  BY <1>2 DEF Fresh, StillD
<1>7. \A c \in Backends : Unowned(c)' => StillB(stack, c)
  BY <1>1 DEF Unowned, Live, StillB
<1>8. \A c \in Backends : Live(c)' /\ ~backend'[c].hooked => StillL(stack, c)
  BY <1>1 DEF Live, StillL
<1>9. Lasting'
  <2>1. Links'
    BY <1>0, <1>1, <1>2, LinkTypes, Names DEF Links, Live
  <2>2. Fields'
    BY <1>1, FieldsKept DEF IInv, Live
  <2>3. Lists'
    BY <1>0, <1>1, ListsKept DEF IInv, Listed, Live
  <2>4. Registry'
    BY <1>0, <1>2, RegistryKept, LinkTypes, Names DEF IInv, Known
  <2>5. Honest'
    <3>1. ASSUME NEW e \in Objects, device'[e].connected
          PROVE  device'[e] = device[e] /\ (device[e].be # None => device[e].be # b)
      BY <1>0, <1>2, <3>1, LinkTypes, Names
    <3>2. \A e \in Objects : device'[e].connected /\ device'[e].be # None =>
            Open(device[e].be)'
      BY <1>0, <1>1, <3>1, LinkTypes DEF IInv, Honest, Open
    <3>3. \A e \in Objects : device'[e].hooked /\ device'[e].connected =>
            device'[e].be # None
      BY <3>1 DEF IInv, Honest
    <3>4. LinkIsOfItsDevice'
      BY <1>0, <1>1, <1>2, LinkTypes DEF IInv, Honest, LinkIsOfItsDevice, Live
    <3>. QED
      BY <3>2, <3>3, <3>4 DEF Honest
  <2>. QED
    BY <2>1, <2>2, <2>3, <2>4, <2>5 DEF Lasting
<1>10. CASE stack' = <<>> \o stack
  BY <1>3, <1>4, <1>5, <1>6, <1>7, <1>8, <1>9, <1>10, StepNone
<1>11. CASE d # None /\ device[d].connected /\ device[d].hooked /\ device[d].be # None
  <2>1. PICK c \in Backends : c = device[d].be
    BY <1>0, <1>11, LinkTypes
  <2>2. Live(c) /\ backend[c].owner = d /\ c # None /\ d \in Objects /\ Known(d)
    BY <1>0, <1>11, <2>1, LinkTypes DEF Known
  <2>3. PICK x \in Frame : x = [op |-> "destroy", b |-> c]
    BY FrameMade
  <2>4. PICK y \in Frame : y = [op |-> "assign", d |-> d, b |-> None]
    BY <2>2, FrameMade
  <2>5. stack' = <<x, y>> \o stack
    BY <1>11, <2>1, <2>3, <2>4 DEF Dropping
  <2>6. x.op = "destroy" /\ x.b = c /\ y.op = "assign" /\ y.d = d /\ y.b = None
    BY <2>3, <2>4
  <2>7. Free(x, y) /\ Deep(y)
    BY <2>6, Names DEF Free, Deep, HoldsDevice, HoldsBackend
  <2>8. \A f \in Elems(stack) : Free(x, f) /\ Free(y, f)
    <3>1. /\ \A e \in Objects : ~HoldsDevice(x, e) /\ ~HoldsDevice(y, e)
          /\ \A a \in Backends : HoldsBackend(x, a) => a = c
          /\ \A a \in Backends : ~HoldsBackend(y, a)
      BY <2>6, Names DEF HoldsDevice, HoldsBackend
    <3>2. \A f \in Elems(stack) : ~HoldsBackend(f, c)
      BY <1>0, <1>3, <1>11, <2>2, BelowIsUnowned DEF Unowned
    <3>. QED
      BY <3>1, <3>2 DEF Free
  <2>9. Fits(x)'
    BY <1>1, <1>2, <2>2, <2>6 DEF Fits, Live, Known
  <2>10. Fits(y)'
    BY <1>2, <2>2, <2>6 DEF Fits, Known
  <2>11. Reason(x.b)'
    <3>1. CASE c = b
      BY <1>1, <2>6, <3>1 DEF Reason
    <3>2. CASE c # b
      BY <1>1, <2>2, <2>6, <3>2 DEF Reason, Live
    <3>. QED
      BY <3>1, <3>2
  <2>. QED
    BY <1>3, <1>4, <1>5, <1>6, <1>7, <1>8, <1>9, <2>5, <2>6, <2>7, <2>8, <2>9, <2>10,
       <2>11, StepTwo
<1>12. CASE ~(d # None /\ device[d].connected /\ device[d].hooked /\ device[d].be # None)
  BY <1>10, <1>12 DEF Dropping
<1>. QED
  BY <1>11, <1>12

LEMMA DisconnectedInv ==
  ASSUME IInv, NEW b \in Backends, BackendDisconnected(b)
  PROVE  IInv'
<1>1. PICK d \in Objects \cup {None} : d = backend[b].owner
  BY LinkTypes DEF IInv
<1>2. /\ Live(b)
      /\ backend' = [backend EXCEPT ![b].open = FALSE, ![b].said = TRUE]
      /\ UNCHANGED <<identified, out, tcpIn, virt>>
  BY DEF BackendDisconnected, Live
<1>3. CASE d = None
  BY <1>1, <1>2, <1>3, OfflineInv DEF BackendDisconnected, Handle
<1>4. CASE d # None
  BY <1>1, <1>2, <1>4, OfflineInv DEF BackendDisconnected, Handle
<1>. QED
  BY <1>3, <1>4

LEMMA SyncFailedInv ==
  ASSUME IInv, NEW d \in Objects, SyncFailed(d)
  PROVE  IInv'
<1>1. device[d].be # None /\ d # None
  BY Names DEF SyncFailed
<1>2. PICK b \in Backends : b = device[d].be
  BY <1>1, LinkTypes DEF IInv
<1>3. Live(b) /\ backend[b].owner = d
  BY <1>1, <1>2, LinkTypes DEF IInv
<1>4. /\ Waiting
      /\ backend' = [backend EXCEPT ![b].open = FALSE]
      /\ device' = Offline(d)
      /\ stack' = Dropping(d) \o stack
      /\ UNCHANGED <<identified, out, tcpIn, virt>>
  BY <1>2 DEF SyncFailed, Handle
<1>. QED
  BY <1>1, <1>3, <1>4, OfflineInv

LEMMA StutterInv == IInv /\ UNCHANGED vars => IInv'
<1>. SUFFICES ASSUME IInv, UNCHANGED vars PROVE IInv'
  OBVIOUS
<1>1. UNCHANGED <<backend, device, identified, out, tcpIn, virt>> /\ UNCHANGED stack
  BY DEF vars
<1>2. Lasting'
  BY <1>1, LastingKept DEF IInv, Lasting
<1>3. TypeOK'
  BY <1>1 DEF IInv, TypeOK
<1>4. Stack'
  <2>1. \A f : Fits(f) => Fits(f)'
    BY <1>1 DEF Fits, Unowned, Live, Known, Fresh
  <2>. QED
    BY <1>1, <2>1 DEF IInv, Stack, Elems
<1>5. Pending'
  BY <1>1 DEF IInv, Pending, Fresh, Unowned, Live, Elems
<1>6. Destroying'
  BY <1>1 DEF IInv, Destroying, Top, Reason, Replaced, Priority, Live
<1>. QED
  BY <1>2, <1>3, <1>4, <1>5, <1>6 DEF IInv, Lasting
-----------------------------------------------------------------------------
(***************************************************************************)
(* The invariant, and what follows from it.                                *)
(***************************************************************************)
LEMMA CheckPortInv == IInv /\ CheckPort => IInv'
<1>. SUFFICES ASSUME IInv, CheckPort PROVE IInv'
  OBVIOUS
<1>0. TypeOK /\ Stack
  BY DEF IInv
<1>1. stack # <<>> /\ Head(stack).op = "check" /\ Top("check")
  BY DEF CheckPort, Top
<1>2. Head(stack) \in Frame /\ Under(Tail(stack))
  BY <1>0, <1>1, HeadIs
<1>3. PICK ports \in SUBSET Ports : ports = Head(stack).ports
  BY <1>1, <1>2, FrameIs
<1>4. PICK p \in ports :
        \/ Continue(Check(ports \ {p})) /\ UNCHANGED backend
        \/ /\ out[p] = None /\ Unused # {}
           /\ \E id \in Ids, open \in BOOLEAN : Create("tty", p, id, open)
           /\ Continue(AddAndList(NewBackend) \o Check(ports \ {p}))
  BY <1>3 DEF CheckPort
<1>5. UNCHANGED <<device, identified, out, tcpIn, virt>>
  BY DEF CheckPort
<1>6. CASE Continue(Check(ports \ {p})) /\ UNCHANGED backend
  BY <1>1, <1>3, <1>5, <1>6, MoveOnInv
<1>7. CASE /\ Unused # {}
           /\ \E id \in Ids, open \in BOOLEAN : Create("tty", p, id, open)
           /\ Continue(AddAndList(NewBackend) \o Check(ports \ {p}))
  <2>1. PICK id \in Ids, open \in BOOLEAN : Create("tty", p, id, open)
    BY <1>7
  <2>2. PICK rest \in Seq(Frame) : rest = Check(ports \ {p})
    BY CheckIs
  <2>3. PICK fs : fs = AddAndList(NewBackend) \o rest
    OBVIOUS
  <2>4. stack' = fs \o Tail(stack)
    BY <1>7, <2>2, <2>3 DEF Continue
  <2>5. \/ fs = AddAndList(NewBackend)
        \/ \E s \in SUBSET Ports :
             fs = AddAndList(NewBackend) \o <<[op |-> "check", ports |-> s]>>
    <3>1. CASE ports \ {p} = {}
      <4>1. AddAndList(NewBackend) \in Seq(Frame)
        <5>1. NewBackend \in Backends
          BY <1>7 DEF NewBackend, Unused
        <5>. QED
          BY <5>1, FrameMade, Two DEF AddAndList
      <4>2. rest = <<>>
        BY <2>2, <3>1 DEF Check
      <4>. QED
        BY <2>3, <4>1, <4>2, ConcatEmptySeq
    <3>2. CASE ports \ {p} # {}
      BY <2>2, <2>3, <3>2 DEF Check
    <3>. QED
      BY <3>1, <3>2
  <2>. QED
    BY <1>1, <1>2, <1>5, <1>7, <2>1, <2>4, <2>5, CreateInv
<1>. QED
  BY <1>4, <1>6, <1>7

LEMMA ConnectInv ==
  ASSUME IInv, NewTcpDeviceConnected \/ \E id \in Ids : RegisterVirtualDevice(id)
  PROVE  IInv'
<1>1. CASE NewTcpDeviceConnected
  <2>1. /\ Waiting /\ Unused # {} /\ stack' = AddAndList(NewBackend) \o stack
        /\ UNCHANGED <<device, identified, out, tcpIn, virt>>
    BY <1>1 DEF NewTcpDeviceConnected, Handle
  <2>2. PICK id \in Ids : Create("tcp", None, id, TRUE)
    BY <1>1 DEF NewTcpDeviceConnected
  <2>3. Under(stack)
    BY <2>1 DEF Under
  <2>4. PICK fs : fs = AddAndList(NewBackend)
    OBVIOUS
  <2>. QED
    BY <2>1, <2>2, <2>3, <2>4, CreateInv
<1>2. ASSUME NEW id \in Ids, RegisterVirtualDevice(id) PROVE IInv'
  <2>1. /\ Waiting /\ Unused # {} /\ stack' = AddAndList(NewBackend) \o stack
        /\ UNCHANGED <<device, identified, out, tcpIn, virt>>
        /\ Create("virtual", id, id, TRUE)
    BY <1>2 DEF RegisterVirtualDevice, Handle
  <2>2. Under(stack)
    BY <2>1 DEF Under
  <2>3. PICK fs : fs = AddAndList(NewBackend)
    OBVIOUS
  <2>. QED
    BY <2>1, <2>2, <2>3, CreateInv
<1>. QED
  BY <1>1, <1>2

LEMMA NextInv == IInv /\ [Next]_vars => IInv'
<1>. SUFFICES ASSUME IInv, [Next]_vars PROVE IInv'
  OBVIOUS
<1>1. CASE CheckPort
  BY <1>1, CheckPortInv
<1>2. CASE AddDevice
  BY <1>2, AddDeviceInv
<1>3. CASE IdentifyEnds
  <2>1. CASE Head(stack).res = None
    BY <1>3, <2>1, MoveOnInv
  <2>2. CASE Head(stack).res # None
    BY <1>3, <2>2, IdentifyInv
  <2>. QED
    BY <2>1, <2>2
<1>4. CASE RegisterDevice
  BY <1>4, RegisterDeviceInv
<1>5. CASE Described \/ CheckDevicesFromConfig
  BY <1>5, MoveOnInv
<1>6. CASE DeleteDevice
  BY <1>6, DeleteInv
<1>7. CASE DestroyBackend
  BY <1>7, DestroyInv
<1>8. CASE BackendFreed
  BY <1>8, FreedInv
<1>9. CASE AssignBackend
  BY <1>9, AssignInv
<1>10. CASE ListBackend
  BY <1>10, ListInv
<1>11. CASE NewTcpDeviceConnected \/ \E id \in Ids : RegisterVirtualDevice(id)
  BY <1>11, ConnectInv
<1>12. CASE \E id \in Ids : DeviceById(id)
  BY <1>12, DeviceByIdInv
<1>13. CASE \E i \in 1..Len(stack) : DeviceInfo(i)
  BY <1>13, DeviceInfoInv
<1>14. CASE \E b \in Backends : ConnectionLost(b)
  BY <1>14, LostInv
<1>15. CASE \E b \in Backends : BackendDisconnected(b)
  BY <1>15, DisconnectedInv
<1>16. CASE \E d \in Objects : SyncFailed(d)
  BY <1>16, SyncFailedInv
<1>17. CASE UNCHANGED vars
  BY <1>17, StutterInv
<1>. QED
  BY <1>1, <1>2, <1>3, <1>4, <1>5, <1>6, <1>7, <1>8, <1>9, <1>10, <1>11, <1>12, <1>13,
     <1>14, <1>15, <1>16, <1>17 DEF Next, Run

LEMMA Invariant == Spec => []IInv
BY InitInv, NextInv, PTL DEF Spec

(* The types are kept, and no list, device or suspended function of the    *)
(* registry keeps a backend or a device that has been deleted              *)
(* (Devices.cpp: addDeviceFromBackend, onDeviceDisconnected, addOutDevice; *)
(* RealDevice::setBackend), however deep the handlers are nested.          *)
THEOREM DanglingCorrect == Spec => []NoDangling
<1>1. IInv => NoDangling
  <2>. SUFFICES ASSUME IInv PROVE NoDangling
    OBVIOUS
  <2>0. TypeOK /\ Stack /\ Links /\ Lists /\ Registry
    BY DEF IInv
  <2>1. \A b \in {out[p] : p \in Ports} \cup tcpIn \cup {virt[id] : id \in Ids} :
          b # None => Live(b)
    BY <2>0 DEF Lists, Listed
  <2>2. \A id \in Ids : identified[id] # None => device[identified[id]].st = "live"
    BY <2>0 DEF Registry, Known
  <2>3. /\ \A d \in Objects : device[d].be # None => Live(device[d].be)
        /\ \A b \in Backends : Live(b) /\ backend[b].owner # None
                                 => device[backend[b].owner].st = "live"
    BY <2>0 DEF Links
  <2>4. ASSUME NEW f \in Frames
        PROVE  CASE f.op \in {"add", "destroy"} -> Live(f.b)
                 [] f.op \in {"list", "freed", "check"} -> TRUE
                 [] f.op = "assign" -> /\ device[f.d].st = "live"
                                       /\ f.b # None => Live(f.b)
                 [] OTHER -> device[f.d].st = "live"
    <3>1. f \in Frame /\ Fits(f)
      BY <2>0, ElementOfSeq DEF TypeOK, Stack, Elems, Frames
    <3>2. CASE f.op \in {"add", "destroy"}
      BY <3>1, <3>2 DEF Fits, Unowned
    <3>3. CASE f.op \in {"list", "freed", "check"}
      BY <3>3
    <3>4. CASE f.op = "assign"
      BY <3>1, <3>4 DEF Fits, Known, Unowned
    <3>5. CASE f.op \in {"identify", "identified", "describe", "delete"}
      BY <3>1, <3>5 DEF Fits, Known, Fresh
    <3>. QED
      BY <3>1, <3>2, <3>3, <3>4, <3>5, FrameIs
  <2>. QED
    BY <2>0, <2>1, <2>2, <2>3, <2>4 DEF NoDangling
<1>. QED
  BY <1>1, Invariant, PTL

(* A device that the server knows is the only one with its identifier, and *)
(* mIdentifiedDevices leads to it (addDeviceFromBackend looks it up again  *)
(* after identify; deviceById).                                            *)
THEOREM RegistryCorrect == Spec => []OneDevicePerId
<1>1. IInv => OneDevicePerId
  BY DEF IInv, Registry
<1>. QED
  BY <1>1, Invariant, PTL

(* When the handlers have returned, every device is known and every        *)
(* backend belongs to a device and is listed (addDeviceFromBackend and its *)
(* callers).                                                               *)
THEOREM LeakCorrect == Spec => []NoLeak
<1>1. IInv => NoLeak
  <2>. SUFFICES ASSUME IInv, stack = <<>>
                PROVE  /\ \A d \in Objects : device[d].st = "live" => device[d].hooked
                       /\ \A b \in Backends :
                            Live(b) => backend[b].owner # None /\ backend[b].hooked
    BY DEF NoLeak
  <2>1. Elems(stack) = {}
    BY Nothing
  <2>. QED
    BY <2>1 DEF IInv, Pending, Fresh, Unowned
<1>. QED
  BY <1>1, Invariant, PTL

(* A known device that counts as connected has an open connection, or one  *)
(* whose end it will hear of, and every connection of a known device is of *)
(* the device with its identifier (RealDevice::setBackend, onDisconnected; *)
(* addDeviceFromBackend).                                                  *)
THEOREM LinksCorrect == Spec => []LinksAreHonest
<1>1. IInv => LinksAreHonest
  <2>. SUFFICES ASSUME IInv PROVE ConnectedIsHonest
    BY DEF LinksAreHonest, IInv, Honest
  <2>. QED
    BY LinkTypes DEF IInv, Honest, Open, ConnectedIsHonest
<1>. QED
  BY <1>1, Invariant, PTL

LEMMA StateKept ==
  ASSUME TypeOK, NEW b \in Backends, NEW c, NEW v,
         \/ backend' = backend
         \/ backend' = [backend EXCEPT ![c].owner = v]
         \/ backend' = [backend EXCEPT ![c].hooked = TRUE]
         \/ backend' = [backend EXCEPT ![c].open = FALSE]
         \/ backend' = [backend EXCEPT ![c].open = FALSE, ![c].said = TRUE]
  PROVE  backend'[b].st = backend[b].st
<1>1. backend \in [Backends -> BackendRecord] /\ backend[b] \in BackendRecord
  BY DEF TypeOK
<1>2. CASE c # b
  BY <1>1, <1>2
<1>3. CASE c = b
  <2>1. \/ backend'[b] = backend[b]
        \/ backend'[b] = [backend[b] EXCEPT !.owner = v]
        \/ backend'[b] = [backend[b] EXCEPT !.hooked = TRUE]
        \/ backend'[b] = [backend[b] EXCEPT !.open = FALSE]
        \/ backend'[b] = [backend[b] EXCEPT !.open = FALSE, !.said = TRUE]
    BY <1>1, <1>3
  <2>. QED
    BY <1>1, <2>1 DEF BackendRecord
<1>. QED
  BY <1>2, <1>3

(* Nothing but its destructor makes a backend that is alive a dying one. *)
LEMMA DyingIs ==
  ASSUME TypeOK, Next, NEW b \in Backends, Live(b), backend'[b].st = "dying"
  PROVE  DestroyBackend /\ Head(stack).b = b
<1>0. backend \in [Backends -> BackendRecord]
  BY DEF TypeOK
<1>1. backend[b].st = "live" /\ backend'[b].st # backend[b].st
  BY DEF Live
<1>2. ASSUME NEW kind, NEW key, NEW id, NEW open, Unused # {}, Create(kind, key, id, open)
      PROVE  FALSE
  <2>1. NewBackend \in Backends /\ backend[NewBackend].st = "unused"
    BY <1>2 DEF NewBackend, Unused
  <2>. QED
    BY <1>0, <1>1, <1>2, <2>1 DEF Create
<1>3. ~CheckPort
  BY <1>1, <1>2 DEF CheckPort
<1>4. ~AddDevice /\ ~DeleteDevice
  <2>1. ~AddDevice
    <3>. SUFFICES ASSUME AddDevice PROVE FALSE
      OBVIOUS
    <3>1. PICK c : c = Head(stack).b
      OBVIOUS
    <3>2. backend' = [backend EXCEPT ![c].owner = c]
      BY <3>1 DEF AddDevice
    <3>. QED
      BY <1>1, <3>2, StateKept
  <2>2. ~DeleteDevice
    <3>. SUFFICES ASSUME DeleteDevice PROVE FALSE
      OBVIOUS
    <3>1. PICK c : c = device[Head(stack).d].be
      OBVIOUS
    <3>2. PICK v : v = None
      OBVIOUS
    <3>3. backend' = backend \/ backend' = [backend EXCEPT ![c].owner = v]
      BY <3>1, <3>2 DEF DeleteDevice
    <3>4. CASE backend' = [backend EXCEPT ![c].owner = v]
      BY <1>1, <3>4, StateKept
    <3>. QED
      BY <1>1, <3>3, <3>4
  <2>. QED
    BY <2>1, <2>2
<1>5. ~IdentifyEnds /\ ~Described /\ ~CheckDevicesFromConfig
  BY <1>1 DEF IdentifyEnds, Described, CheckDevicesFromConfig
<1>6. ~RegisterDevice
  <2>. SUFFICES ASSUME RegisterDevice PROVE FALSE
    OBVIOUS
  <2>1. PICK c : c = device[Head(stack).d].be
    OBVIOUS
  <2>2. PICK v : v = None
    OBVIOUS
  <2>3. backend' = backend \/ backend' = [backend EXCEPT ![c].owner = v]
    BY <2>1, <2>2 DEF RegisterDevice
  <2>4. CASE backend' = [backend EXCEPT ![c].owner = v]
    BY <1>1, <2>4, StateKept
  <2>. QED
    BY <1>1, <2>3, <2>4
<1>7. ~BackendFreed
  BY <1>0, <1>1 DEF BackendFreed, Freed
<1>8. ~AssignBackend /\ ~ListBackend
  <2>1. PICK c : c = Head(stack).b
    OBVIOUS
  <2>2. PICK d : d = Head(stack).d
    OBVIOUS
  <2>3. ASSUME AssignBackend PROVE FALSE
    <3>1. backend' = backend \/ backend' = [backend EXCEPT ![c].owner = d]
      BY <2>1, <2>2, <2>3 DEF AssignBackend
    <3>2. CASE backend' = [backend EXCEPT ![c].owner = d]
      BY <1>1, <3>2, StateKept
    <3>. QED
      BY <1>1, <3>1, <3>2
  <2>4. ASSUME ListBackend PROVE FALSE
    <3>1. backend' = backend \/ backend' = [backend EXCEPT ![c].hooked = TRUE]
      BY <2>1, <2>4 DEF ListBackend
    <3>. QED
      BY <1>1, <3>1, StateKept
  <2>. QED
    BY <2>3, <2>4
<1>9. ~NewTcpDeviceConnected
  BY <1>1, <1>2 DEF NewTcpDeviceConnected
<1>10. \A id \in Ids : ~RegisterVirtualDevice(id) /\ ~DeviceById(id)
  BY <1>1, <1>2 DEF RegisterVirtualDevice, DeviceById
<1>11. \A i \in 1..Len(stack) : ~DeviceInfo(i)
  BY <1>1 DEF DeviceInfo
<1>12. ASSUME NEW c \in Backends, ConnectionLost(c) \/ BackendDisconnected(c) PROVE FALSE
  <2>1. \/ backend' = [backend EXCEPT ![c].open = FALSE]
        \/ backend' = [backend EXCEPT ![c].open = FALSE, ![c].said = TRUE]
    BY <1>12 DEF ConnectionLost, BackendDisconnected
  <2>. QED
    BY <1>1, <2>1, StateKept
<1>13. ASSUME NEW d \in Objects, SyncFailed(d) PROVE FALSE
  <2>1. PICK c : c = device[d].be
    OBVIOUS
  <2>2. backend' = [backend EXCEPT ![c].open = FALSE]
    BY <1>13, <2>1 DEF SyncFailed
  <2>. QED
    BY <1>1, <2>2, StateKept
<1>14. DestroyBackend
  BY <1>3, <1>4, <1>5, <1>6, <1>7, <1>8, <1>9, <1>10, <1>11, <1>12, <1>13 DEF Next, Run
<1>15. Head(stack).b = b
  BY <1>0, <1>1, <1>14 DEF DestroyBackend
<1>. QED
  BY <1>14, <1>15

(* The only connection of a known device, while it is open, is destroyed   *)
(* for nothing but one of a preferred kind (addDeviceFromBackend,          *)
(* shouldReplaceDevice).                                                   *)
THEOREM ReplacementCorrect == Spec => OnlyPreferredReplaces
<1> DEFINE A == \A b \in Backends :
       LET d == backend[b].owner
       IN  /\ Live(b) /\ backend[b].open /\ d # None /\ device[d].hooked
           /\ \A c \in Backends : Live(c) /\ backend[c].owner = d => c = b
           /\ backend'[b].st = "dying"
           => \E c \in Backends : /\ stack[2] = [op |-> "assign", d |-> d, b |-> c]
                                  /\ Priority(c) > Priority(b)
<1>1. IInv /\ [Next]_vars => [A]_vars
  <2>. SUFFICES ASSUME IInv, Next, NEW b \in Backends,
                       Live(b), backend[b].open, backend[b].owner # None,
                       \A c \in Backends :
                         Live(c) /\ backend[c].owner = backend[b].owner => c = b,
                       backend'[b].st = "dying"
                PROVE  \E c \in Backends :
                         /\ stack[2] = [op |-> "assign", d |-> backend[b].owner, b |-> c]
                         /\ Priority(c) > Priority(b)
    OBVIOUS
  <2>1. DestroyBackend /\ Head(stack).b = b
    BY DyingIs DEF IInv
  <2>2. Reason(b)
    BY <2>1 DEF IInv, Destroying, DestroyBackend
  <2>. QED
    BY <2>2 DEF Reason, Replaced
<1>. QED
  BY <1>1, Invariant, PTL DEF Spec, OnlyPreferredReplaces
=============================================================================
