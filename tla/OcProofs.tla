------------------------------ MODULE OcProofs -------------------------------
(***************************************************************************)
(* Theorems about OcProfile, for every call with lists of any length and   *)
(* whichever allocation fails; and about the board with one of the         *)
(* programs, to which the theorems about each of them carry over.          *)
(***************************************************************************)
EXTENDS MCNanoBoard, NanoProofs

-----------------------------------------------------------------------------
(* The inductive invariant.                                                *)

OcFns == PackageFns \cup {"kvs", "service", "services"}

OcItems == {Leaf, Devices, Device} \cup Kvs \cup Service \cup Services

Frame == [fn : OcFns, node : Int, devices : Nat, at : Nat, todo : Seq(OcItems)]

(* The functions whose failure does not reach the caller as NULL, and what *)
(* may fail below them.                                                    *)
Tolerated == {"kvs", "service", "kvs_root"}
Hole == failed \cap {"kvs", "service"} # {}

OcShape ==
  /\ OcTypeOK
  /\ frames \in Seq(Frame)
  /\ \A k \in 1..Len(frames) : frames[k].todo \in Todo(frames[k].fn)
  /\ call.fn \in PackageFns /\ call.todo \in Todo(call.fn) /\ ArrayFirst(call.todo)

(* A function that called another waits for what it is to attach next.     *)
OcWaiting ==
  \A k \in 1..(Len(frames) - 1) :
    /\ frames[k].node > 0 /\ frames[k].todo # <<>>
    /\ Head(frames[k].todo).kind = frames[k + 1].fn

OcNumbers ==
  \A k \in 1..Len(frames) :
    /\ frames[k].node \in -1..Len(nodes)
    /\ frames[k].devices # 0 \/ ArrayFirst(frames[k].todo)
    /\ frames[k].node = -1 => frames[k].devices = 0
    /\ frames[k].node > 0 =>
         /\ nodes[frames[k].node] = 0
         /\ frames[k].at \in 1..Len(nodes) /\ frames[k].devices \in 0..Len(nodes)

(* The tree a function builds is younger than those of its callers.        *)
OcOrder ==
  \A k \in 1..Len(frames) : \A j \in 1..(k - 1) :
    frames[k].node > 0 =>
      /\ frames[j].node < frames[k].node
      /\ frames[j].at < frames[k].node
      /\ frames[j].devices < frames[k].node

(* What will be attached to still exists.                                  *)
OcAlive ==
  \A k \in 1..Len(frames) :
    frames[k].node > 0 /\ (frames[k].todo # <<>> \/ ~Hole) =>
      frames[k].node \notin deleted /\ frames[k].at \notin deleted /\ frames[k].devices \notin deleted

OcOlder == \A i \in 1..Len(nodes) : nodes[i] \in 0..(i - 1)

(* A node that exists is some function's, or attached to one that exists.  *)
OcRooted ==
  \A i \in 1..Len(nodes) :
    i \notin deleted => IF nodes[i] = 0 THEN \E k \in 1..Len(frames) : frames[k].node = i
                        ELSE nodes[i] \notin deleted

(* Trees are deleted as a whole, until one was deleted below a caller that *)
(* does not know.                                                          *)
OcWhole == ~Hole => \A i \in deleted : nodes[i] = 0 \/ nodes[i] \in deleted

OcKnown == misused = 1 => Hole

(* A failure reaches the caller, as NULL and then as a missing text.       *)
OcTold ==
  /\ stage = "package" <=> frames # <<>>
  /\ stage = "package" =>
       /\ failed \subseteq Tolerated \cup {"topic_make"}
          \/ (Top.node = 0 /\ Top.fn # "kvs")
       /\ Top.node = 0 => failed # {} /\ Top.todo = <<>>
       /\ strings \subseteq {"topic"}
  /\ stage \in {"package", "publish"} => ("topic" \in strings <=> "topic_make" \notin failed)
  /\ stage = "publish" =>
       /\ "msg" \in strings => failed \subseteq Tolerated \cup {"topic_make"}
       /\ strings # {"topic", "msg"} => failed # {}
  /\ stage \in {"free", "idle"} =>
       /\ result = "sysmem" => failed # {}
       /\ result \in {"ok", "error"} => failed \subseteq Tolerated /\ call.device /\ call.complete
  /\ stage \in {"topic", "package", "publish"} => call.device /\ call.complete
  /\ stage = "topic" => failed = {} /\ nodes = <<>>
  /\ stage \in {"topic", "idle"} => strings = {}
  /\ stage \in {"publish", "free", "idle"} => deleted = DOMAIN nodes

OcInv ==
  /\ OcShape /\ OcWaiting /\ OcNumbers /\ OcOrder /\ OcAlive
  /\ OcOlder /\ OcRooted /\ OcWhole /\ OcKnown /\ OcTold

(* What is left to attach.                                                 *)
LEMMA TodoIs ==
  /\ Todo("kvs") = Seq({Leaf})
  /\ Todo("service") = Seq({Leaf} \cup Kvs)
  /\ Todo("services") = Seq(Service)
  /\ \A fn \in PackageFns : Todo(fn) = Seq({Leaf, Devices, Device} \cup Kvs \cup Services)
<1>1. "kvs" \notin PackageFns /\ "service" \notin PackageFns /\ "services" \notin PackageFns
  BY DEF PackageFns
<1> QED
  BY <1>1 DEF Todo

(* The first and the rest of a list.                                       *)
LEMMA HeadTailIn ==
  ASSUME NEW S, NEW q \in Seq(S), q # <<>>
  PROVE  Head(q) \in S /\ Tail(q) \in Seq(S)
OBVIOUS

(* A function attaches what its kind of node can hold.                     *)
LEMMA TodoHead ==
  ASSUME NEW fn \in OcFns, NEW todo \in Todo(fn), todo # <<>>
  PROVE  /\ Head(todo).kind \in {"leaf", "devices", "device", "kvs", "service", "services"}
         /\ Tail(todo) \in Todo(fn)
         /\ Head(todo).kind \in {"kvs", "service", "services"} =>
              Head(todo).todo \in Todo(Head(todo).kind)
         /\ fn = "kvs" => Head(todo).kind = "leaf"
         /\ fn = "service" => Head(todo).kind \in {"leaf", "kvs"}
<1>0. Leaf.kind = "leaf" /\ Devices.kind = "devices" /\ Device.kind = "device"
  BY DEF Leaf, Devices, Device
<1>k. \A x \in Kvs : x.kind = "kvs" /\ x.todo \in Seq({Leaf})
  BY DEF Kvs
<1>s. \A x \in Service : x.kind = "service" /\ x.todo \in Seq({Leaf} \cup Kvs)
  BY DEF Service
<1>t. \A x \in Services : x.kind = "services" /\ x.todo \in Seq(Service)
  BY DEF Services
<1> HIDE DEF Leaf, Devices, Device, Kvs, Service, Services
<1>1. CASE fn = "kvs"
  <2>1. Head(todo) \in {Leaf} /\ Tail(todo) \in Seq({Leaf})
    BY <1>1, TodoIs, HeadTailIn
  <2> QED
    BY <1>0, <1>1, <2>1, TodoIs
<1>2. CASE fn = "service"
  <2>1. Head(todo) \in {Leaf} \cup Kvs /\ Tail(todo) \in Seq({Leaf} \cup Kvs)
    BY <1>2, TodoIs, HeadTailIn
  <2> QED
    BY <1>0, <1>k, <1>2, <2>1, TodoIs
<1>3. CASE fn = "services"
  <2>1. Head(todo) \in Service /\ Tail(todo) \in Seq(Service)
    BY <1>3, TodoIs, HeadTailIn
  <2> QED
    BY <1>s, <1>3, <2>1, TodoIs
<1>4. CASE fn \in PackageFns
  <2> DEFINE S == {Leaf, Devices, Device} \cup Kvs \cup Services
  <2>1. Todo(fn) = Seq(S) /\ fn # "kvs" /\ fn # "service"
    BY <1>4, TodoIs DEF PackageFns
  <2>2. Head(todo) \in S /\ Tail(todo) \in Seq(S)
    BY <2>1, HeadTailIn
  <2> QED
    BY <1>0, <1>k, <1>t, <2>1, <2>2, TodoIs
<1> QED
  BY <1>1, <1>2, <1>3, <1>4 DEF OcFns

(* The lists of every function, together.                                  *)
LEMMA TodoItems ==
  ASSUME NEW fn \in OcFns
  PROVE  Todo(fn) \subseteq Seq(OcItems) /\ <<>> \in Todo(fn)
<1> HIDE DEF Leaf, Devices, Device, Kvs, Service, Services
<1>1. \A S : S \subseteq OcItems => Seq(S) \subseteq Seq(OcItems) /\ <<>> \in Seq(S)
  OBVIOUS
<1>2. CASE fn = "kvs"
  BY <1>1, <1>2, TodoIs DEF OcItems
<1>3. CASE fn = "service"
  BY <1>1, <1>3, TodoIs DEF OcItems
<1>4. CASE fn = "services"
  BY <1>1, <1>4, TodoIs DEF OcItems
<1>5. CASE fn \in PackageFns
  BY <1>1, <1>5, TodoIs DEF OcItems
<1> QED
  BY <1>2, <1>3, <1>4, <1>5 DEF OcFns

(* An array of sub-devices is made before the first of them.               *)
LEMMA ArrayStaysFirst ==
  ASSUME NEW S, NEW todo \in Seq(S), todo # <<>>, ArrayFirst(todo)
  PROVE  /\ Head(todo).kind # "device"
         /\ Head(todo).kind # "devices" => ArrayFirst(Tail(todo))
<1>1. Head(todo) = todo[1] /\ 1 \in DOMAIN todo
  OBVIOUS
<1>2. todo[1].kind # "device"
  BY <1>1 DEF ArrayFirst
<1>3. ASSUME todo[1].kind # "devices", NEW i \in DOMAIN Tail(todo), Tail(todo)[i].kind = "device"
      PROVE  \E j \in 1..(i - 1) : Tail(todo)[j].kind = "devices"
  <2>1. i \in 1..(Len(todo) - 1) /\ Tail(todo)[i] = todo[i + 1] /\ i + 1 \in DOMAIN todo
    OBVIOUS
  <2>2. PICK j \in 1..((i + 1) - 1) : todo[j].kind = "devices"
    BY <1>3, <2>1 DEF ArrayFirst
  <2>3. j # 1 /\ j - 1 \in 1..(i - 1) /\ Tail(todo)[j - 1] = todo[j]
    BY <1>3, <2>1, <2>2
  <2> QED
    BY <2>2, <2>3
<1> QED
  BY <1>1, <1>2, <1>3 DEF ArrayFirst

(* A stack whose top is replaced, or whose top is given back.              *)
LEMMA TopReplaced ==
  ASSUME NEW S, NEW q \in Seq(S), NEW m \in 1..Len(q), NEW g \in S,
         NEW r, r = Append(SubSeq(q, 1, m - 1), g)
  PROVE  r \in Seq(S) /\ Len(r) = m /\ r[m] = g /\ \A k \in 1..(m - 1) : r[k] = q[k]
<1>1. SubSeq(q, 1, m - 1) \in Seq(S) /\ Len(SubSeq(q, 1, m - 1)) = m - 1
      /\ \A k \in 1..(m - 1) : SubSeq(q, 1, m - 1)[k] = q[k]
  OBVIOUS
<1> QED
  BY <1>1

-----------------------------------------------------------------------------
(* Trees.  The way up from a node exists as far as any node.               *)
LEMMA WayUp ==
  ASSUME nodes \in Seq(Nat), OcOlder, NEW root \in 1..Len(nodes)
  PROVE  \E f : f = [i \in 0..Len(nodes) |-> IF i \in {0, root} THEN i ELSE f[nodes[i]]]
<1> DEFINE Up(n, f) == f = [i \in 0..n |-> IF i \in {0, root} THEN i ELSE f[nodes[i]]]
           Wrong == { n \in 0..Len(nodes) : ~\E f : Up(n, f) }
<1>0. Len(nodes) \in Nat
  OBVIOUS
<1>1. \E f : Up(0, f)
  <2> DEFINE f == [i \in 0..0 |-> 0]
  <2>1. Up(0, f)
    OBVIOUS
  <2> QED
    BY <2>1
<1>2. ASSUME NEW n \in 1..Len(nodes), NEW g, Up(n - 1, g) PROVE \E f : Up(n, f)
  <2> DEFINE f == [i \in 0..n |-> IF i = n THEN (IF n = root THEN n ELSE g[nodes[n]]) ELSE g[i]]
  <2>1. nodes[n] \in 0..(n - 1)
    BY DEF OcOlder
  <2>2. ASSUME NEW i \in 0..n PROVE f[i] = IF i \in {0, root} THEN i ELSE f[nodes[i]]
    <3>1. CASE i = n
      BY <2>1, <3>1
    <3>2. CASE i # n
      <4>1. i \in 0..(n - 1) /\ f[i] = g[i]
        BY <3>2
      <4>2. g[i] = IF i \in {0, root} THEN i ELSE g[nodes[i]]
        BY <1>2, <4>1
      <4>3. i # 0 => nodes[i] \in 0..(i - 1)
        BY <4>1 DEF OcOlder
      <4>4. i # 0 => f[nodes[i]] = g[nodes[i]]
        BY <4>1, <4>3
      <4> QED
        BY <4>1, <4>2, <4>4
    <3> QED
      BY <3>1, <3>2
  <2>3. f = [i \in 0..n |-> f[i]]
    OBVIOUS
  <2> HIDE DEF f
  <2>4. Up(n, f)
    BY <2>2, <2>3
  <2> QED
    BY <2>4
<1>s. Wrong \subseteq Nat /\ \A n : n \in Wrong <=> n \in 0..Len(nodes) /\ ~\E f : Up(n, f)
  BY <1>0
<1> HIDE DEF Wrong, Up
<1>3. ASSUME NEW n \in Wrong PROVE n - 1 \in Wrong
  <2>1. n \in 1..Len(nodes) /\ ~\E f : Up(n, f)
    BY <1>1, <1>s
  <2>2. ~\E g : Up(n - 1, g)
    BY <1>2, <2>1
  <2>3. n - 1 \in 0..Len(nodes)
    BY <1>0, <2>1
  <2> QED
    BY <1>s, <2>2, <2>3
<1>w. Wrong \subseteq Nat
  BY <1>s
<1>4. Wrong = {}
  BY <1>w, <1>3, NoDescent
<1>5. \E f : Up(Len(nodes), f)
  BY <1>0, <1>4, <1>s
<1> QED
  BY <1>5 DEF Up

(* A node is in a tree when it is its root or attached to one of its nodes. *)
LEMMA UnderIs ==
  ASSUME nodes \in Seq(Nat), OcOlder, NEW root \in 1..Len(nodes)
  PROVE  /\ Under(root) \subseteq 1..Len(nodes) /\ root \in Under(root)
         /\ \A i \in 1..Len(nodes) : i \in Under(root) <=> i = root \/ nodes[i] \in Under(root)
<1> DEFINE met == CHOOSE f : f = [i \in 0..Len(nodes) |-> IF i \in {0, root} THEN i ELSE f[nodes[i]]]
<1>1. met = [i \in 0..Len(nodes) |-> IF i \in {0, root} THEN i ELSE met[nodes[i]]]
  BY WayUp
<1>2. Under(root) = { i \in 1..Len(nodes) : met[i] = root }
  BY DEF Under
<1> HIDE DEF met
<1>3. \A i \in 0..Len(nodes) : met[i] = IF i \in {0, root} THEN i ELSE met[nodes[i]]
  BY <1>1
<1>4. met[0] = 0 /\ met[root] = root /\ root # 0
  BY <1>3
<1>5. ASSUME NEW i \in 1..Len(nodes), i # root
      PROVE  i \in Under(root) <=> nodes[i] \in Under(root)
  <2>1. met[i] = met[nodes[i]] /\ nodes[i] \in 0..Len(nodes)
    BY <1>3, <1>5 DEF OcOlder
  <2>2. CASE nodes[i] = 0
    BY <1>2, <1>4, <2>1, <2>2
  <2>3. CASE nodes[i] # 0
    BY <1>2, <2>1, <2>3
  <2> QED
    BY <2>2, <2>3
<1> QED
  BY <1>2, <1>4, <1>5

(* So it is the least set that holds the root and all that is attached.    *)
LEMMA UnderLeast ==
  ASSUME nodes \in Seq(Nat), OcOlder, NEW root \in 1..Len(nodes), NEW S, root \in S,
         \A i \in 1..Len(nodes) : nodes[i] \in S => i \in S
  PROVE  Under(root) \subseteq S
<1> DEFINE Out == Under(root) \ S
<1>1. Under(root) \subseteq 1..Len(nodes)
      /\ \A i \in 1..Len(nodes) : i \in Under(root) <=> i = root \/ nodes[i] \in Under(root)
  BY UnderIs
<1>2. Out \subseteq Nat
  BY <1>1
<1>3. ASSUME Out # {} PROVE FALSE
  <2>1. PICK i \in Out : \A j \in Out : i <= j
    BY <1>2, <1>3, Least
  <2>2. i \in 1..Len(nodes) /\ i # root /\ nodes[i] \in Under(root) /\ nodes[i] \notin S
    BY <1>1, <2>1
  <2>3. nodes[i] \in 0..(i - 1)
    BY <2>2 DEF OcOlder
  <2> QED
    BY <2>1, <2>2, <2>3
<1> QED
  BY <1>3

(* A tree has no node that is older than its root.                         *)
LEMMA UnderYounger ==
  ASSUME nodes \in Seq(Nat), OcOlder, NEW root \in 1..Len(nodes), NEW i \in Nat, i < root
  PROVE  i \notin Under(root)
<1> DEFINE S == { j \in 1..Len(nodes) : j >= root }
<1>1. root \in S /\ i \notin S
  OBVIOUS
<1>2. \A j \in 1..Len(nodes) : nodes[j] \in S => j \in S
  BY DEF OcOlder
<1> HIDE DEF S
<1>3. Under(root) \subseteq S
  BY <1>1, <1>2, UnderLeast
<1> QED
  BY <1>1, <1>3

(* As long as trees were deleted as a whole, one whose root exists does.   *)
LEMMA UnderAlive ==
  ASSUME nodes \in Seq(Nat), OcOlder, OcWhole, ~Hole, deleted \subseteq 1..Len(nodes),
         NEW root \in 1..Len(nodes), root \notin deleted
  PROVE  Under(root) \cap deleted = {}
<1> DEFINE S == (1..Len(nodes)) \ deleted
<1>1. root \in S
  OBVIOUS
<1>2. \A i \in 1..Len(nodes) : nodes[i] \in S => i \in S
  BY DEF OcWhole
<1> HIDE DEF S
<1>3. Under(root) \subseteq S
  BY <1>1, <1>2, UnderLeast
<1> QED
  BY <1>3 DEF S

(* When no node that exists is a root every node was deleted.              *)
LEMMA AllDeleted ==
  ASSUME NEW q \in Seq(Nat), NEW D, D \subseteq 1..Len(q),
         \A i \in 1..Len(q) : q[i] \in 0..(i - 1),
         \A i \in 1..Len(q) : i \notin D => q[i] # 0 /\ q[i] \notin D
  PROVE  D = 1..Len(q)
<1> DEFINE Left == (1..Len(q)) \ D
<1>1. Left \subseteq Nat
  OBVIOUS
<1>2. ASSUME Left # {} PROVE FALSE
  <2>1. PICK i \in Left : \A j \in Left : i <= j
    BY <1>1, <1>2, Least
  <2>2. q[i] # 0 /\ q[i] \notin D /\ q[i] \in 0..(i - 1)
    BY <2>1
  <2> QED
    BY <2>1, <2>2
<1> QED
  BY <1>2

-----------------------------------------------------------------------------
(* What is known of every function entered.                                *)
LEMMA FrameHas ==
  ASSUME OcShape, NEW k \in 1..Len(frames)
  PROVE  /\ frames[k] \in Frame /\ frames[k].fn \in OcFns /\ frames[k].node \in Int
         /\ frames[k].devices \in Nat /\ frames[k].at \in Nat
         /\ frames[k].todo \in Todo(frames[k].fn) /\ frames[k].todo \in Seq(OcItems)
<1>1. frames[k] \in Frame
  BY DEF OcShape
<1> QED
  BY <1>1 DEF OcShape, Frame

(* A function deletes its tree and has nothing more to attach: it, or its  *)
(* caller on NULL.  What its callers hold is older, and stays.             *)
LEMMA GivesUp ==
  ASSUME OcInv, NEW m \in 1..Len(frames), frames[m].node > 0, frames[m].todo # <<>>,
         \A k \in (m + 1)..Len(frames) : frames[k].node = 0,
         DeleteTree(frames[m].node), failed' = failed \cup {frames[m].fn},
         NEW g \in Frame, g.fn = frames[m].fn, g.todo = <<>>, g.at = frames[m].at,
         g.devices = frames[m].devices,
         g.node = IF frames[m].fn \in {"kvs", "service"} THEN frames[m].node ELSE 0,
         frames' \in Seq(Frame), Len(frames') = m, frames'[m] = g,
         \A k \in 1..(m - 1) : frames'[k] = frames[k]
  PROVE  /\ deleted' \subseteq DOMAIN nodes' /\ nodes' = nodes /\ misused' \in {0, 1}
         /\ \A k \in 1..Len(frames') : frames'[k].todo \in Todo(frames'[k].fn)
         /\ OcWaiting' /\ OcNumbers' /\ OcOrder' /\ OcAlive'
         /\ OcOlder' /\ OcRooted' /\ OcWhole' /\ OcKnown'
<1> DEFINE root == frames[m].node
<1>1. /\ nodes \in Seq(Nat) /\ deleted \subseteq 1..Len(nodes) /\ misused \in {0, 1}
      /\ root \in 1..Len(nodes) /\ nodes[root] = 0 /\ OcOlder /\ m \in Nat /\ Len(nodes) \in Nat
      /\ DOMAIN nodes = 1..Len(nodes) /\ Len(frames) \in Nat
  <2>1. frames[m].node \in Int
    BY FrameHas DEF OcInv
  <2>2. nodes \in Seq(Nat) /\ deleted \subseteq DOMAIN nodes /\ misused \in {0, 1} /\ frames \in Seq(Frame)
    BY DEF OcInv, OcShape, OcTypeOK
  <2>3. frames[m].node \in -1..Len(nodes) /\ nodes[frames[m].node] = 0
    BY DEF OcInv, OcNumbers
  <2> QED
    BY <2>1, <2>2, <2>3 DEF OcInv
<1>2. /\ Under(root) \subseteq 1..Len(nodes) /\ root \in Under(root)
      /\ \A i \in 1..Len(nodes) : i \in Under(root) <=> i = root \/ nodes[i] \in Under(root)
  BY <1>1, UnderIs
<1>3. \A i \in Nat : i < root => i \notin Under(root)
  BY <1>1, UnderYounger
<1>4. nodes' = nodes /\ deleted' = deleted \cup Under(root)
      /\ misused' = (IF Under(root) \cap deleted # {} THEN 1 ELSE misused)
  BY DEF DeleteTree, Use
<1>5. root \notin deleted
  BY DEF OcInv, OcAlive
<1>6. ~Hole => Under(root) \cap deleted = {}
  BY <1>1, <1>5, UnderAlive DEF OcInv
<1>7. (Hole => Hole') /\ (frames[m].fn \in {"kvs", "service"} => Hole')
  BY DEF Hole
<1> HIDE DEF root
<1>8. deleted' \subseteq DOMAIN nodes' /\ misused' \in {0, 1}
  BY <1>1, <1>2, <1>4
<1>9. OcKnown'
  <2>1. misused = 1 => Hole
    BY DEF OcInv, OcKnown
  <2> QED
    BY <1>4, <1>6, <1>7, <2>1 DEF OcKnown
<1>10. OcOlder'
  BY <1>1, <1>4 DEF OcOlder
<1>11. OcWhole'
  <2> SUFFICES ASSUME ~Hole', NEW i \in deleted' PROVE nodes[i] = 0 \/ nodes[i] \in deleted'
    BY <1>4 DEF OcWhole
  <2>1. CASE i \in deleted
    BY <1>4, <1>7, <2>1 DEF OcInv, OcWhole
  <2>2. CASE i \in Under(root)
    BY <1>1, <1>2, <1>4, <2>2
  <2> QED
    BY <1>4, <2>1, <2>2
<1>12. OcRooted'
  <2> SUFFICES ASSUME NEW i \in 1..Len(nodes), i \notin deleted, i \notin Under(root)
               PROVE  IF nodes[i] = 0 THEN \E k \in 1..m : frames'[k].node = i
                      ELSE nodes[i] \notin deleted \cup Under(root)
    BY <1>4 DEF OcRooted
  <2>1. CASE nodes[i] = 0
    <3>1. PICK k \in 1..Len(frames) : frames[k].node = i
      BY <2>1 DEF OcInv, OcRooted
    <3>2. k # m
      BY <1>2, <3>1 DEF root
    <3>3. ~(k > m)
      BY <1>1, <3>1
    <3>4. k \in 1..(m - 1)
      BY <1>1, <3>2, <3>3
    <3> QED
      BY <1>1, <2>1, <3>1, <3>4
  <2>2. CASE nodes[i] # 0
    <3>1. nodes[i] \notin deleted
      BY <2>2 DEF OcInv, OcRooted
    <3> QED
      BY <1>2, <2>2, <3>1
  <2> QED
    BY <2>1, <2>2
<1>13. OcWaiting'
  <2> SUFFICES ASSUME NEW k \in 1..(m - 1)
               PROVE  /\ frames'[k].node > 0 /\ frames'[k].todo # <<>>
                      /\ Head(frames'[k].todo).kind = frames'[k + 1].fn
    BY DEF OcWaiting
  <2>1. k \in 1..(Len(frames) - 1) /\ k + 1 \in 1..m
    BY <1>1
  <2>2. /\ frames[k].node > 0 /\ frames[k].todo # <<>>
        /\ Head(frames[k].todo).kind = frames[k + 1].fn
    BY <2>1 DEF OcInv, OcWaiting
  <2>3. frames'[k + 1].fn = frames[k + 1].fn
    BY <1>1, <2>1
  <2> QED
    BY <2>2, <2>3
<1>14. /\ \A k \in 1..Len(frames') : frames'[k].todo \in Todo(frames'[k].fn)
       /\ OcNumbers'
  <2>1. frames[m].fn \in OcFns /\ <<>> \in Todo(frames[m].fn) /\ ArrayFirst(<<>>)
    BY FrameHas, TodoItems DEF OcInv, ArrayFirst
  <2>2. ASSUME NEW k \in 1..(m - 1)
        PROVE /\ frames'[k].todo \in Todo(frames'[k].fn)
              /\ frames'[k].node \in -1..Len(nodes)
              /\ frames'[k].devices # 0 \/ ArrayFirst(frames'[k].todo)
              /\ frames'[k].node = -1 => frames'[k].devices = 0
              /\ frames'[k].node > 0 =>
                   /\ nodes[frames'[k].node] = 0
                   /\ frames'[k].at \in 1..Len(nodes) /\ frames'[k].devices \in 0..Len(nodes)
    <3>1. k \in 1..Len(frames) /\ frames'[k] = frames[k]
      BY <1>1
    <3> QED
      BY <3>1 DEF OcInv, OcNumbers, OcShape
  <2>3. /\ frames'[m].todo \in Todo(frames'[m].fn)
        /\ frames'[m].node \in -1..Len(nodes)
        /\ frames'[m].devices # 0 \/ ArrayFirst(frames'[m].todo)
        /\ frames'[m].node # -1
        /\ frames'[m].node > 0 =>
             /\ nodes[frames'[m].node] = 0
             /\ frames'[m].at \in 1..Len(nodes) /\ frames'[m].devices \in 0..Len(nodes)
    <3>1. frames[m].at \in 1..Len(nodes) /\ frames[m].devices \in 0..Len(nodes)
      BY DEF OcInv, OcNumbers
    <3>2. frames'[m].todo = <<>> /\ frames'[m].fn = frames[m].fn /\ frames'[m] = g
      OBVIOUS
    <3>3. frames'[m].todo \in Todo(frames'[m].fn) /\ ArrayFirst(frames'[m].todo)
      BY <2>1, <3>2
    <3>4. g.node \in {0, root}
      BY DEF root
    <3>5. g.node \in -1..Len(nodes) /\ g.node # -1
      BY <1>1, <3>4
    <3>6. g.node > 0 => nodes[g.node] = 0
      BY <1>1, <3>4
    <3>7. g.at \in 1..Len(nodes) /\ g.devices \in 0..Len(nodes)
      BY <3>1
    <3> QED
      BY <3>2, <3>3, <3>5, <3>6, <3>7
  <2>4. \A k \in 1..m : k = m \/ k \in 1..(m - 1)
    BY <1>1
  <2>5. \A k \in 1..m :
          /\ frames'[k].todo \in Todo(frames'[k].fn)
          /\ frames'[k].node \in -1..Len(nodes)
          /\ frames'[k].devices # 0 \/ ArrayFirst(frames'[k].todo)
          /\ frames'[k].node = -1 => frames'[k].devices = 0
          /\ frames'[k].node > 0 =>
               /\ nodes[frames'[k].node] = 0
               /\ frames'[k].at \in 1..Len(nodes) /\ frames'[k].devices \in 0..Len(nodes)
    BY <2>2, <2>3, <2>4
  <2> QED
    BY <1>4, <2>5 DEF OcNumbers
<1>15. OcOrder'
  <2> SUFFICES ASSUME NEW k \in 1..m, NEW j \in 1..(k - 1), frames'[k].node > 0
               PROVE  /\ frames'[j].node < frames'[k].node
                      /\ frames'[j].at < frames'[k].node
                      /\ frames'[j].devices < frames'[k].node
    BY DEF OcOrder
  <2>1. j \in 1..(m - 1) /\ frames'[j] = frames[j] /\ k \in 1..Len(frames)
    BY <1>1
  <2>2. frames'[k].node = frames[k].node
    BY <1>1
  <2> QED
    BY <2>1, <2>2 DEF OcInv, OcOrder
<1>16. OcAlive'
  <2> SUFFICES ASSUME NEW k \in 1..m, frames'[k].node > 0, frames'[k].todo # <<>> \/ ~Hole'
               PROVE  /\ frames'[k].node \notin deleted \cup Under(root)
                      /\ frames'[k].at \notin deleted \cup Under(root)
                      /\ frames'[k].devices \notin deleted \cup Under(root)
    BY <1>4 DEF OcAlive
  <2>1. k # m
    BY <1>7
  <2>2. k \in 1..(m - 1) /\ frames'[k] = frames[k] /\ k \in 1..Len(frames)
    BY <1>1, <2>1
  <2>3. frames[k].node < root /\ frames[k].at < root /\ frames[k].devices < root
    BY <2>2 DEF OcInv, OcOrder, root
  <2>4. frames[k].node \in Nat /\ frames[k].at \in Nat /\ frames[k].devices \in Nat
    <3>1. OcShape
      BY DEF OcInv
    <3> QED
      BY <2>2, <3>1, FrameHas
  <2>5. frames[k].node \notin deleted /\ frames[k].at \notin deleted /\ frames[k].devices \notin deleted
    BY <1>7, <2>2 DEF OcInv, OcAlive
  <2> QED
    BY <1>3, <2>2, <2>3, <2>4, <2>5
<1> QED
  BY <1>4, <1>8, <1>9, <1>10, <1>11, <1>12, <1>13, <1>14, <1>15, <1>16

(* The innermost function, and what replaces it.                           *)
LEMMA TopIs ==
  ASSUME OcInv, frames # <<>>
  PROVE  /\ Len(frames) \in Nat /\ Len(frames) \in 1..Len(frames) /\ Top = frames[Len(frames)]
         /\ Below = SubSeq(frames, 1, Len(frames) - 1) /\ Top \in Frame /\ Top.fn \in OcFns
         /\ Top.node \in Int /\ Top.node \in -1..Len(nodes) /\ Top.devices \in Nat /\ Top.at \in Nat
         /\ Top.todo \in Todo(Top.fn) /\ Top.todo \in Seq(OcItems)
         /\ frames \in Seq(Frame) /\ stage = "package"
         /\ nodes \in Seq(Nat) /\ Len(nodes) \in Nat /\ deleted \subseteq 1..Len(nodes)
<1>1. frames \in Seq(Frame) /\ stage = "package" /\ nodes \in Seq(Nat)
      /\ deleted \subseteq DOMAIN nodes
  BY DEF OcInv, OcShape, OcTypeOK
<1>2. Len(frames) \in Nat /\ Len(frames) \in 1..Len(frames) /\ Len(nodes) \in Nat
      /\ deleted \subseteq 1..Len(nodes)
  BY <1>1
<1>3. frames[Len(frames)].node \in -1..Len(nodes)
  BY <1>2 DEF OcInv, OcNumbers
<1> QED
  BY <1>1, <1>2, <1>3, FrameHas DEF OcInv, Top, Below

(* The innermost function makes a node, its own or one it attaches.        *)
LEMMA Grows ==
  ASSUME OcInv, frames # <<>>, NEW p \in 0..Len(nodes), nodes' = Append(nodes, p),
         UNCHANGED <<deleted, misused, failed>>, p # 0 => p \notin deleted,
         NEW g \in Frame, frames' = Append(Below, g), g.fn = Top.fn, g.todo \in Todo(g.fn),
         g.devices # 0 \/ ArrayFirst(g.todo),
         \/ Top.node = -1 /\ p = 0 /\ g.node = Len(nodes) + 1 /\ g.at = Len(nodes) + 1
            /\ g.devices = 0
         \/ Top.node > 0 /\ Top.todo # <<>> /\ p # 0 /\ g.node = Top.node
            /\ g.at \in {Top.at, Len(nodes) + 1} /\ g.devices \in {Top.devices, Len(nodes) + 1}
  PROVE  /\ nodes' \in Seq(Nat) /\ deleted' \subseteq DOMAIN nodes' /\ frames' \in Seq(Frame)
         /\ \A k \in 1..Len(frames') : frames'[k].todo \in Todo(frames'[k].fn)
         /\ OcWaiting' /\ OcNumbers' /\ OcOrder' /\ OcAlive'
         /\ OcOlder' /\ OcRooted' /\ OcWhole' /\ OcKnown'
         /\ frames' # <<>> /\ Top' = g
<1> DEFINE n == Len(frames)
           L == Len(nodes)
<1>1. /\ n \in Nat /\ n \in 1..n /\ L \in Nat /\ nodes \in Seq(Nat) /\ deleted \subseteq 1..L
      /\ frames \in Seq(Frame) /\ Top = frames[n] /\ Below = SubSeq(frames, 1, n - 1)
      /\ Top.node \in Int /\ Top.at \in Nat /\ Top.devices \in Nat
  BY TopIs
<1> HIDE DEF n, L
<1>0. L \in Nat /\ n \in Nat
  BY <1>1
<1>2. frames' \in Seq(Frame) /\ Len(frames') = n /\ frames'[n] = g
      /\ \A k \in 1..(n - 1) : frames'[k] = frames[k]
  <2>1. frames' = Append(SubSeq(frames, 1, n - 1), g)
    BY <1>1
  <2>2. n \in 1..Len(frames)
    BY <1>1 DEF n
  <2> QED
    BY <1>1, <2>1, <2>2, TopReplaced
<1>3. nodes' \in Seq(Nat) /\ Len(nodes') = L + 1 /\ nodes'[L + 1] = p
      /\ \A i \in 1..L : nodes'[i] = nodes[i]
  BY <1>1 DEF L
<1>4. \A k \in 1..n : k = n \/ k \in 1..(n - 1)
  BY <1>1
<1>5. \A k \in 1..(n - 1) :
        /\ frames[k].node > 0 /\ frames[k].todo # <<>>
        /\ Head(frames[k].todo).kind = frames[k + 1].fn
  BY DEF n, OcInv, OcWaiting
<1>6. \A k \in 1..n :
        /\ frames[k].todo \in Todo(frames[k].fn)
        /\ frames[k].node \in Int
        /\ frames[k].node \in -1..L
        /\ frames[k].devices # 0 \/ ArrayFirst(frames[k].todo)
        /\ frames[k].node = -1 => frames[k].devices = 0
        /\ frames[k].node > 0 =>
             /\ nodes[frames[k].node] = 0
             /\ frames[k].at \in 1..L /\ frames[k].devices \in 0..L
  BY FrameHas DEF n, L, OcInv, OcNumbers, OcShape
<1>7. deleted' \subseteq DOMAIN nodes'
  BY <1>1, <1>3
<1>8. \A k \in 1..Len(frames') : frames'[k].todo \in Todo(frames'[k].fn)
  BY <1>2, <1>4, <1>6, <1>1
<1>9. OcWaiting'
  <2>1. ASSUME NEW k \in 1..(n - 1)
        PROVE  /\ frames'[k].node > 0 /\ frames'[k].todo # <<>>
               /\ Head(frames'[k].todo).kind = frames'[k + 1].fn
    <3>1. frames'[k + 1].fn = frames[k + 1].fn
      BY <1>1, <1>2, <1>4
    <3> QED
      BY <1>2, <1>5, <3>1
  <2> QED
    BY <1>2, <2>1 DEF OcWaiting
<1>10. OcNumbers'
  <2>1. ASSUME NEW k \in 1..(n - 1)
        PROVE /\ frames'[k].node \in -1..(L + 1)
              /\ frames'[k].devices # 0 \/ ArrayFirst(frames'[k].todo)
              /\ frames'[k].node = -1 => frames'[k].devices = 0
              /\ frames'[k].node > 0 =>
                   /\ nodes'[frames'[k].node] = 0
                   /\ frames'[k].at \in 1..(L + 1) /\ frames'[k].devices \in 0..(L + 1)
    <3>1. k \in 1..n /\ frames'[k] = frames[k]
      BY <1>1, <1>2
    <3>2. /\ frames[k].node \in Int
          /\ frames[k].node \in -1..L
          /\ frames[k].devices # 0 \/ ArrayFirst(frames[k].todo)
          /\ frames[k].node = -1 => frames[k].devices = 0
          /\ frames[k].node > 0 =>
               /\ nodes[frames[k].node] = 0
               /\ frames[k].at \in 1..L /\ frames[k].devices \in 0..L
      BY <1>6, <3>1
    <3>3. frames[k].node > 0 => frames[k].node \in 1..L
      BY <1>1, <3>2
    <3>4. frames[k].node \in -1..(L + 1) /\ 1..L \subseteq 1..(L + 1) /\ 0..L \subseteq 0..(L + 1)
      <4>1. frames[k].node \in -1..L
        BY <3>2
      <4> QED
        BY <1>0, <4>1
    <3>5. frames[k].node > 0 => nodes'[frames[k].node] = 0
      BY <1>3, <3>2, <3>3
    <3> QED
      BY <3>1, <3>2, <3>4, <3>5
  <2>2. /\ g.node \in -1..(L + 1) /\ g.node # -1
        /\ nodes'[g.node] = 0 /\ g.at \in 1..(L + 1) /\ g.devices \in 0..(L + 1)
    <3>1. CASE Top.node = -1
      BY <1>1, <1>3, <3>1 DEF L
    <3>2. CASE Top.node > 0
      <4>1. /\ Top.node \in 1..L /\ nodes[Top.node] = 0
            /\ Top.at \in 1..L /\ Top.devices \in 0..L
        BY <1>1, <1>6, <3>2
      <4>2. nodes'[Top.node] = 0
        BY <1>3, <4>1
      <4>3. g.node = Top.node /\ g.at \in {Top.at, L + 1} /\ g.devices \in {Top.devices, L + 1}
        BY <3>2 DEF L
      <4>4. Top.node \in -1..(L + 1) /\ Top.node # -1 /\ L + 1 \in 1..(L + 1) /\ L + 1 # 0
            /\ Top.at \in 1..(L + 1) /\ Top.devices \in 0..(L + 1)
        BY <1>0, <4>1
      <4>5. g.node \in -1..(L + 1) /\ g.node # -1 /\ nodes'[g.node] = 0
        BY <4>2, <4>3, <4>4
      <4>6. g.at \in 1..(L + 1)
        BY <4>3, <4>4
      <4>7. g.devices \in 0..(L + 1)
        <5>1. L + 1 \in 0..(L + 1)
          BY <1>0
        <5> QED
          BY <4>3, <4>4, <5>1
      <4> QED
        BY <4>5, <4>6, <4>7
    <3> QED
      BY <3>1, <3>2
  <2>3. /\ frames'[n].node \in -1..(L + 1) /\ frames'[n].node # -1
        /\ frames'[n].devices # 0 \/ ArrayFirst(frames'[n].todo)
        /\ nodes'[frames'[n].node] = 0
        /\ frames'[n].at \in 1..(L + 1) /\ frames'[n].devices \in 0..(L + 1)
    BY <1>2, <2>2
  <2>4. \A k \in 1..n :
           /\ frames'[k].node \in -1..(L + 1)
           /\ frames'[k].devices # 0 \/ ArrayFirst(frames'[k].todo)
           /\ frames'[k].node = -1 => frames'[k].devices = 0
           /\ frames'[k].node > 0 =>
                /\ nodes'[frames'[k].node] = 0
                /\ frames'[k].at \in 1..(L + 1) /\ frames'[k].devices \in 0..(L + 1)
    BY <1>4, <2>1, <2>3
  <2> QED
    BY <1>2, <1>3, <2>4 DEF OcNumbers
<1>11. OcOrder'
  <2> SUFFICES ASSUME NEW k \in 1..n, NEW j \in 1..(k - 1), frames'[k].node > 0
               PROVE  /\ frames'[j].node < frames'[k].node
                      /\ frames'[j].at < frames'[k].node
                      /\ frames'[j].devices < frames'[k].node
    BY <1>2 DEF OcOrder
  <2>1. j \in 1..(n - 1) /\ j \in 1..n /\ frames'[j] = frames[j]
    BY <1>1, <1>2
  <2>2. frames[k].node > 0 => /\ frames[j].node < frames[k].node
                              /\ frames[j].at < frames[k].node
                              /\ frames[j].devices < frames[k].node
    BY DEF n, OcInv, OcOrder
  <2>3. CASE frames'[k].node = frames[k].node
    BY <2>1, <2>2, <2>3
  <2>4. CASE frames'[k].node # frames[k].node
    <3>1. k = n
      BY <1>2, <1>4, <2>4
    <3>2. frames'[k].node = L + 1
      BY <1>1, <1>2, <2>4, <3>1 DEF L
    <3>3. frames[j].node \in -1..L /\ frames[j].at \in 1..L /\ frames[j].devices \in 0..L
      BY <1>5, <1>6, <2>1
    <3>4. frames[j].node < L + 1 /\ frames[j].at < L + 1 /\ frames[j].devices < L + 1
      BY <1>0, <3>3
    <3> QED
      BY <2>1, <3>2, <3>4
  <2> QED
    BY <2>3, <2>4
<1>12. OcAlive'
  <2>0. Hole' = Hole
    BY DEF Hole
  <2>1. \A k \in 1..n : frames[k].node > 0 /\ (frames[k].todo # <<>> \/ ~Hole) =>
          frames[k].node \notin deleted /\ frames[k].at \notin deleted
          /\ frames[k].devices \notin deleted
    BY DEF n, OcInv, OcAlive
  <2>2. g.node \notin deleted /\ g.at \notin deleted /\ g.devices \notin deleted
    <3>1. L + 1 \notin deleted /\ 0 \notin deleted
      BY <1>1
    <3>2. CASE Top.node = -1
      BY <3>1, <3>2 DEF L
    <3>3. CASE Top.node > 0
      <4>1. Top.node \notin deleted /\ Top.at \notin deleted /\ Top.devices \notin deleted
        BY <1>1, <2>1, <3>3
      <4> QED
        BY <3>1, <3>3, <4>1 DEF L
    <3> QED
      BY <3>2, <3>3
  <2>3. \A k \in 1..n : frames'[k].node > 0 /\ (frames'[k].todo # <<>> \/ ~Hole) =>
          frames'[k].node \notin deleted /\ frames'[k].at \notin deleted
          /\ frames'[k].devices \notin deleted
    <3> SUFFICES ASSUME NEW k \in 1..n, frames'[k].node > 0, frames'[k].todo # <<>> \/ ~Hole
                 PROVE  frames'[k].node \notin deleted /\ frames'[k].at \notin deleted
                        /\ frames'[k].devices \notin deleted
      OBVIOUS
    <3>1. CASE k = n
      BY <1>2, <2>2, <3>1
    <3>2. CASE k \in 1..(n - 1)
      BY <1>2, <2>1, <3>2
    <3> QED
      BY <1>4, <3>1, <3>2
  <2> QED
    BY <1>2, <2>0, <2>3 DEF OcAlive
<1>13. OcOlder'
  <2>1. \A i \in 1..L : nodes[i] \in 0..(i - 1)
    BY DEF L, OcInv, OcOlder
  <2>2. \A i \in 1..(L + 1) : nodes'[i] \in 0..(i - 1)
    <3> SUFFICES ASSUME NEW i \in 1..(L + 1) PROVE nodes'[i] \in 0..(i - 1)
      OBVIOUS
    <3>1. CASE i \in 1..L
      BY <1>3, <2>1, <3>1
    <3>2. CASE i = L + 1
      <4>1. nodes'[i] = p /\ p \in 0..L /\ i - 1 = L
        BY <1>1, <1>3, <3>2 DEF L
      <4> QED
        BY <4>1
    <3>3. i \in 1..L \/ i = L + 1
      BY <1>0
    <3> QED
      BY <3>1, <3>2, <3>3
  <2> QED
    BY <1>3, <2>2 DEF OcOlder
<1>14. OcRooted'
  <2>1. \A i \in 1..L :
          i \notin deleted => IF nodes[i] = 0 THEN \E k \in 1..n : frames[k].node = i
                              ELSE nodes[i] \notin deleted
    BY DEF L, n, OcInv, OcRooted
  <2>2. ASSUME NEW i \in 1..L, i \notin deleted
        PROVE  IF nodes'[i] = 0 THEN \E k \in 1..n : frames'[k].node = i
               ELSE nodes'[i] \notin deleted
    <3>1. CASE nodes[i] = 0
      <4>1. PICK k \in 1..n : frames[k].node = i
        BY <2>1, <2>2, <3>1
      <4>2. frames'[k].node = i
        <5>1. CASE k = n
          BY <1>1, <1>2, <4>1, <5>1
        <5>2. CASE k \in 1..(n - 1)
          BY <1>2, <4>1, <5>2
        <5> QED
          BY <1>4, <5>1, <5>2
      <4> QED
        BY <1>3, <3>1, <4>2
    <3>2. CASE nodes[i] # 0
      BY <1>3, <2>1, <2>2, <3>2
    <3> QED
      BY <3>1, <3>2
  <2>3. IF nodes'[L + 1] = 0 THEN \E k \in 1..n : frames'[k].node = L + 1
        ELSE nodes'[L + 1] \notin deleted
    BY <1>1, <1>2, <1>3 DEF L
  <2>4. \A i \in 1..(L + 1) : i = L + 1 \/ i \in 1..L
    BY <1>1
  <2> QED
    BY <1>2, <1>3, <2>2, <2>3, <2>4 DEF OcRooted
<1>15. OcWhole' /\ OcKnown'
  <2>1. (~Hole => \A i \in deleted : nodes[i] = 0 \/ nodes[i] \in deleted) /\ (misused = 1 => Hole)
    BY DEF OcInv, OcWhole, OcKnown
  <2>2. \A i \in deleted : nodes'[i] = nodes[i]
    BY <1>1, <1>3
  <2> QED
    BY <2>1, <2>2 DEF OcWhole, OcKnown, Hole
<1>16. frames' # <<>> /\ Top' = g
  <2>1. Len(frames') # 0
    BY <1>1, <1>2
  <2>2. frames' # <<>>
    BY <2>1
  <2>3. Top' = frames'[Len(frames')]
    BY DEF Top
  <2> QED
    BY <1>2, <2>2, <2>3
<1> QED
  BY <1>2, <1>3, <1>7, <1>8, <1>9, <1>10, <1>11, <1>12, <1>13, <1>14, <1>15, <1>16

(* While the package is being made only frames, trees and failures change. *)
LEMMA InPackage ==
  ASSUME OcInv, frames # <<>>, UNCHANGED <<stage, call, strings, result>>, frames' # <<>>,
         frames' \in Seq(Frame), \A k \in 1..Len(frames') : frames'[k].todo \in Todo(frames'[k].fn),
         misused' \in {0, 1}, nodes' \in Seq(Nat), deleted' \subseteq DOMAIN nodes',
         "topic_make" \in failed' <=> "topic_make" \in failed,
         failed' \subseteq Tolerated \cup {"topic_make"} \/ (Top'.node = 0 /\ Top'.fn # "kvs"),
         Top'.node = 0 => failed' # {} /\ Top'.todo = <<>>
  PROVE  OcShape' /\ OcTold'
<1>1. stage = "package" /\ stage' = "package"
  BY TopIs
<1>2. OcShape'
  <2>1. OcTypeOK'
    BY <1>1 DEF OcInv, OcShape, OcTypeOK
  <2>2. call.fn \in PackageFns /\ call.todo \in Todo(call.fn) /\ ArrayFirst(call.todo)
    BY DEF OcInv, OcShape
  <2>3. call' = call
    OBVIOUS
  <2> QED
    BY <2>1, <2>2, <2>3 DEF OcShape
<1>3. strings \subseteq {"topic"} /\ ("topic" \in strings <=> "topic_make" \notin failed)
  BY <1>1 DEF OcInv, OcTold
<1>4. call.device /\ call.complete
  BY <1>1 DEF OcInv, OcTold
<1>5. call' = call /\ strings' = strings
  OBVIOUS
<1> QED
  BY <1>1, <1>2, <1>3, <1>4, <1>5 DEF OcTold

(* A function is entered, or returns NULL at once: the trees stay.         *)
LEMMA NoTreeYet ==
  ASSUME OcInv, frames # <<>>, UNCHANGED <<nodes, deleted, misused>>, Hole' = Hole,
         NEW m \in {Len(frames) - 1, Len(frames)}, m = Len(frames) - 1 => Top.node = -1,
         NEW g \in Frame, g.todo \in Todo(g.fn), g.node \in {-1, 0}, g.devices = 0,
         ArrayFirst(g.todo),
         frames' \in Seq(Frame), Len(frames') = m + 1, frames'[m + 1] = g,
         \A k \in 1..m : frames'[k] = frames[k],
         m >= 1 => /\ frames[m].node > 0 /\ frames[m].todo # <<>>
                   /\ Head(frames[m].todo).kind = g.fn
  PROVE  /\ misused' \in {0, 1} /\ nodes' \in Seq(Nat) /\ deleted' \subseteq DOMAIN nodes'
         /\ \A k \in 1..Len(frames') : frames'[k].todo \in Todo(frames'[k].fn)
         /\ OcWaiting' /\ OcNumbers' /\ OcOrder' /\ OcAlive'
         /\ OcOlder' /\ OcRooted' /\ OcWhole' /\ OcKnown'
         /\ frames' # <<>> /\ Top' = g
<1> DEFINE n == Len(frames)
<1>1. /\ n \in Nat /\ n \in 1..n /\ nodes \in Seq(Nat) /\ deleted \subseteq 1..Len(nodes)
      /\ Top = frames[n] /\ Len(nodes) \in Nat
  BY TopIs
<1>2. misused \in {0, 1} /\ deleted \subseteq DOMAIN nodes
  BY DEF OcInv, OcShape, OcTypeOK
<1>3. m \in {n - 1, n} /\ (m = n - 1 => frames[n].node = -1)
  BY <1>1
<1>4. \A k \in 1..(n - 1) :
        /\ frames[k].node > 0 /\ frames[k].todo # <<>>
        /\ Head(frames[k].todo).kind = frames[k + 1].fn
  BY DEF OcInv, OcWaiting
<1>5. \A k \in 1..n :
        /\ frames[k].todo \in Todo(frames[k].fn)
        /\ frames[k].node \in Int
        /\ frames[k].node \in -1..Len(nodes)
        /\ frames[k].devices # 0 \/ ArrayFirst(frames[k].todo)
        /\ frames[k].node = -1 => frames[k].devices = 0
        /\ frames[k].node > 0 =>
             /\ nodes[frames[k].node] = 0
             /\ frames[k].at \in 1..Len(nodes) /\ frames[k].devices \in 0..Len(nodes)
  BY FrameHas DEF OcInv, OcNumbers, OcShape
<1> HIDE DEF n
<1>6. m \in Nat /\ n \in Nat /\ \A k \in 1..(m + 1) : k = m + 1 \/ k \in 1..m
  <2>1. n \in Nat /\ n >= 1
    BY <1>1
  <2>2. m \in Nat
    BY <1>3, <2>1
  <2> QED
    BY <2>1, <2>2
<1>7. \A k \in 1..m : k \in 1..n
  BY <1>3, <1>6
<1>8. \A k \in 1..Len(frames') : frames'[k].todo \in Todo(frames'[k].fn)
  BY <1>5, <1>6, <1>7
<1>9. OcWaiting'
  <2>1. ASSUME NEW k \in 1..m
        PROVE  /\ frames'[k].node > 0 /\ frames'[k].todo # <<>>
               /\ Head(frames'[k].todo).kind = frames'[k + 1].fn
    <3>1. CASE k = m
      BY <1>6, <3>1
    <3>2. CASE k # m
      <4>1. k \in 1..(n - 1) /\ k + 1 \in 1..m
        BY <1>3, <1>6, <3>2
      <4> QED
        BY <1>4, <4>1
    <3> QED
      BY <3>1, <3>2
  <2>2. (m + 1) - 1 = m
    BY <1>6
  <2> QED
    BY <2>1, <2>2 DEF OcWaiting
<1>10. OcNumbers'
  <2>1. ASSUME NEW k \in 1..(m + 1)
        PROVE /\ frames'[k].node \in -1..Len(nodes)
              /\ frames'[k].devices # 0 \/ ArrayFirst(frames'[k].todo)
              /\ frames'[k].node = -1 => frames'[k].devices = 0
              /\ frames'[k].node > 0 =>
                   /\ nodes[frames'[k].node] = 0
                   /\ frames'[k].at \in 1..Len(nodes) /\ frames'[k].devices \in 0..Len(nodes)
    <3>1. CASE k = m + 1
      <4>1. frames'[k] = g /\ g.node \in -1..Len(nodes) /\ ~(g.node > 0)
        BY <1>1, <3>1
      <4> QED
        BY <4>1
    <3>2. CASE k \in 1..m
      <4>1. frames'[k] = frames[k] /\ k \in 1..n
        BY <1>7, <3>2
      <4> QED
        BY <1>5, <4>1
    <3> QED
      BY <1>6, <3>1, <3>2
  <2> QED
    BY <2>1 DEF OcNumbers
<1>11. OcOrder' /\ OcAlive'
  <2>1. ASSUME NEW k \in 1..(m + 1), frames'[k].node > 0
        PROVE  k \in 1..m /\ k \in 1..n /\ frames'[k] = frames[k]
               /\ \A j \in 1..(k - 1) : frames'[j] = frames[j]
    <3>1. k # m + 1
      BY <2>1
    <3> QED
      BY <1>6, <1>7, <3>1
  <2>2. OcOrder'
    <3>1. \A k \in 1..n : \A j \in 1..(k - 1) :
            frames[k].node > 0 =>
              /\ frames[j].node < frames[k].node
              /\ frames[j].at < frames[k].node
              /\ frames[j].devices < frames[k].node
      BY DEF n, OcInv, OcOrder
    <3>2. \A k \in 1..(m + 1) : \A j \in 1..(k - 1) :
            frames'[k].node > 0 =>
              /\ frames'[j].node < frames'[k].node
              /\ frames'[j].at < frames'[k].node
              /\ frames'[j].devices < frames'[k].node
      BY <2>1, <3>1
    <3> QED
      BY <3>2 DEF OcOrder
  <2>3. OcAlive'
    <3>1. \A k \in 1..n : frames[k].node > 0 /\ (frames[k].todo # <<>> \/ ~Hole) =>
            frames[k].node \notin deleted /\ frames[k].at \notin deleted
            /\ frames[k].devices \notin deleted
      BY DEF n, OcInv, OcAlive
    <3>2. \A k \in 1..(m + 1) : frames'[k].node > 0 /\ (frames'[k].todo # <<>> \/ ~Hole') =>
            frames'[k].node \notin deleted /\ frames'[k].at \notin deleted
            /\ frames'[k].devices \notin deleted
      BY <2>1, <3>1
    <3> QED
      BY <3>2 DEF OcAlive
  <2> QED
    BY <2>2, <2>3
<1>12. OcRooted'
  <2>1. \A i \in 1..Len(nodes) :
          i \notin deleted => IF nodes[i] = 0 THEN \E k \in 1..n : frames[k].node = i
                              ELSE nodes[i] \notin deleted
    BY DEF n, OcInv, OcRooted
  <2>2. ASSUME NEW k \in 1..n, frames[k].node > 0
        PROVE  k \in 1..(m + 1) /\ frames'[k].node = frames[k].node
    <3>1. k \in 1..m
      BY <1>3, <1>6, <2>2
    <3> QED
      BY <1>6, <3>1
  <2>3. \A i \in 1..Len(nodes) :
          i \notin deleted => IF nodes[i] = 0 THEN \E k \in 1..(m + 1) : frames'[k].node = i
                              ELSE nodes[i] \notin deleted
    <3> SUFFICES ASSUME NEW i \in 1..Len(nodes), i \notin deleted, nodes[i] = 0
                 PROVE  \E k \in 1..(m + 1) : frames'[k].node = i
      BY <2>1
    <3>1. PICK k \in 1..n : frames[k].node = i
      BY <2>1
    <3> QED
      BY <2>2, <3>1
  <2> QED
    BY <2>3 DEF OcRooted
<1>13. OcOlder' /\ OcWhole' /\ OcKnown'
  BY DEF OcInv, OcOlder, OcWhole, OcKnown
<1>14. frames' # <<>> /\ Top' = g
  <2>1. Len(frames') # 0
    BY <1>6
  <2>2. frames' # <<>> /\ Top' = frames'[Len(frames')]
    BY <2>1 DEF Top
  <2> QED
    BY <2>2
<1> QED
  BY <1>1, <1>2, <1>8, <1>9, <1>10, <1>11, <1>12, <1>13, <1>14

(* A finished node is attached where its function was called.              *)
LEMMA Attaches ==
  ASSUME OcInv, Len(frames) > 1, Top.node > 0, Top.todo = <<>>,
         Attach(Top.node, frames[Len(frames) - 1].at), failed' = failed,
         NEW g \in Frame, g.fn = frames[Len(frames) - 1].fn, g.node = frames[Len(frames) - 1].node,
         g.at = frames[Len(frames) - 1].at, g.devices = frames[Len(frames) - 1].devices,
         g.todo = Tail(frames[Len(frames) - 1].todo),
         frames' \in Seq(Frame), Len(frames') = Len(frames) - 1, frames'[Len(frames) - 1] = g,
         \A k \in 1..(Len(frames) - 2) : frames'[k] = frames[k]
  PROVE  /\ misused' \in {0, 1} /\ nodes' \in Seq(Nat) /\ deleted' \subseteq DOMAIN nodes'
         /\ \A k \in 1..Len(frames') : frames'[k].todo \in Todo(frames'[k].fn)
         /\ OcWaiting' /\ OcNumbers' /\ OcOrder' /\ OcAlive'
         /\ OcOlder' /\ OcRooted' /\ OcWhole' /\ OcKnown'
         /\ frames' # <<>> /\ Top' = g
<1> DEFINE n == Len(frames)
           L == Len(nodes)
           c == Top.node
           a == frames[Len(frames) - 1].at
<1>0. frames # <<>>
  OBVIOUS
<1>1. /\ n \in Nat /\ n \in 1..n /\ L \in Nat /\ nodes \in Seq(Nat) /\ deleted \subseteq 1..L
      /\ Top = frames[n] /\ c \in Int /\ c \in -1..L
  BY <1>0, TopIs
<1>2. misused \in {0, 1}
  BY DEF OcInv, OcShape, OcTypeOK
<1>3. n - 1 \in 1..n /\ n - 1 \in 1..(n - 1) /\ (n - 1) + 1 = n /\ n - 1 \in Nat /\ n > 1
  BY <1>1
<1>4. \A k \in 1..(n - 1) :
        /\ frames[k].node > 0 /\ frames[k].todo # <<>>
        /\ Head(frames[k].todo).kind = frames[k + 1].fn
  BY DEF OcInv, OcWaiting
<1>5. \A k \in 1..n :
        /\ frames[k].fn \in OcFns
        /\ frames[k].todo \in Todo(frames[k].fn)
        /\ frames[k].todo \in Seq(OcItems)
        /\ frames[k].node \in Int /\ frames[k].at \in Nat /\ frames[k].devices \in Nat
        /\ frames[k].node \in -1..L
        /\ frames[k].devices # 0 \/ ArrayFirst(frames[k].todo)
        /\ frames[k].node > 0 =>
             /\ nodes[frames[k].node] = 0
             /\ frames[k].at \in 1..L /\ frames[k].devices \in 0..L
  BY FrameHas DEF OcInv, OcNumbers, OcShape
<1>6. \A k \in 1..n : \A j \in 1..(k - 1) :
        frames[k].node > 0 =>
          /\ frames[j].node < frames[k].node
          /\ frames[j].at < frames[k].node
          /\ frames[j].devices < frames[k].node
  BY DEF OcInv, OcOrder
<1>7. \A k \in 1..n : frames[k].node > 0 /\ (frames[k].todo # <<>> \/ ~Hole) =>
        frames[k].node \notin deleted /\ frames[k].at \notin deleted
        /\ frames[k].devices \notin deleted
  BY DEF OcInv, OcAlive
<1>8. \A i \in 1..L :
        i \notin deleted => IF nodes[i] = 0 THEN \E k \in 1..n : frames[k].node = i
                            ELSE nodes[i] \notin deleted
  BY DEF OcInv, OcRooted
<1>9. \A i \in 1..L : nodes[i] \in 0..(i - 1)
  BY DEF OcInv, OcOlder
<1>10. nodes' = [nodes EXCEPT ![c] = a] /\ deleted' = deleted
       /\ misused' = (IF {c, a} \cap deleted # {} THEN 1 ELSE misused) /\ (Hole' <=> Hole)
  BY DEF Attach, Use, Hole
<1>11. frames' \in Seq(Frame) /\ Len(frames') = n - 1 /\ frames'[n - 1] = g
       /\ \A k \in 1..(n - 2) : frames'[k] = frames[k]
  OBVIOUS
<1>12. c = frames[n].node /\ c > 0 /\ c \in 1..L /\ a \in 1..L /\ a < c /\ a \notin deleted /\ nodes[c] = 0
  <2>1. c = frames[n].node /\ c > 0 /\ n \in 1..n
    BY <1>1
  <2>2. c \in 1..L
    BY <1>1, <2>1
  <2>3. nodes[c] = 0
    BY <1>5, <2>1
  <2>4. frames[n - 1].node > 0 /\ frames[n - 1].todo # <<>>
    BY <1>3, <1>4
  <2>5. a \in 1..L
    BY <1>3, <1>5, <2>4
  <2>6. a < c
    BY <1>3, <1>6, <2>1
  <2>7. a \notin deleted
    BY <1>3, <1>7, <2>4
  <2> QED
    BY <2>1, <2>2, <2>3, <2>5, <2>6, <2>7
<1>13. ~Hole => c \notin deleted
  BY <1>1, <1>7, <1>12
<1>14. g.node = frames[n - 1].node /\ g.at = frames[n - 1].at /\ g.devices = frames[n - 1].devices
       /\ g.fn = frames[n - 1].fn /\ g.todo = Tail(frames[n - 1].todo)
  OBVIOUS
<1>15. Top' = frames'[Len(frames')]
  BY DEF Top
<1> HIDE DEF n, L, c, a
<1>16. \A k \in 1..(n - 1) : k = n - 1 \/ k \in 1..(n - 2)
  BY <1>1
<1>17. \A k \in 1..(n - 1) :
         /\ k \in 1..n
         /\ frames'[k].node = frames[k].node /\ frames'[k].at = frames[k].at
         /\ frames'[k].devices = frames[k].devices /\ frames'[k].fn = frames[k].fn
         /\ frames'[k].node < c /\ frames'[k].node > 0
  <2> SUFFICES ASSUME NEW k \in 1..(n - 1)
               PROVE /\ k \in 1..n
                     /\ frames'[k].node = frames[k].node /\ frames'[k].at = frames[k].at
                     /\ frames'[k].devices = frames[k].devices /\ frames'[k].fn = frames[k].fn
                     /\ frames'[k].node < c /\ frames'[k].node > 0
    OBVIOUS
  <2>1. k \in 1..n /\ frames[k].node < c /\ frames[k].node > 0
    BY <1>1, <1>4, <1>6, <1>12
  <2> QED
    BY <1>11, <1>14, <1>16, <2>1
<1>18. g.todo \in Todo(g.fn) /\ (g.devices # 0 \/ ArrayFirst(g.todo))
  <2> DEFINE caller == frames[n - 1]
  <2>1. /\ caller.fn \in OcFns /\ caller.todo \in Todo(caller.fn) /\ caller.todo \in Seq(OcItems)
        /\ caller.todo # <<>> /\ (caller.devices # 0 \/ ArrayFirst(caller.todo))
    BY <1>3, <1>4, <1>5
  <2>2. Head(caller.todo).kind \in OcFns
    <3>1. Head(frames[n - 1].todo).kind = frames[(n - 1) + 1].fn
      BY <1>3, <1>4
    <3>2. frames[n].fn \in OcFns
      BY <1>1, <1>5
    <3> QED
      BY <1>3, <3>1, <3>2
  <2>3. Head(caller.todo).kind # "devices"
    BY <2>2 DEF OcFns, PackageFns
  <2>4. Tail(caller.todo) \in Todo(caller.fn)
    BY <2>1, TodoHead
  <2>5. caller.devices # 0 \/ ArrayFirst(Tail(caller.todo))
    BY <2>1, <2>3, ArrayStaysFirst
  <2> QED
    BY <1>14, <2>4, <2>5
<1>19. nodes' \in Seq(Nat) /\ Len(nodes') = L /\ nodes'[c] = a
       /\ (\A i \in 1..L : i # c => nodes'[i] = nodes[i]) /\ DOMAIN nodes' = 1..L
  BY <1>1, <1>10, <1>12 DEF L
<1>20. misused' \in {0, 1} /\ deleted' \subseteq DOMAIN nodes'
  BY <1>1, <1>2, <1>10, <1>19
<1>21. \A k \in 1..Len(frames') : frames'[k].todo \in Todo(frames'[k].fn)
  <2>1. \A k \in 1..(n - 2) : k \in 1..n
    BY <1>1
  <2> QED
    BY <1>5, <1>11, <1>16, <1>18, <2>1
<1>22. OcWaiting'
  <2> SUFFICES ASSUME NEW k \in 1..((n - 1) - 1)
               PROVE  /\ frames'[k].node > 0 /\ frames'[k].todo # <<>>
                      /\ Head(frames'[k].todo).kind = frames'[k + 1].fn
    BY <1>11 DEF OcWaiting
  <2>1. k \in 1..(n - 1) /\ k \in 1..(n - 2) /\ k + 1 \in 1..(n - 1)
    BY <1>1
  <2>2. frames'[k] = frames[k] /\ frames'[k + 1].fn = frames[k + 1].fn
    BY <1>11, <1>17, <2>1
  <2> QED
    BY <1>4, <2>1, <2>2
<1>23. OcNumbers'
  <2> SUFFICES ASSUME NEW k \in 1..(n - 1)
               PROVE  /\ frames'[k].node \in -1..L
                      /\ frames'[k].devices # 0 \/ ArrayFirst(frames'[k].todo)
                      /\ frames'[k].node = -1 => frames'[k].devices = 0
                      /\ frames'[k].node > 0 =>
                           /\ nodes'[frames'[k].node] = 0
                           /\ frames'[k].at \in 1..L /\ frames'[k].devices \in 0..L
    BY <1>11, <1>19 DEF OcNumbers
  <2>1. /\ frames[k].node \in Int /\ frames[k].node \in -1..L /\ nodes[frames[k].node] = 0
        /\ frames[k].at \in 1..L /\ frames[k].devices \in 0..L
        /\ frames[k].devices # 0 \/ ArrayFirst(frames[k].todo)
    BY <1>4, <1>5, <1>17
  <2>2. frames[k].node # -1 /\ frames[k].node # c /\ frames[k].node \in 1..L
    <3>1. frames[k].node < c /\ frames[k].node > 0
      BY <1>17
    <3>2. L \in Nat /\ c \in 1..L
      BY <1>1, <1>12
    <3> QED
      BY <2>1, <3>1, <3>2
  <2>3. nodes'[frames[k].node] = 0
    BY <1>19, <2>1, <2>2
  <2>4. frames'[k].devices # 0 \/ ArrayFirst(frames'[k].todo)
    BY <1>11, <1>16, <1>18, <2>1
  <2> QED
    BY <1>17, <2>1, <2>2, <2>3, <2>4
<1>24. OcOrder'
  <2> SUFFICES ASSUME NEW k \in 1..(n - 1), NEW j \in 1..(k - 1), frames'[k].node > 0
               PROVE  /\ frames'[j].node < frames'[k].node
                      /\ frames'[j].at < frames'[k].node
                      /\ frames'[j].devices < frames'[k].node
    BY <1>11 DEF OcOrder
  <2>1. j \in 1..(n - 1) /\ k \in 1..n
    BY <1>1
  <2> QED
    BY <1>6, <1>17, <2>1
<1>25. OcAlive'
  <2>1. \A k \in 1..(n - 1) : frames'[k].node \notin deleted /\ frames'[k].at \notin deleted
                              /\ frames'[k].devices \notin deleted
    BY <1>4, <1>7, <1>17
  <2> QED
    BY <1>10, <1>11, <2>1 DEF OcAlive
<1>26. OcOlder'
  <2> SUFFICES ASSUME NEW i \in 1..L PROVE nodes'[i] \in 0..(i - 1)
    BY <1>19 DEF OcOlder
  <2>1. CASE i = c
    <3>1. a \in 0..(c - 1)
      BY <1>1, <1>12
    <3> QED
      BY <1>19, <2>1, <3>1
  <2>2. CASE i # c
    BY <1>9, <1>19, <2>2
  <2> QED
    BY <2>1, <2>2
<1>27. OcRooted'
  <2> SUFFICES ASSUME NEW i \in 1..L, i \notin deleted
               PROVE  IF nodes'[i] = 0 THEN \E k \in 1..(n - 1) : frames'[k].node = i
                      ELSE nodes'[i] \notin deleted
    BY <1>10, <1>11, <1>19 DEF OcRooted
  <2>1. CASE i = c
    <3>1. a # 0
      BY <1>12
    <3> QED
      BY <1>12, <1>19, <2>1, <3>1
  <2>2. CASE i # c /\ nodes[i] = 0
    <3>1. PICK k \in 1..n : frames[k].node = i
      BY <1>8, <2>2
    <3>2. k # n
      BY <1>12, <2>2, <3>1
    <3>3. k \in 1..(n - 1)
      BY <1>1, <3>2
    <3> QED
      BY <1>17, <1>19, <2>2, <3>1, <3>3
  <2>3. CASE i # c /\ nodes[i] # 0
    BY <1>8, <1>19, <2>3
  <2> QED
    BY <2>1, <2>2, <2>3
<1>28. OcWhole' /\ OcKnown'
  <2>1. (~Hole => \A i \in deleted : nodes[i] = 0 \/ nodes[i] \in deleted) /\ (misused = 1 => Hole)
    BY DEF OcInv, OcWhole, OcKnown
  <2>2. OcKnown'
    <3>1. misused' = 1 => misused = 1 \/ c \in deleted
      BY <1>10, <1>12
    <3> QED
      BY <1>10, <1>13, <2>1, <3>1 DEF OcKnown
  <2>3. OcWhole'
    <3> SUFFICES ASSUME ~Hole, NEW i \in deleted PROVE nodes'[i] = 0 \/ nodes'[i] \in deleted
      BY <1>10 DEF OcWhole
    <3>1. i # c /\ i \in 1..L
      BY <1>1, <1>13
    <3> QED
      BY <1>19, <2>1, <3>1
  <2> QED
    BY <2>2, <2>3
<1>29. frames' # <<>> /\ Top' = g
  <2>0. n - 1 # 0
    BY <1>3
  <2>1. Len(frames') # 0
    BY <1>11, <2>0
  <2>2. frames' # <<>>
    BY <2>1
  <2> QED
    BY <1>11, <1>15, <2>2
<1> QED
  BY <1>19, <1>20, <1>21, <1>22, <1>23, <1>24, <1>25, <1>26, <1>27, <1>28, <1>29

-----------------------------------------------------------------------------
(* Before the package function, and after it, there is no frame.           *)
LEMMA NoFrame ==
  ASSUME OcInv, stage # "package"
  PROVE  frames = <<>> /\ Len(frames) = 0
BY DEF OcInv, OcTold

(* A call that begins has made nothing.                                    *)
LEMMA StepBegin == ASSUME OcInv, NEW c \in Calls, BeginCall(c) PROVE OcInv'
<1>1. frames = <<>> /\ frames' = <<>> /\ Len(frames') = 0 /\ nodes' = <<>> /\ Len(nodes') = 0
      /\ deleted' = {} /\ misused' = 0 /\ failed' = {} /\ call' = c /\ strings' = strings
      /\ strings = {} /\ stage = "idle" /\ DOMAIN nodes' = {}
  BY NoFrame DEF BeginCall, OcInv, OcTold
<1>2. \/ stage' = "topic" /\ result' = "none" /\ c.device /\ c.complete
      \/ stage' = "idle" /\ result' = "parafmt"
  BY DEF BeginCall
<1>3. c.fn \in PackageFns /\ c.todo \in Todo(c.fn) /\ ArrayFirst(c.todo)
  BY OcAssumption
<1>4. OcShape'
  BY <1>1, <1>2, <1>3 DEF OcShape, OcTypeOK
<1>5. OcWaiting' /\ OcNumbers' /\ OcOrder' /\ OcAlive' /\ OcOlder' /\ OcRooted'
  BY <1>1 DEF OcWaiting, OcNumbers, OcOrder, OcAlive, OcOlder, OcRooted
<1>6. OcWhole' /\ OcKnown'
  BY <1>1 DEF OcWhole, OcKnown
<1>7. OcTold'
  BY <1>1, <1>2 DEF OcTold
<1> QED
  BY <1>4, <1>5, <1>6, <1>7 DEF OcInv

(* The package function is entered whether or not there is a topic.        *)
LEMMA StepTopic == ASSUME OcInv, topic_make PROVE OcInv'
<1> DEFINE g == [fn |-> call.fn, node |-> NotMade, devices |-> 0, at |-> 0, todo |-> call.todo]
<1>1. stage = "topic" /\ nodes = <<>> /\ failed = {} /\ strings = {} /\ call.device /\ call.complete
  BY DEF topic_make, OcInv, OcTold
<1>2. /\ stage' = "package" /\ call' = call /\ nodes' = nodes /\ deleted' = deleted
      /\ misused' = misused /\ result' = result /\ frames' = <<g>>
      /\ \/ strings' = {"topic"} /\ failed' = {}
         \/ strings' = {} /\ failed' = {"topic_make"}
  BY <1>1 DEF topic_make
<1>3. call.fn \in PackageFns /\ call.todo \in Todo(call.fn) /\ ArrayFirst(call.todo)
      /\ call.fn \in OcFns
  BY DEF OcInv, OcShape, OcFns
<1>4. call.todo \in Seq(OcItems)
  BY <1>3, TodoItems
<1>5. g \in Frame /\ g.fn = call.fn /\ g.node = -1 /\ g.devices = 0 /\ g.todo = call.todo
  BY <1>3, <1>4 DEF Frame, NotMade
<1> HIDE DEF g
<1>6. frames' \in Seq(Frame) /\ Len(frames') = 1 /\ frames'[1] = g /\ frames' # <<>>
  BY <1>2, <1>5
<1>7. OcTypeOK /\ nodes \in Seq(Nat) /\ Len(nodes) = 0 /\ deleted \subseteq DOMAIN nodes
  BY <1>1 DEF OcInv, OcShape, OcTypeOK
<1>8. OcShape'
  <2>1. OcTypeOK'
    BY <1>2, <1>7 DEF OcTypeOK
  <2>2. \A k \in 1..Len(frames') : frames'[k].todo \in Todo(frames'[k].fn)
    BY <1>3, <1>5, <1>6
  <2> QED
    BY <1>2, <1>3, <1>6, <2>1, <2>2 DEF OcShape
<1>9. OcWaiting' /\ OcOrder'
  BY <1>6 DEF OcWaiting, OcOrder
<1>10. OcNumbers' /\ OcAlive'
  BY <1>2, <1>3, <1>5, <1>6, <1>7 DEF OcNumbers, OcAlive
<1>11. OcOlder' /\ OcRooted'
  BY <1>2, <1>7 DEF OcOlder, OcRooted
<1>12. deleted = {} /\ (misused = 1 => FALSE)
  <2>1. ~Hole
    BY <1>1 DEF Hole
  <2>2. deleted = {}
    BY <1>7
  <2> QED
    BY <2>1, <2>2 DEF OcInv, OcKnown
<1>13. OcWhole' /\ OcKnown'
  BY <1>2, <1>12 DEF OcWhole, OcKnown
<1>14. Top' = g
  <2>1. Top' = frames'[Len(frames')]
    BY DEF Top
  <2> QED
    BY <1>6, <2>1
<1>15. OcTold'
  BY <1>1, <1>2, <1>5, <1>6, <1>14 DEF OcTold
<1> QED
  BY <1>8, <1>9, <1>10, <1>11, <1>13, <1>15 DEF OcInv

(* What failed so far, while the innermost function goes on.               *)
LEMMA GoesOn ==
  ASSUME OcInv, frames # <<>>, Top.node # 0
  PROVE  failed \subseteq Tolerated \cup {"topic_make"}
BY TopIs DEF OcInv, OcTold

(* Its names are not those of the other failures.                          *)
LEMMA FnNames ==
  /\ "topic_make" \notin OcFns /\ "root" \notin OcFns /\ "print" \notin OcFns
  /\ "devices" \notin OcFns /\ "leaf" \notin OcFns /\ "device" \notin OcFns
BY DEF OcFns, PackageFns

(* A frame whose node is made.                                             *)
LEMMA FrameMade ==
  ASSUME NEW f \in Frame, NEW x \in Nat, NEW g, g = [f EXCEPT !.node = x, !.at = x]
  PROVE  /\ g \in Frame /\ g.fn = f.fn /\ g.node = x /\ g.devices = f.devices
         /\ g.at = x /\ g.todo = f.todo
<1>1. PICK u \in OcFns, v \in Int, w \in Nat, y \in Nat, z \in Seq(OcItems) :
        f = [fn |-> u, node |-> v, devices |-> w, at |-> y, todo |-> z]
  BY DEF Frame
<1>2. f.fn = u /\ f.node = v /\ f.devices = w /\ f.at = y /\ f.todo = z
  BY <1>1
<1>3. g = [fn |-> u, node |-> x, devices |-> w, at |-> x, todo |-> z]
  BY <1>1, <1>2
<1> QED
  BY <1>2, <1>3 DEF Frame

(* A frame that will return NULL ...                                       *)
LEMMA FrameNull ==
  ASSUME NEW f \in Frame, NEW g, g = [f EXCEPT !.node = 0, !.todo = <<>>]
  PROVE  /\ g \in Frame /\ g.fn = f.fn /\ g.node = 0 /\ g.devices = f.devices
         /\ g.at = f.at /\ g.todo = <<>>
<1>1. PICK u \in OcFns, v \in Int, w \in Nat, y \in Nat, z \in Seq(OcItems) :
        f = [fn |-> u, node |-> v, devices |-> w, at |-> y, todo |-> z]
  BY DEF Frame
<1>2. f.fn = u /\ f.node = v /\ f.devices = w /\ f.at = y /\ f.todo = z
  BY <1>1
<1>3. g = [fn |-> u, node |-> 0, devices |-> w, at |-> y, todo |-> <<>>]
  BY <1>1, <1>2
<1>4. <<>> \in Seq(OcItems) /\ 0 \in Int
  OBVIOUS
<1> QED
  BY <1>2, <1>3, <1>4 DEF Frame

(* ... or its deleted node.                                                *)
LEMMA FrameDone ==
  ASSUME NEW f \in Frame, NEW g, g = [f EXCEPT !.todo = <<>>]
  PROVE  /\ g \in Frame /\ g.fn = f.fn /\ g.node = f.node /\ g.devices = f.devices
         /\ g.at = f.at /\ g.todo = <<>>
<1>1. PICK u \in OcFns, v \in Int, w \in Nat, y \in Nat, z \in Seq(OcItems) :
        f = [fn |-> u, node |-> v, devices |-> w, at |-> y, todo |-> z]
  BY DEF Frame
<1>2. f.fn = u /\ f.node = v /\ f.devices = w /\ f.at = y /\ f.todo = z
  BY <1>1
<1>3. g = [fn |-> u, node |-> v, devices |-> w, at |-> y, todo |-> <<>>]
  BY <1>1, <1>2
<1>4. <<>> \in Seq(OcItems) /\ 0 \in Int
  OBVIOUS
<1> QED
  BY <1>2, <1>3, <1>4 DEF Frame

(* A frame that has attached something, which may be what follows goes to. *)
LEMMA FrameNext ==
  ASSUME NEW f \in Frame, NEW d \in Nat, NEW a \in Nat, NEW t \in Seq(OcItems),
         NEW g, g = [f EXCEPT !.todo = t, !.devices = d, !.at = a]
  PROVE  /\ g \in Frame /\ g.fn = f.fn /\ g.node = f.node /\ g.devices = d
         /\ g.at = a /\ g.todo = t
<1>1. PICK u \in OcFns, v \in Int, w \in Nat, y \in Nat, z \in Seq(OcItems) :
        f = [fn |-> u, node |-> v, devices |-> w, at |-> y, todo |-> z]
  BY DEF Frame
<1>2. f.fn = u /\ f.node = v /\ f.devices = w /\ f.at = y /\ f.todo = z
  BY <1>1
<1>3. g = [fn |-> u, node |-> v, devices |-> d, at |-> a, todo |-> t]
  BY <1>1, <1>2
<1> QED
  BY <1>2, <1>3 DEF Frame

(* A frame that has attached what another function made.                   *)
LEMMA FrameRest ==
  ASSUME NEW f \in Frame, NEW t \in Seq(OcItems), NEW g, g = [f EXCEPT !.todo = t]
  PROVE  /\ g \in Frame /\ g.fn = f.fn /\ g.node = f.node /\ g.devices = f.devices
         /\ g.at = f.at /\ g.todo = t
<1>1. PICK u \in OcFns, v \in Int, w \in Nat, y \in Nat, z \in Seq(OcItems) :
        f = [fn |-> u, node |-> v, devices |-> w, at |-> y, todo |-> z]
  BY DEF Frame
<1>2. f.fn = u /\ f.node = v /\ f.devices = w /\ f.at = y /\ f.todo = z
  BY <1>1
<1>3. g = [fn |-> u, node |-> v, devices |-> w, at |-> y, todo |-> t]
  BY <1>1, <1>2
<1> QED
  BY <1>2, <1>3 DEF Frame

(* A function makes its own node, or returns NULL.                         *)
LEMMA StepCreateNode == ASSUME OcInv, CreateNode PROVE OcInv'
<1>1. frames # <<>> /\ Top.node = -1 /\ UNCHANGED <<stage, call, strings, result>>
      /\ deleted' = deleted /\ misused' = misused
  BY DEF CreateNode, Fresh, NotMade
<1>2. /\ Len(frames) \in Nat /\ Len(frames) \in 1..Len(frames) /\ Top = frames[Len(frames)]
      /\ Below = SubSeq(frames, 1, Len(frames) - 1) /\ Top \in Frame /\ Top.fn \in OcFns
      /\ Top.todo \in Todo(Top.fn) /\ frames \in Seq(Frame) /\ Len(nodes) \in Nat
  BY <1>1, TopIs
<1>3. Top.devices = 0 /\ ArrayFirst(Top.todo)
  BY <1>1, <1>2 DEF OcInv, OcNumbers
<1>4. failed \subseteq Tolerated \cup {"topic_make"}
  BY <1>1, GoesOn
<1>5. CASE /\ NewNode(0) /\ failed' = failed
           /\ frames' = Append(Below, [Top EXCEPT !.node = Len(nodes) + 1, !.at = Len(nodes) + 1])
  <2> DEFINE g == [Top EXCEPT !.node = Len(nodes) + 1, !.at = Len(nodes) + 1]
  <2>1. /\ g \in Frame /\ g.fn = Top.fn /\ g.todo = Top.todo /\ g.devices = 0
        /\ g.node = Len(nodes) + 1 /\ g.at = Len(nodes) + 1
    <3> DEFINE new == Len(nodes) + 1
    <3>1. g = [Top EXCEPT !.node = new, !.at = new]
      OBVIOUS
    <3>2. new \in Nat /\ Top \in Frame
      BY <1>2
    <3> HIDE DEF g, new
    <3>3. /\ g \in Frame /\ g.fn = Top.fn /\ g.node = new /\ g.devices = Top.devices
          /\ g.at = new /\ g.todo = Top.todo
      <4>1. \A f \in Frame : \A x \in Nat : \A h :
              h = [f EXCEPT !.node = x, !.at = x] =>
                /\ h \in Frame /\ h.fn = f.fn /\ h.node = x /\ h.devices = f.devices
                /\ h.at = x /\ h.todo = f.todo
        BY FrameMade
      <4>2. \A h :
              h = [Top EXCEPT !.node = new, !.at = new] =>
                /\ h \in Frame /\ h.fn = Top.fn /\ h.node = new /\ h.devices = Top.devices
                /\ h.at = new /\ h.todo = Top.todo
        BY <3>2, <4>1
      <4> QED
        BY <3>1, <4>2
    <3> QED
      BY <1>3, <3>3 DEF new
  <2>2. frames' = Append(Below, g) /\ nodes' = Append(nodes, 0) /\ 0 \in 0..Len(nodes)
    BY <1>2, <1>5 DEF NewNode
  <2> HIDE DEF g
  <2>3. /\ nodes' \in Seq(Nat) /\ deleted' \subseteq DOMAIN nodes' /\ frames' \in Seq(Frame)
        /\ \A k \in 1..Len(frames') : frames'[k].todo \in Todo(frames'[k].fn)
        /\ OcWaiting' /\ OcNumbers' /\ OcOrder' /\ OcAlive'
        /\ OcOlder' /\ OcRooted' /\ OcWhole' /\ OcKnown'
        /\ frames' # <<>> /\ Top' = g
    BY <1>1, <1>2, <1>3, <1>5, <2>1, <2>2, Grows
  <2>4. misused' \in {0, 1}
    BY <1>1 DEF OcInv, OcShape, OcTypeOK
  <2>5. Top'.node # 0
    BY <1>2, <2>1, <2>3
  <2>6. OcShape' /\ OcTold'
    BY <1>1, <1>4, <1>5, <2>3, <2>4, <2>5, InPackage
  <2> QED
    BY <2>3, <2>6 DEF OcInv
<1>6. CASE /\ frames' = Append(Below, [Top EXCEPT !.node = 0, !.todo = <<>>])
           /\ failed' = failed \cup {IF Top.fn = "kvs" THEN "kvs_root" ELSE "root"}
           /\ UNCHANGED nodes
  <2> DEFINE g == [Top EXCEPT !.node = 0, !.todo = <<>>]
             m == Len(frames) - 1
  <2>1. g \in Frame /\ g.fn = Top.fn /\ g.todo = <<>> /\ g.devices = 0 /\ g.node = 0
    <3>1. g = [Top EXCEPT !.node = 0, !.todo = <<>>]
      OBVIOUS
    <3>2. Top.devices \in Nat /\ Top.at \in Nat /\ <<>> \in Seq(OcItems) /\ 0 \in Int
          /\ Top \in Frame
      BY <1>1, TopIs
    <3> HIDE DEF g
    <3>3. /\ g \in Frame /\ g.fn = Top.fn /\ g.node = 0 /\ g.devices = Top.devices
          /\ g.at = Top.at /\ g.todo = <<>>
      BY <3>1, <3>2, FrameNull
    <3> QED
      BY <1>3, <3>3
  <2>2. frames' = Append(SubSeq(frames, 1, Len(frames) - 1), g)
    BY <1>2, <1>6
  <2> HIDE DEF g
  <2>3. frames' \in Seq(Frame) /\ Len(frames') = Len(frames) /\ frames'[Len(frames)] = g
        /\ \A k \in 1..(Len(frames) - 1) : frames'[k] = frames[k]
    <3>1. Len(frames) \in 1..Len(frames) /\ g \in Frame /\ frames \in Seq(Frame)
      BY <1>2, <2>1
    <3> DEFINE n == Len(frames)
    <3>2. frames' = Append(SubSeq(frames, 1, n - 1), g)
      BY <2>2
    <3>3. n \in 1..Len(frames) /\ g \in Frame /\ frames \in Seq(Frame)
      BY <3>1
    <3> HIDE DEF n
    <3>4. frames' \in Seq(Frame) /\ Len(frames') = n /\ frames'[n] = g
          /\ \A k \in 1..(n - 1) : frames'[k] = frames[k]
      BY <3>2, <3>3, TopReplaced
    <3> QED
      BY <3>4 DEF n
  <2>4. Len(frames') = m + 1 /\ frames'[m + 1] = g /\ \A k \in 1..m : frames'[k] = frames[k]
    BY <1>2, <2>3
  <2>5. m >= 1 => /\ frames[m].node > 0 /\ frames[m].todo # <<>>
                  /\ Head(frames[m].todo).kind = g.fn
    <3> SUFFICES ASSUME m >= 1 PROVE /\ frames[m].node > 0 /\ frames[m].todo # <<>>
                                     /\ Head(frames[m].todo).kind = g.fn
      OBVIOUS
    <3>1. m \in 1..(Len(frames) - 1) /\ m + 1 = Len(frames)
      BY <1>2
    <3> QED
      BY <1>2, <2>1, <3>1 DEF OcInv, OcWaiting
  <2>6. ArrayFirst(g.todo) /\ g.todo \in Todo(g.fn)
    BY <1>2, <2>1, TodoItems DEF ArrayFirst
  <2>7. Hole' = Hole
    BY <1>6 DEF Hole
  <2>8. m \in {Len(frames) - 1, Len(frames)} /\ (m = Len(frames) - 1 => Top.node = -1)
    BY <1>1
  <2> HIDE DEF m
  <2>9. /\ misused' \in {0, 1} /\ nodes' \in Seq(Nat) /\ deleted' \subseteq DOMAIN nodes'
        /\ \A k \in 1..Len(frames') : frames'[k].todo \in Todo(frames'[k].fn)
        /\ OcWaiting' /\ OcNumbers' /\ OcOrder' /\ OcAlive'
        /\ OcOlder' /\ OcRooted' /\ OcWhole' /\ OcKnown'
        /\ frames' # <<>> /\ Top' = g
    <3>1. g.node \in {-1, 0} /\ UNCHANGED <<nodes, deleted, misused>>
      BY <1>1, <1>6, <2>1
    <3> QED
      BY <1>1, <2>1, <2>3, <2>4, <2>5, <2>6, <2>7, <2>8, <3>1, NoTreeYet
  <2>10. failed' \subseteq Tolerated \cup {"topic_make"} \/ (Top'.node = 0 /\ Top'.fn # "kvs")
    BY <1>4, <1>6, <2>1, <2>9 DEF Tolerated
  <2>11. failed' # {} /\ ("topic_make" \in failed' <=> "topic_make" \in failed)
    BY <1>6
  <2>12. OcShape' /\ OcTold'
    BY <1>1, <2>1, <2>3, <2>9, <2>10, <2>11, InPackage
  <2> QED
    BY <2>9, <2>12 DEF OcInv
<1> QED
  BY <1>5, <1>6 DEF CreateNode

(* The innermost function, when it has something to attach, has its node.  *)
LEMMA TopAtWork ==
  ASSUME OcInv, frames # <<>>, ~Fresh, Top.todo # <<>>
  PROVE  /\ Top.node > 0 /\ Top.node \in 1..Len(nodes) /\ nodes[Top.node] = 0
         /\ Top.at \in 1..Len(nodes) /\ Top.devices \in 0..Len(nodes)
         /\ Top.node \notin deleted /\ Top.at \notin deleted /\ Top.devices \notin deleted
         /\ (Top.devices # 0 \/ ArrayFirst(Top.todo))
<1>1. /\ Len(frames) \in 1..Len(frames) /\ Top = frames[Len(frames)] /\ stage = "package"
      /\ Top.node \in Int /\ Top.node \in -1..Len(nodes) /\ Len(nodes) \in Nat
  BY TopIs
<1>2. Top.node # 0 /\ Top.node # -1
  BY <1>1 DEF OcInv, OcTold, Fresh, NotMade
<1>3. Top.node > 0 /\ Top.node \in 1..Len(nodes)
  BY <1>1, <1>2
<1>4. /\ nodes[Top.node] = 0 /\ Top.at \in 1..Len(nodes) /\ Top.devices \in 0..Len(nodes)
      /\ (Top.devices # 0 \/ ArrayFirst(Top.todo))
  BY <1>1, <1>3 DEF OcInv, OcNumbers
<1>5. Top.node \notin deleted /\ Top.at \notin deleted /\ Top.devices \notin deleted
  BY <1>1, <1>3 DEF OcInv, OcAlive
<1> QED
  BY <1>3, <1>4, <1>5

(* An item is made and attached, or the function gives up.                 *)
LEMMA StepCreateItem == ASSUME OcInv, CreateItem PROVE OcInv'
<1> DEFINE kind == Head(Top.todo).kind
           new  == Len(nodes) + 1
           g == [Top EXCEPT !.todo = Tail(@),
                            !.devices = IF kind = "devices" THEN new ELSE @,
                            !.at = IF kind = "device" THEN new ELSE @]
           p == CASE kind = "leaf" -> Top.at
                  [] kind = "devices" -> Top.node
                  [] kind = "device" -> Top.devices
<1>1. frames # <<>> /\ ~Fresh /\ Top.todo # <<>> /\ UNCHANGED <<stage, call, strings, result>>
      /\ kind \in {"leaf", "devices", "device"}
  BY DEF CreateItem
<1>2. /\ Len(frames) \in Nat /\ Len(frames) \in 1..Len(frames) /\ Top = frames[Len(frames)]
      /\ Below = SubSeq(frames, 1, Len(frames) - 1) /\ Top \in Frame /\ Top.fn \in OcFns
      /\ Top.todo \in Todo(Top.fn) /\ Top.todo \in Seq(OcItems) /\ frames \in Seq(Frame)
      /\ Len(nodes) \in Nat /\ nodes \in Seq(Nat) /\ Top.at \in Nat /\ Top.devices \in Nat
  BY <1>1, TopIs
<1>3. /\ Top.node > 0 /\ Top.node \in 1..Len(nodes) /\ nodes[Top.node] = 0
      /\ Top.at \in 1..Len(nodes) /\ Top.devices \in 0..Len(nodes)
      /\ Top.node \notin deleted /\ Top.at \notin deleted /\ Top.devices \notin deleted
      /\ (Top.devices # 0 \/ ArrayFirst(Top.todo))
  BY <1>1, TopAtWork
<1>4. failed \subseteq Tolerated \cup {"topic_make"}
  BY <1>1, <1>3, GoesOn
<1>5. Tail(Top.todo) \in Todo(Top.fn) /\ Tail(Top.todo) \in Seq(OcItems)
  BY <1>1, <1>2, TodoHead, TodoItems
<1>6. /\ kind = "device" => Top.devices # 0
      /\ kind # "devices" => Top.devices # 0 \/ ArrayFirst(Tail(Top.todo))
  BY <1>1, <1>2, <1>3, ArrayStaysFirst
<1>7. misused \in {0, 1}
  BY DEF OcInv, OcShape, OcTypeOK
<1>8. CASE NewNode(p) /\ frames' = Append(Below, g) /\ failed' = failed
           /\ UNCHANGED <<deleted, misused>>
  <2>1. p \in 1..Len(nodes) /\ p \notin deleted
    <3>1. CASE kind = "leaf"
      BY <1>3, <3>1
    <3>2. CASE kind = "devices"
      BY <1>3, <3>2
    <3>3. CASE kind = "device"
      <4>1. p = Top.devices
        BY <3>3
      <4>2. Top.devices \in 1..Len(nodes)
        BY <1>2, <1>3, <1>6, <3>3
      <4> QED
        BY <1>3, <4>1, <4>2
    <3> QED
      BY <1>1, <3>1, <3>2, <3>3
  <2>2. /\ g \in Frame /\ g.fn = Top.fn /\ g.node = Top.node /\ g.todo = Tail(Top.todo)
        /\ g.devices \in {Top.devices, new} /\ (kind = "devices" => g.devices = new)
        /\ (kind # "devices" => g.devices = Top.devices) /\ g.at \in {Top.at, new}
    <3> DEFINE d == IF kind = "devices" THEN new ELSE Top.devices
               a == IF kind = "device" THEN new ELSE Top.at
               t == Tail(Top.todo)
    <3>1. d \in Nat /\ a \in Nat /\ t \in Seq(OcItems)
      BY <1>2, <1>5
    <3>2. g = [Top EXCEPT !.todo = t, !.devices = d, !.at = a]
      OBVIOUS
    <3>3. d \in {Top.devices, new} /\ (kind = "devices" => d = new)
          /\ (kind # "devices" => d = Top.devices) /\ a \in {Top.at, new}
      OBVIOUS
    <3> HIDE DEF g, d, a, t, new, kind
    <3>4. \A f \in Frame : \A e \in Nat, b \in Nat, r \in Seq(OcItems) : \A h :
            h = [f EXCEPT !.todo = r, !.devices = e, !.at = b] =>
              /\ h \in Frame /\ h.fn = f.fn /\ h.node = f.node /\ h.devices = e
              /\ h.at = b /\ h.todo = r
      BY FrameNext
    <3>5. \A h :
            h = [Top EXCEPT !.todo = t, !.devices = d, !.at = a] =>
              /\ h \in Frame /\ h.fn = Top.fn /\ h.node = Top.node /\ h.devices = d
              /\ h.at = a /\ h.todo = t
      <4>1. Top \in Frame /\ d \in Nat /\ a \in Nat /\ t \in Seq(OcItems)
        BY <1>2, <3>1
      <4>2. \A e \in Nat, b \in Nat, r \in Seq(OcItems) : \A h :
              h = [Top EXCEPT !.todo = r, !.devices = e, !.at = b] =>
                /\ h \in Frame /\ h.fn = Top.fn /\ h.node = Top.node /\ h.devices = e
                /\ h.at = b /\ h.todo = r
        BY <3>4, <4>1, Zenon
      <4>3. \A b \in Nat, r \in Seq(OcItems) : \A h :
              h = [Top EXCEPT !.todo = r, !.devices = d, !.at = b] =>
                /\ h \in Frame /\ h.fn = Top.fn /\ h.node = Top.node /\ h.devices = d
                /\ h.at = b /\ h.todo = r
        BY <4>1, <4>2, Zenon
      <4>4. \A r \in Seq(OcItems) : \A h :
              h = [Top EXCEPT !.todo = r, !.devices = d, !.at = a] =>
                /\ h \in Frame /\ h.fn = Top.fn /\ h.node = Top.node /\ h.devices = d
                /\ h.at = a /\ h.todo = r
        BY <4>1, <4>3, Zenon
      <4> QED
        BY <4>1, <4>4, Zenon
    <3>6. g \in Frame /\ g.fn = Top.fn /\ g.node = Top.node /\ g.devices = d /\ g.at = a /\ g.todo = t
      BY <3>2, <3>5
    <3> QED
      BY <3>3, <3>6 DEF t
  <2>3. g.todo \in Todo(g.fn) /\ (g.devices # 0 \/ ArrayFirst(g.todo))
    <3>1. new # 0
      BY <1>2
    <3> HIDE DEF g, new, kind
    <3> QED
      BY <1>5, <1>6, <2>2, <3>1
  <2>4. nodes' = Append(nodes, p) /\ p \in 0..Len(nodes) /\ p # 0
    <3>1. nodes' = Append(nodes, p)
      BY <1>8 DEF NewNode
    <3> HIDE DEF p
    <3>2. p \in 1..Len(nodes) /\ Len(nodes) \in Nat
      BY <1>2, <2>1
    <3> QED
      BY <3>1, <3>2
  <2>5. frames' = Append(Below, g) /\ UNCHANGED <<deleted, misused, failed>>
        /\ g.at \in {Top.at, Len(nodes) + 1} /\ g.devices \in {Top.devices, Len(nodes) + 1}
    BY <1>8, <2>2
  <2> HIDE DEF g, p
  <2>6. /\ nodes' \in Seq(Nat) /\ deleted' \subseteq DOMAIN nodes' /\ frames' \in Seq(Frame)
        /\ \A k \in 1..Len(frames') : frames'[k].todo \in Todo(frames'[k].fn)
        /\ OcWaiting' /\ OcNumbers' /\ OcOrder' /\ OcAlive'
        /\ OcOlder' /\ OcRooted' /\ OcWhole' /\ OcKnown'
        /\ frames' # <<>> /\ Top' = g
    BY <1>1, <1>3, <2>1, <2>2, <2>3, <2>4, <2>5, Grows
  <2>7. Top'.node # 0
    <3>1. Top.node > 0 /\ Top'.node = g.node /\ g.node = Top.node
      BY <1>3, <2>2, <2>6
    <3>2. Top.node # 0
      BY <1>2, <3>1
    <3> QED
      BY <3>1, <3>2
  <2>8. OcShape' /\ OcTold'
    BY <1>1, <1>4, <1>7, <1>8, <2>6, <2>7, InPackage
  <2> QED
    BY <2>6, <2>8 DEF OcInv
<1>9. CASE GiveUp /\ failed' = failed \cup {Top.fn}
  <2> DEFINE m == Len(frames)
             h == IF Top.fn \in {"kvs", "service"} THEN [Top EXCEPT !.todo = <<>>]
                  ELSE [Top EXCEPT !.node = 0, !.todo = <<>>]
  <2>1. DeleteTree(Top.node) /\ frames' = Append(SubSeq(frames, 1, m - 1), h)
    BY <1>2, <1>9 DEF GiveUp
  <2>2. /\ h \in Frame /\ h.fn = Top.fn /\ h.todo = <<>> /\ h.at = Top.at /\ h.devices = Top.devices
        /\ h.node = IF Top.fn \in {"kvs", "service"} THEN Top.node ELSE 0
    <3>1. CASE Top.fn \in {"kvs", "service"}
      <4>1. h = [Top EXCEPT !.todo = <<>>]
        BY <3>1
      <4> HIDE DEF h
      <4> QED
        BY <1>2, <3>1, <4>1, FrameDone
    <3>2. CASE Top.fn \notin {"kvs", "service"}
      <4>1. h = [Top EXCEPT !.node = 0, !.todo = <<>>]
        BY <3>2
      <4> HIDE DEF h
      <4> QED
        BY <1>2, <3>2, <4>1, FrameNull
    <3> QED
      BY <3>1, <3>2
  <2>3. m \in 1..Len(frames) /\ Top = frames[m] /\ \A k \in (m + 1)..Len(frames) : frames[k].node = 0
    BY <1>2
  <2> HIDE DEF h, m
  <2>4. frames' \in Seq(Frame) /\ Len(frames') = m /\ frames'[m] = h
        /\ \A k \in 1..(m - 1) : frames'[k] = frames[k]
    BY <1>2, <2>1, <2>2, <2>3, TopReplaced
  <2>5. /\ deleted' \subseteq DOMAIN nodes' /\ nodes' = nodes /\ misused' \in {0, 1}
        /\ \A k \in 1..Len(frames') : frames'[k].todo \in Todo(frames'[k].fn)
        /\ OcWaiting' /\ OcNumbers' /\ OcOrder' /\ OcAlive'
        /\ OcOlder' /\ OcRooted' /\ OcWhole' /\ OcKnown'
    BY <1>1, <1>3, <1>9, <2>1, <2>2, <2>3, <2>4, GivesUp
  <2>6. frames' # <<>> /\ Top' = h
    <3>1. Len(frames') # 0
      BY <2>3, <2>4
    <3>2. frames' # <<>> /\ Top' = frames'[Len(frames')]
      BY <3>1 DEF Top
    <3> QED
      BY <2>4, <3>2
  <2>7. /\ "topic_make" \in failed' <=> "topic_make" \in failed
        /\ failed' # {}
        /\ failed' \subseteq Tolerated \cup {"topic_make"} \/ (Top'.node = 0 /\ Top'.fn # "kvs")
    <3>1. Top.fn # "topic_make"
      BY <1>2, FnNames
    <3> QED
      BY <1>4, <1>9, <2>2, <2>6, <3>1 DEF Tolerated
  <2>8. OcShape' /\ OcTold'
    BY <1>1, <1>2, <2>2, <2>4, <2>5, <2>6, <2>7, InPackage
  <2> QED
    BY <2>5, <2>8 DEF OcInv
<1> QED
  BY <1>8, <1>9 DEF CreateItem

(* Only a gateway's package holds sub-devices.                             *)
LEMMA NoDevices ==
  ASSUME NEW fn \in {"kvs", "service", "services"}, NEW todo \in Todo(fn)
  PROVE  ArrayFirst(todo)
<1>1. \A x \in Kvs \cup Service \cup Services : x.kind # "device"
  BY DEF Kvs, Service, Services
<1>2. Leaf.kind # "device"
  BY DEF Leaf
<1> HIDE DEF Leaf, Kvs, Service, Services
<1>3. todo \in Seq({Leaf} \cup Kvs \cup Service)
  <2>1. CASE fn = "kvs"
    BY <2>1, TodoIs
  <2>2. CASE fn = "service"
    BY <2>2, TodoIs
  <2>3. CASE fn = "services"
    BY <2>3, TodoIs
  <2> QED
    BY <2>1, <2>2, <2>3
<1>4. \A i \in DOMAIN todo : todo[i] \in {Leaf} \cup Kvs \cup Service
  BY <1>3
<1> QED
  BY <1>1, <1>2, <1>4 DEF ArrayFirst

(* A function of the package calls another.                                *)
LEMMA StepEnter == ASSUME OcInv, Enter PROVE OcInv'
<1> DEFINE kind == Head(Top.todo).kind
           todo == Head(Top.todo).todo
           g == [fn |-> kind, node |-> NotMade, devices |-> 0, at |-> 0, todo |-> todo]
           m == Len(frames)
<1>1. frames # <<>> /\ ~Fresh /\ Top.todo # <<>> /\ kind \in {"services", "service", "kvs"}
      /\ frames' = Append(frames, g)
      /\ UNCHANGED <<stage, call, nodes, deleted, misused, failed, strings, result>>
  BY DEF Enter
<1>2. /\ Len(frames) \in Nat /\ Len(frames) \in 1..Len(frames) /\ Top = frames[Len(frames)]
      /\ Top.fn \in OcFns /\ Top.todo \in Todo(Top.fn) /\ frames \in Seq(Frame)
  BY <1>1, TopIs
<1>3. Top.node > 0 /\ Top.node \in 1..Len(nodes)
  BY <1>1, TopAtWork
<1>4. failed \subseteq Tolerated \cup {"topic_make"}
  BY <1>1, <1>3, GoesOn
<1>5. todo \in Todo(kind) /\ kind \in OcFns
  BY <1>1, <1>2, TodoHead DEF OcFns
<1>6. todo \in Seq(OcItems) /\ ArrayFirst(todo)
  BY <1>1, <1>5, TodoItems, NoDevices
<1> HIDE DEF kind, todo
<1>7. g \in Frame /\ g.fn = kind /\ g.node = -1 /\ g.devices = 0 /\ g.todo = todo
  BY <1>5, <1>6 DEF Frame, NotMade
<1> HIDE DEF g
<1>8. /\ frames' \in Seq(Frame) /\ Len(frames') = m + 1 /\ frames'[m + 1] = g
      /\ \A k \in 1..m : frames'[k] = frames[k]
  BY <1>1, <1>2, <1>7
<1>9. m >= 1 => /\ frames[m].node > 0 /\ frames[m].todo # <<>>
                /\ Head(frames[m].todo).kind = g.fn
  BY <1>1, <1>2, <1>3, <1>7 DEF kind
<1>10. m \in {Len(frames) - 1, Len(frames)} /\ (m = Len(frames) - 1 => Top.node = -1)
  BY <1>2
<1>11. Hole' = Hole /\ UNCHANGED <<nodes, deleted, misused>>
  BY <1>1 DEF Hole
<1>12. g.todo \in Todo(g.fn) /\ g.node \in {-1, 0} /\ ArrayFirst(g.todo)
  BY <1>5, <1>6, <1>7
<1> HIDE DEF m
<1>13. /\ misused' \in {0, 1} /\ nodes' \in Seq(Nat) /\ deleted' \subseteq DOMAIN nodes'
       /\ \A k \in 1..Len(frames') : frames'[k].todo \in Todo(frames'[k].fn)
       /\ OcWaiting' /\ OcNumbers' /\ OcOrder' /\ OcAlive'
       /\ OcOlder' /\ OcRooted' /\ OcWhole' /\ OcKnown'
       /\ frames' # <<>> /\ Top' = g
  BY <1>1, <1>7, <1>8, <1>9, <1>10, <1>11, <1>12, NoTreeYet
<1>14. Top'.node # 0
  BY <1>7, <1>13
<1>15. OcShape' /\ OcTold'
  BY <1>1, <1>4, <1>8, <1>13, <1>14, InPackage
<1> QED
  BY <1>13, <1>15 DEF OcInv

(* What the caller of the innermost function is, and what is under it.     *)
LEMMA CallerIs ==
  ASSUME OcInv, Len(frames) > 1
  PROVE  /\ Len(frames) - 1 \in 1..Len(frames) /\ Len(frames) \in Nat
         /\ Below \in Seq(Frame) /\ Len(Below) = Len(frames) - 1
         /\ \A k \in 1..(Len(frames) - 1) : Below[k] = frames[k]
         /\ frames[Len(frames) - 1] \in Frame
         /\ frames[Len(frames) - 1].node > 0 /\ frames[Len(frames) - 1].todo # <<>>
         /\ Head(frames[Len(frames) - 1].todo).kind = Top.fn
<1>1. /\ frames \in Seq(Frame) /\ Len(frames) \in Nat /\ Top = frames[Len(frames)]
      /\ Below = SubSeq(frames, 1, Len(frames) - 1)
  BY TopIs
<1>2. Below \in Seq(Frame) /\ Len(Below) = Len(frames) - 1
      /\ \A k \in 1..(Len(frames) - 1) : Below[k] = frames[k]
  BY <1>1
<1>3. Len(frames) - 1 \in 1..(Len(frames) - 1) /\ Len(frames) - 1 \in 1..Len(frames)
      /\ (Len(frames) - 1) + 1 = Len(frames)
  BY <1>1
<1>4. /\ frames[Len(frames) - 1].node > 0 /\ frames[Len(frames) - 1].todo # <<>>
      /\ Head(frames[Len(frames) - 1].todo).kind = Top.fn
  BY <1>1, <1>3 DEF OcInv, OcWaiting
<1> QED
  BY <1>1, <1>2, <1>3, <1>4

(* A caller that gives up.                                                 *)
LEMMA FrameLeft ==
  ASSUME NEW f \in Frame, NEW x \in Int, NEW g, g = [f EXCEPT !.todo = <<>>, !.node = x]
  PROVE  /\ g \in Frame /\ g.fn = f.fn /\ g.node = x /\ g.devices = f.devices
         /\ g.at = f.at /\ g.todo = <<>>
<1>1. PICK u \in OcFns, v \in Int, w \in Nat, y \in Nat, z \in Seq(OcItems) :
        f = [fn |-> u, node |-> v, devices |-> w, at |-> y, todo |-> z]
  BY DEF Frame
<1>2. f.fn = u /\ f.node = v /\ f.devices = w /\ f.at = y /\ f.todo = z
  BY <1>1
<1>3. g = [fn |-> u, node |-> x, devices |-> w, at |-> y, todo |-> <<>>]
  BY <1>1, <1>2
<1>4. <<>> \in Seq(OcItems)
  OBVIOUS
<1> QED
  BY <1>2, <1>3, <1>4 DEF Frame

(* A function returns to its caller.                                       *)
LEMMA StepReturn == ASSUME OcInv, Return PROVE OcInv'
<1> DEFINE n == Len(frames)
           caller == frames[Len(frames) - 1]
<1>0. frames # <<>> /\ n > 1
  BY DEF Return
<1>1. /\ ~Fresh /\ Top.todo = <<>> /\ UNCHANGED <<stage, call, strings, result>>
      /\ failed' = IF Top.node = 0 THEN failed \cup {Below[Len(Below)].fn} ELSE failed
  BY DEF Return
<1>2. /\ n - 1 \in 1..n /\ n \in Nat /\ Below \in Seq(Frame) /\ Len(Below) = n - 1
      /\ (\A k \in 1..(n - 1) : Below[k] = frames[k])
      /\ caller \in Frame /\ caller.node > 0 /\ caller.todo # <<>>
      /\ Head(caller.todo).kind = Top.fn
  BY <1>0, CallerIs
<1>3. Below[Len(Below)] = caller /\ Len(Below) \in 1..Len(Below)
  BY <1>0, <1>2
<1>4. Top.fn \in OcFns /\ Top.node \in Int /\ Top.node \in -1..Len(nodes) /\ stage = "package"
      /\ Top = frames[n]
  BY <1>0, TopIs
<1>5. /\ caller.fn \in OcFns /\ caller.todo \in Todo(caller.fn) /\ caller.todo \in Seq(OcItems)
      /\ caller.node \in Int /\ caller.at \in Nat /\ caller.devices \in Nat
  BY <1>2, FrameHas DEF OcInv
<1>6. CASE Top.node # 0
  <2> DEFINE g == [caller EXCEPT !.todo = Tail(@)]
             m == Len(Below)
             q == Below
  <2>1. Attach(Top.node, caller.at) /\ frames' = Append(SubSeq(q, 1, m - 1), g)
    BY <1>3, <1>6 DEF Return
  <2>2. Top.node > 0 /\ failed' = failed
    BY <1>1, <1>4, <1>6 DEF Fresh, NotMade
  <2>3. failed \subseteq Tolerated \cup {"topic_make"}
    BY <1>0, <1>6, GoesOn
  <2>4. /\ g \in Frame /\ g.fn = caller.fn /\ g.node = caller.node /\ g.devices = caller.devices
        /\ g.at = caller.at /\ g.todo = Tail(caller.todo)
    <3> DEFINE t == Tail(caller.todo)
    <3>1. t \in Seq(OcItems) /\ g = [caller EXCEPT !.todo = t]
      BY <1>2, <1>5
    <3> HIDE DEF t, g, caller
    <3>2. \A f \in Frame : \A r \in Seq(OcItems) : \A h :
            h = [f EXCEPT !.todo = r] =>
              /\ h \in Frame /\ h.fn = f.fn /\ h.node = f.node /\ h.devices = f.devices
              /\ h.at = f.at /\ h.todo = r
      BY FrameRest
    <3>3. caller \in Frame
      BY <1>2
    <3>4. \A r \in Seq(OcItems) : \A h :
            h = [caller EXCEPT !.todo = r] =>
              /\ h \in Frame /\ h.fn = caller.fn /\ h.node = caller.node
              /\ h.devices = caller.devices /\ h.at = caller.at /\ h.todo = r
      BY <3>2, <3>3
    <3>5. \A h :
            h = [caller EXCEPT !.todo = t] =>
              /\ h \in Frame /\ h.fn = caller.fn /\ h.node = caller.node
              /\ h.devices = caller.devices /\ h.at = caller.at /\ h.todo = t
      BY <3>1, <3>4, Zenon
    <3> QED
      BY <3>1, <3>5, Zenon DEF t
  <2>5. q \in Seq(Frame) /\ m \in 1..Len(q) /\ m = n - 1 /\ \A k \in 1..m : q[k] = frames[k]
    BY <1>2, <1>3
  <2> HIDE DEF g, m, q
  <2>6. frames' \in Seq(Frame) /\ Len(frames') = m /\ frames'[m] = g
        /\ \A k \in 1..(m - 1) : frames'[k] = q[k]
    BY <2>1, <2>4, <2>5, TopReplaced
  <2>7. frames' \in Seq(Frame) /\ Len(frames') = n - 1 /\ frames'[n - 1] = g
        /\ \A k \in 1..(n - 2) : frames'[k] = frames[k]
    <3>1. \A k \in 1..(n - 2) : k \in 1..m /\ k \in 1..(m - 1)
      BY <1>2, <2>5
    <3> QED
      BY <2>5, <2>6, <3>1
  <2>8. /\ misused' \in {0, 1} /\ nodes' \in Seq(Nat) /\ deleted' \subseteq DOMAIN nodes'
        /\ \A k \in 1..Len(frames') : frames'[k].todo \in Todo(frames'[k].fn)
        /\ OcWaiting' /\ OcNumbers' /\ OcOrder' /\ OcAlive'
        /\ OcOlder' /\ OcRooted' /\ OcWhole' /\ OcKnown'
        /\ frames' # <<>> /\ Top' = g
    BY <1>0, <1>1, <2>1, <2>2, <2>4, <2>7, Attaches
  <2>9. Top'.node # 0
    <3>1. Top'.node = caller.node /\ caller.node > 0 /\ caller.node \in Int
      BY <1>2, <1>5, <2>4, <2>8
    <3> HIDE DEF caller
    <3> QED
      BY <3>1
  <2>10. OcShape' /\ OcTold'
    BY <1>0, <1>1, <2>2, <2>3, <2>7, <2>8, <2>9, InPackage
  <2> QED
    BY <2>8, <2>10 DEF OcInv
<1>7. CASE Top.node = 0
  <2> DEFINE x == IF caller.fn \in {"kvs", "service"} THEN caller.node ELSE 0
             h == [caller EXCEPT !.todo = <<>>, !.node = x]
             m == Len(Below)
             q == Below
  <2>1. DeleteTree(caller.node) /\ frames' = Append(SubSeq(q, 1, m - 1), h)
        /\ failed' = failed \cup {caller.fn}
    BY <1>1, <1>3, <1>7 DEF Return
  <2>2. /\ h \in Frame /\ h.fn = caller.fn /\ h.todo = <<>> /\ h.at = caller.at
        /\ h.devices = caller.devices /\ h.node = x
    <3>1. x \in Int /\ caller \in Frame
      BY <1>2, <1>5
    <3>2. h = [caller EXCEPT !.todo = <<>>, !.node = x]
      OBVIOUS
    <3> HIDE DEF x, h, caller
    <3>3. \A f \in Frame : \A y \in Int : \A b :
            b = [f EXCEPT !.todo = <<>>, !.node = y] =>
              /\ b \in Frame /\ b.fn = f.fn /\ b.node = y /\ b.devices = f.devices
              /\ b.at = f.at /\ b.todo = <<>>
      BY FrameLeft
    <3>4. \A y \in Int : \A b :
            b = [caller EXCEPT !.todo = <<>>, !.node = y] =>
              /\ b \in Frame /\ b.fn = caller.fn /\ b.node = y /\ b.devices = caller.devices
              /\ b.at = caller.at /\ b.todo = <<>>
      BY <3>1, <3>3, Zenon
    <3>5. \A b :
            b = [caller EXCEPT !.todo = <<>>, !.node = x] =>
              /\ b \in Frame /\ b.fn = caller.fn /\ b.node = x /\ b.devices = caller.devices
              /\ b.at = caller.at /\ b.todo = <<>>
      BY <3>1, <3>4, Zenon
    <3> QED
      BY <3>2, <3>5, Zenon
  <2>3. q \in Seq(Frame) /\ m \in 1..Len(q) /\ m = n - 1 /\ (\A k \in 1..m : q[k] = frames[k])
        /\ m \in 1..Len(frames) /\ frames[m] = caller
    BY <1>2, <1>3
  <2>4. \A k \in (m + 1)..Len(frames) : frames[k].node = 0
    BY <1>2, <1>4, <1>7, <2>3
  <2> HIDE DEF h, m, q, x
  <2>5. frames' \in Seq(Frame) /\ Len(frames') = m /\ frames'[m] = h
        /\ \A k \in 1..(m - 1) : frames'[k] = frames[k]
    <3>1. frames' \in Seq(Frame) /\ Len(frames') = m /\ frames'[m] = h
          /\ \A k \in 1..(m - 1) : frames'[k] = q[k]
      BY <2>1, <2>2, <2>3, TopReplaced
    <3>2. \A k \in 1..(m - 1) : k \in 1..m
      BY <2>3
    <3> QED
      BY <2>3, <3>1, <3>2
  <2>6. /\ frames[m].node > 0 /\ frames[m].todo # <<>> /\ DeleteTree(frames[m].node)
        /\ failed' = failed \cup {frames[m].fn}
        /\ h.fn = frames[m].fn /\ h.at = frames[m].at /\ h.devices = frames[m].devices
        /\ h.node = IF frames[m].fn \in {"kvs", "service"} THEN frames[m].node ELSE 0
    BY <1>2, <2>1, <2>2, <2>3 DEF x
  <2>7. /\ deleted' \subseteq DOMAIN nodes' /\ nodes' = nodes /\ misused' \in {0, 1}
        /\ \A k \in 1..Len(frames') : frames'[k].todo \in Todo(frames'[k].fn)
        /\ OcWaiting' /\ OcNumbers' /\ OcOrder' /\ OcAlive'
        /\ OcOlder' /\ OcRooted' /\ OcWhole' /\ OcKnown'
    BY <2>2, <2>3, <2>4, <2>5, <2>6, GivesUp
  <2>8. frames' # <<>> /\ Top' = h
    <3>1. Len(frames') # 0
      BY <2>3, <2>5
    <3>2. frames' # <<>> /\ Top' = frames'[Len(frames')]
      BY <3>1 DEF Top
    <3> QED
      BY <2>5, <3>2
  <2>9. failed' \subseteq Tolerated \cup {"topic_make"} \/ (Top'.node = 0 /\ Top'.fn # "kvs")
    <3>1. caller.fn # "kvs"
      <4>1. caller.fn = "kvs" => Top.fn = "leaf"
        BY <1>2, <1>5, TodoHead
      <4> QED
        BY <1>4, <4>1, FnNames
    <3>2. CASE caller.fn = "service"
      <4>1. Top.fn \in {"leaf", "kvs"}
        BY <1>2, <1>5, <3>2, TodoHead
      <4>2. Top.fn = "kvs"
        BY <1>4, <4>1, FnNames
      <4>3. failed \subseteq Tolerated \cup {"topic_make"}
        BY <1>4, <4>2 DEF OcInv, OcTold
      <4> QED
        BY <2>1, <3>2, <4>3 DEF Tolerated
    <3>3. CASE caller.fn \notin {"kvs", "service"}
      BY <2>2, <2>8, <3>3 DEF x
    <3> QED
      BY <3>1, <3>2, <3>3
  <2>10. failed' # {} /\ ("topic_make" \in failed' <=> "topic_make" \in failed)
    BY <1>5, <2>1, FnNames
  <2>11. nodes' \in Seq(Nat) /\ Top'.todo = <<>>
    BY <1>0, <2>2, <2>7, <2>8, TopIs
  <2>12. OcShape' /\ OcTold'
    BY <1>0, <1>1, <2>5, <2>7, <2>8, <2>9, <2>10, <2>11, InPackage
  <2> QED
    BY <2>7, <2>12 DEF OcInv
<1> QED
  BY <1>6, <1>7

(* The tree is printed and deleted, with all that is in it.                *)
LEMMA StepPrint == ASSUME OcInv, PrintTree PROVE OcInv'
<1>1. /\ Len(frames) = 1 /\ frames # <<>> /\ ~Fresh /\ Top.todo = <<>> /\ frames' = <<>>
      /\ stage' = "publish" /\ call' = call /\ result' = result
  <2>1. Len(frames) = 1 /\ ~Fresh /\ Top.todo = <<>>
    BY DEF PrintTree
  <2>2. frames' = <<>> /\ stage' = "publish" /\ call' = call /\ result' = result
    BY DEF PrintTree
  <2> QED
    BY <2>1, <2>2
<1>2. /\ nodes \in Seq(Nat) /\ Len(nodes) \in Nat /\ deleted \subseteq 1..Len(nodes)
      /\ DOMAIN nodes = 1..Len(nodes) /\ Top = frames[1] /\ Top.node \in Int
      /\ Top.node \in -1..Len(nodes) /\ stage = "package"
  BY <1>1, TopIs
<1>3. /\ misused \in {0, 1} /\ strings \subseteq {"topic", "msg"}
      /\ result \in {"none", "ok", "error", "sysmem", "parafmt"}
      /\ call.fn \in PackageFns /\ call.todo \in Todo(call.fn) /\ ArrayFirst(call.todo)
  BY DEF OcInv, OcShape, OcTypeOK
<1>4. /\ strings \subseteq {"topic"} /\ ("topic" \in strings <=> "topic_make" \notin failed)
      /\ call.device /\ call.complete /\ (Top.node = 0 => failed # {})
      /\ Top.node # 0 => failed \subseteq Tolerated \cup {"topic_make"}
  BY <1>2 DEF OcInv, OcTold
<1>5. \A i \in 1..Len(nodes) : nodes[i] \in 0..(i - 1)
  BY DEF OcInv, OcOlder
<1>6. \A i \in 1..Len(nodes) :
        i \notin deleted => IF nodes[i] = 0 THEN i = Top.node ELSE nodes[i] \notin deleted
  <2>1. \A k \in 1..Len(frames) : k = 1
    BY <1>1
  <2> QED
    BY <1>2, <2>1 DEF OcInv, OcRooted
<1>7. ASSUME nodes' = nodes, deleted' \subseteq 1..Len(nodes), misused' \in {0, 1},
             strings' \subseteq {"topic", "msg"},
             \A i \in 1..Len(nodes) : i \notin deleted' => nodes[i] # 0 /\ nodes[i] \notin deleted'
      PROVE  OcShape' /\ OcWaiting' /\ OcNumbers' /\ OcOrder' /\ OcAlive' /\ OcOlder' /\ OcRooted'
             /\ deleted' = DOMAIN nodes'
  <2>1. Len(frames') = 0 /\ frames' \in Seq(Frame)
    BY <1>1
  <2>2. OcShape'
    BY <1>1, <1>2, <1>3, <1>7, <2>1 DEF OcShape, OcTypeOK
  <2>3. OcWaiting' /\ OcNumbers' /\ OcOrder' /\ OcAlive'
    BY <2>1 DEF OcWaiting, OcNumbers, OcOrder, OcAlive
  <2>4. OcOlder'
    BY <1>5, <1>7 DEF OcOlder
  <2>5. OcRooted'
    BY <1>7 DEF OcRooted
  <2>6. deleted' = 1..Len(nodes)
    BY <1>2, <1>5, <1>7, AllDeleted
  <2> QED
    BY <1>2, <1>7, <2>2, <2>3, <2>4, <2>5, <2>6
<1>8. CASE Top.node = 0
  <2>1. UNCHANGED <<nodes, deleted, misused, strings, failed>>
    BY <1>8 DEF PrintTree
  <2>2. \A i \in 1..Len(nodes) : i \notin deleted' => nodes[i] # 0 /\ nodes[i] \notin deleted'
    BY <1>6, <1>8, <2>1
  <2>3. OcShape' /\ OcWaiting' /\ OcNumbers' /\ OcOrder' /\ OcAlive' /\ OcOlder' /\ OcRooted'
        /\ deleted' = DOMAIN nodes'
    BY <1>2, <1>3, <1>7, <2>1, <2>2
  <2>4. OcWhole' /\ OcKnown'
    BY <2>1 DEF OcInv, OcWhole, OcKnown, Hole
  <2>5. OcTold'
    BY <1>1, <1>4, <1>8, <2>1, <2>3 DEF OcTold
  <2> QED
    BY <2>3, <2>4, <2>5 DEF OcInv
<1>9. CASE Top.node # 0
  <2> DEFINE root == Top.node
  <2>1. root \in 1..Len(nodes) /\ root > 0
    BY <1>1, <1>2, <1>9 DEF Fresh, NotMade
  <2>2. /\ nodes' = nodes /\ deleted' = deleted \cup Under(root)
        /\ misused' = (IF Under(root) \cap deleted # {} THEN 1 ELSE misused)
        /\ \/ strings' = strings \cup {"msg"} /\ failed' = failed
           \/ strings' = strings /\ failed' = failed \cup {"print"}
    BY <1>9 DEF PrintTree, DeleteTree, Use
  <2>3. /\ Under(root) \subseteq 1..Len(nodes) /\ root \in Under(root)
        /\ \A i \in 1..Len(nodes) : i \in Under(root) <=> i = root \/ nodes[i] \in Under(root)
    BY <1>2, <2>1, UnderIs DEF OcInv
  <2>4. ~Hole => root \notin deleted
    BY <1>1, <1>2, <2>1 DEF OcInv, OcAlive
  <2>5. ~Hole => Under(root) \cap deleted = {}
    BY <1>2, <2>1, <2>4, UnderAlive DEF OcInv
  <2>6. Hole' <=> Hole
    BY <2>2 DEF Hole
  <2>7. \A i \in 1..Len(nodes) : i \notin deleted' => nodes[i] # 0 /\ nodes[i] \notin deleted'
    BY <1>6, <2>2, <2>3
  <2>8. deleted' \subseteq 1..Len(nodes) /\ misused' \in {0, 1} /\ strings' \subseteq {"topic", "msg"}
    BY <1>2, <1>3, <2>2, <2>3
  <2>9. OcShape' /\ OcWaiting' /\ OcNumbers' /\ OcOrder' /\ OcAlive' /\ OcOlder' /\ OcRooted'
        /\ deleted' = DOMAIN nodes'
    BY <1>7, <2>2, <2>7, <2>8
  <2>10. OcWhole'
    <3> SUFFICES ASSUME ~Hole, NEW i \in deleted' PROVE nodes[i] = 0 \/ nodes[i] \in deleted'
      BY <2>2, <2>6 DEF OcWhole
    <3>1. CASE i \in deleted
      BY <2>2, <3>1 DEF OcInv, OcWhole
    <3>2. CASE i \in Under(root)
      <4>1. nodes[root] = 0
        BY <1>1, <1>2, <2>1 DEF OcInv, OcNumbers
      <4> QED
        BY <2>2, <2>3, <3>2, <4>1
    <3> QED
      BY <2>2, <3>1, <3>2
  <2>11. OcKnown'
    BY <2>2, <2>5, <2>6 DEF OcInv, OcKnown
  <2>12. OcTold'
    <3>1. failed' # {} \/ strings' = {"topic", "msg"}
      BY <1>4, <2>2
    <3>2. "topic" \in strings' <=> "topic_make" \notin failed'
      BY <1>4, <2>2
    <3>3. "msg" \in strings' => failed' \subseteq Tolerated \cup {"topic_make"}
      BY <1>4, <1>9, <2>2
    <3> QED
      BY <1>1, <1>4, <2>9, <3>1, <3>2, <3>3 DEF OcTold
  <2> QED
    BY <2>9, <2>10, <2>11, <2>12 DEF OcInv
<1> QED
  BY <1>8, <1>9

(* The rest of the call touches no tree.                                   *)
LEMMA TreesStay ==
  ASSUME OcInv, UNCHANGED <<call, frames, nodes, deleted, misused, failed>>,
         stage' \in {"idle", "topic", "package", "publish", "free"},
         strings' \subseteq {"topic", "msg"},
         result' \in {"none", "ok", "error", "sysmem", "parafmt"},
         frames # <<>> => stage' = "package"
  PROVE  OcShape' /\ OcWaiting' /\ OcNumbers' /\ OcOrder' /\ OcAlive'
         /\ OcOlder' /\ OcRooted' /\ OcWhole' /\ OcKnown'
<1>1. OcShape'
  BY DEF OcInv, OcShape, OcTypeOK
<1>2. OcWaiting' /\ OcNumbers' /\ OcOrder'
  BY DEF OcInv, OcWaiting, OcNumbers, OcOrder
<1>3. OcAlive' /\ OcOlder' /\ OcRooted'
  BY DEF OcInv, OcAlive, OcOlder, OcRooted, Hole
<1>4. OcWhole' /\ OcKnown'
  BY DEF OcInv, OcWhole, OcKnown, Hole
<1> QED
  BY <1>1, <1>2, <1>3, <1>4

(* Topic and text are published, or one of them is missing.                *)
LEMMA StepPublish == ASSUME OcInv, Publish PROVE OcInv'
<1>1. stage = "publish" /\ stage' = "free" /\ frames = <<>>
      /\ UNCHANGED <<call, frames, nodes, deleted, misused, failed, strings>>
  BY NoFrame DEF Publish
<1>2. /\ strings \subseteq {"topic", "msg"} /\ call.device /\ call.complete
      /\ ("topic" \in strings <=> "topic_make" \notin failed)
      /\ ("msg" \in strings => failed \subseteq Tolerated \cup {"topic_make"})
      /\ (strings # {"topic", "msg"} => failed # {}) /\ deleted = DOMAIN nodes
  BY <1>1 DEF OcInv, OcTold, OcShape, OcTypeOK
<1>3. \/ result' \in {"ok", "error"} /\ failed \subseteq Tolerated
      \/ result' = "sysmem" /\ failed # {}
  <2>1. CASE strings = {"topic", "msg"}
    BY <1>2, <2>1 DEF Publish
  <2>2. CASE strings # {"topic", "msg"}
    BY <1>2, <2>2 DEF Publish
  <2> QED
    BY <2>1, <2>2
<1>4. OcShape' /\ OcWaiting' /\ OcNumbers' /\ OcOrder' /\ OcAlive'
      /\ OcOlder' /\ OcRooted' /\ OcWhole' /\ OcKnown'
  BY <1>1, <1>2, <1>3, TreesStay
<1>5. OcTold'
  BY <1>1, <1>2, <1>3 DEF OcTold
<1> QED
  BY <1>4, <1>5 DEF OcInv

(* Both texts are freed.                                                   *)
LEMMA StepFree == ASSUME OcInv, FreeTexts PROVE OcInv'
<1>1. stage = "free" /\ stage' = "idle" /\ frames = <<>> /\ strings' = {}
      /\ UNCHANGED <<call, frames, nodes, deleted, misused, failed, result>>
  BY NoFrame DEF FreeTexts
<1>2. result \in {"none", "ok", "error", "sysmem", "parafmt"}
  BY DEF OcInv, OcShape, OcTypeOK
<1>3. OcShape' /\ OcWaiting' /\ OcNumbers' /\ OcOrder' /\ OcAlive'
      /\ OcOlder' /\ OcRooted' /\ OcWhole' /\ OcKnown'
  BY <1>1, <1>2, TreesStay
<1>4. OcTold'
  BY <1>1 DEF OcInv, OcTold
<1> QED
  BY <1>3, <1>4 DEF OcInv

(* The layer before its first call.                                        *)
LEMMA OcStarts == ASSUME OcInit PROVE OcInv
<1>1. /\ stage = "idle" /\ frames = <<>> /\ Len(frames) = 0 /\ nodes = <<>> /\ Len(nodes) = 0
      /\ DOMAIN nodes = {} /\ deleted = {} /\ misused = 0 /\ failed = {} /\ strings = {}
      /\ result = "none" /\ call.fn = "msgup" /\ call.todo = <<>>
  BY DEF OcInit, Request
<1>2. "msgup" \in PackageFns /\ "msgup" \in OcFns
  BY DEF PackageFns, OcFns
<1>3. <<>> \in Todo("msgup") /\ ArrayFirst(<<>>)
  BY <1>2, TodoItems DEF ArrayFirst
<1>4. OcShape
  BY <1>1, <1>2, <1>3 DEF OcShape, OcTypeOK
<1>5. OcWaiting /\ OcNumbers /\ OcOrder /\ OcAlive
  BY <1>1 DEF OcWaiting, OcNumbers, OcOrder, OcAlive
<1>6. OcOlder /\ OcRooted /\ OcWhole /\ OcKnown
  BY <1>1 DEF OcOlder, OcRooted, OcWhole, OcKnown
<1>7. OcTold
  BY <1>1 DEF OcTold
<1> QED
  BY <1>4, <1>5, <1>6, <1>7 DEF OcInv

(* No step of the layer leaves the invariant.                              *)
LEMMA OcStep == ASSUME OcInv, [OcNext]_ocVars PROVE OcInv'
<1>1. ASSUME NEW c \in Calls, BeginCall(c) PROVE OcInv'
  BY <1>1, StepBegin
<1>2. CASE topic_make
  BY <1>2, StepTopic
<1>3. CASE CreateNode
  BY <1>3, StepCreateNode
<1>4. CASE CreateItem
  BY <1>4, StepCreateItem
<1>5. CASE Enter
  BY <1>5, StepEnter
<1>6. CASE Return
  BY <1>6, StepReturn
<1>7. CASE PrintTree
  BY <1>7, StepPrint
<1>8. CASE Publish
  BY <1>8, StepPublish
<1>9. CASE FreeTexts
  BY <1>9, StepFree
<1>10. CASE UNCHANGED ocVars
  <2>1. OcShape' /\ OcWaiting' /\ OcNumbers' /\ OcOrder' /\ OcAlive'
        /\ OcOlder' /\ OcRooted' /\ OcWhole' /\ OcKnown'
    <3>1. OcTypeOK
      BY DEF OcInv, OcShape
    <3> QED
      BY <1>10, <3>1, TreesStay DEF ocVars, OcTypeOK
  <2>2. OcTold'
    BY <1>10 DEF OcInv, OcTold, ocVars, Top
  <2> QED
    BY <2>1, <2>2 DEF OcInv
<1> QED
  BY <1>1, <1>2, <1>3, <1>4, <1>5, <1>6, <1>7, <1>8, <1>9, <1>10 DEF OcNext

(* The layer's state stays within its types: the texts, the results, and   *)
(* functions entered only while a package is being made.                   *)
THEOREM OcTypeCorrect == OcSpec => []OcTypeOK
<1>1. OcInv => OcTypeOK
  BY DEF OcInv, OcShape
<1> QED
  BY <1>1, OcStarts, OcStep, PTL DEF OcSpec

(* Whatever allocation fails in whatever call: every node and every text   *)
(* is given back, a deleted node is touched only after make_kvs or         *)
(* make_service failed, and unless a failure is hidden in these two, the   *)
(* result tells the caller what happened.                                  *)
THEOREM OcCleansUp == OcSpec => []FailedCallCleansUp
<1>1. OcInv => FailedCallCleansUp
  <2> SUFFICES ASSUME OcInv PROVE FailedCallCleansUp
    OBVIOUS
  <2>1. AllGivenBack
    BY DEF OcInv, OcTold, AllGivenBack
  <2>2. DeletedNotTouched
    BY DEF OcInv, OcKnown, Hole, DeletedNotTouched
  <2>3. ResultTellsTruth
    BY DEF OcInv, OcTold, ResultTellsTruth, Tolerated
  <2> QED
    BY <2>1, <2>2, <2>3 DEF FailedCallCleansUp
<1> QED
  BY <1>1, OcStarts, OcStep, PTL DEF OcSpec

-----------------------------------------------------------------------------
(* The board.                                                              *)

(* A step of the board is one of the program that was chosen, and leaves   *)
(* the others as they were.                                                *)
LEMMA NanoBoardSteps ==
  ASSUME [NanoNext]_nanoVars
  PROVE  /\ [CoverNext]_coverVars /\ [OcSampleNext]_ocSampleVars /\ [OcNext]_ocVars
         /\ [BoardNext]_boardVars /\ [GpsNext]_gpsVars /\ [KernelNext]_kernelVars
         /\ [NetNext]_netVars /\ [NfcNext]_nfcVars
<1>1. CASE Cover
  BY <1>1 DEF Cover
<1>2. CASE CloudSample
  BY <1>2 DEF CloudSample
<1>3. CASE ProfileLayer
  BY <1>3 DEF ProfileLayer
<1>4. CASE SensorBoard
  BY <1>4 DEF SensorBoard
<1>5. CASE Gps
  BY <1>5 DEF Gps
<1>6. CASE Kernel
  BY <1>6 DEF Kernel
<1>7. CASE Net
  BY <1>7 DEF Net
<1>8. CASE Nfc
  BY <1>8 DEF Nfc
<1>9. CASE UNCHANGED nanoVars
  BY <1>9 DEF nanoVars
<1> QED
  BY <1>1, <1>2, <1>3, <1>4, <1>5, <1>6, <1>7, <1>8, <1>9 DEF NanoNext

(* Whichever program BUILD.gn links into the image behaves as it does      *)
(* alone: what is proved of each program holds of the board.               *)
THEOREM NanoBoardRunsEach ==
  NanoSpec =>
    /\ CoverSpec /\ OcSampleSpec /\ OcSpec /\ BoardSpec /\ GpsSpec /\ KernelSpec
    /\ NetSpec /\ NfcSpec
<1>1. NanoInit =>
        /\ CoverInit /\ OcSampleInit /\ OcInit /\ BoardInit /\ GpsInit
        /\ KernelInit /\ NetInit /\ NfcInit
  BY DEF NanoInit
<1>2. [NanoNext]_nanoVars =>
        /\ [CoverNext]_coverVars /\ [OcSampleNext]_ocSampleVars /\ [OcNext]_ocVars
        /\ [BoardNext]_boardVars /\ [GpsNext]_gpsVars /\ [KernelNext]_kernelVars
        /\ [NetNext]_netVars /\ [NfcNext]_nfcVars
  BY NanoBoardSteps
<1> QED
  BY <1>1, <1>2, PTL DEF NanoSpec, CoverSpec, OcSampleSpec, OcSpec, BoardSpec, GpsSpec,
     KernelSpec, NetSpec, NfcSpec

(* The variables of all programs keep their types, on every board.         *)
THEOREM NanoTypeCorrect == NanoSpec => []NanoTypeOK
BY NanoBoardRunsEach, CoverTypeCorrect, SampleTypeCorrect, OcTypeCorrect, BoardTypeCorrect,
   GpsTypeCorrect, KernelTypeCorrect, NetTypeCorrect, NfcTypeCorrect,
   PTL DEF NanoTypeOK
=============================================================================
