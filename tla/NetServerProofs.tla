--------------------------- MODULE NetServerProofs ---------------------------
(***************************************************************************)
(* The proofs about the poll loop of the network library, for any clients, *)
(* blocks and descriptors: the list of connections stays whole, what the   *)
(* passes take for ready is ready, and answers are written before their    *)
(* connection is closed.                                                   *)
(***************************************************************************)
EXTENDS NetServer, FiniteSetTheorems, SequenceTheorems, WellFoundedInduction, TLAPS

(* s has the blocks A, all n of them, in the order of the list l.          *)
Order(l, s, n, A) ==
  /\ n \in Nat /\ s \in [1 .. n -> Conn]
  /\ \A i, j \in 1 .. n : s[i] = s[j] => i = j
  /\ A = {s[i] : i \in 1 .. n}
  /\ l.head = IF n = 0 THEN NULL ELSE s[1]
  /\ \A i \in 1 .. n : /\ l.next[s[i]] = IF i = n THEN NULL ELSE s[i + 1]
                       /\ l.prev[s[i]] = IF i = 1 THEN NULL ELSE s[i - 1]

(* Whose connection a block is.                                            *)
Owns(c, p) == sock[c] = struct[p].sock

OwnersInv ==
  /\ \A p \in Allocated : struct[p].sock # 0 /\ \E c \in Client : Owns(c, p)
  /\ \A c \in Client : sock[c] # 0 => \E p \in Allocated : Owns(c, p)
  /\ \A p, q \in Allocated : struct[p].sock = struct[q].sock => p = q
  /\ \A c, d \in Client : sock[c] = sock[d] /\ sock[c] # 0 => c = d

QueueInv ==
  /\ \A i \in 1 .. Len(backlog) : sock[backlog[i]] = 0 /\ client[backlog[i]] # "away"
  /\ \A i, j \in 1 .. Len(backlog) : backlog[i] = backlog[j] => i = j
  /\ \A c \in Client : client[c] = "away" => sock[c] = 0

SetsInv ==
  /\ \A s \in (read_set \cup write_set) \ {Listening} : Open(s)
  /\ phase = "accept" /\ Listening \in read_set => backlog # <<>>

(* What recv brings at once.                                               *)
Ready(c) == inbox[c] > 0 \/ client[c] \in {"finished", "gone"}

(* A block the pass has not come to, the one that is read and not written  *)
(* yet, and one the pass is done with.                                     *)
Untouched(p) ==
  /\ ~struct[p].close
  /\ \A c \in Client : Owns(c, p) =>
       /\ struct[p].sock \in read_set => Ready(c)
       /\ struct[p].send > 0 => c \in Deaf \/ struct[p].sock \in write_set

HalfServed(p) ==
  struct[p].close => \A c \in Client : Owns(c, p) =>
    struct[p].send = 0 \/ c \in Deaf \/ struct[p].sock \in write_set

Served(p) ==
  struct[p].close => \A c \in Client : Owns(c, p) =>
    struct[p].send = 0 \/ c \in Deaf \/ client[c] = "gone"

(* The pass over the n blocks s stands at the k-th.                        *)
PassAt(s, n, k) ==
  /\ phase = "poll" => conn = NULL /\ \A i \in 1 .. n : ~struct[s[i]].close
  /\ phase = "accept" => conn = NULL /\ \A i \in 1 .. n : Untouched(s[i])
  /\ phase = "serve" =>
       /\ conn = IF k = n + 1 THEN NULL ELSE s[k]
       /\ \A i \in 1 .. n : IF i < k THEN Served(s[i]) ELSE Untouched(s[i])
  /\ phase = "write" =>
       /\ k <= n /\ conn = s[k] /\ HalfServed(conn)
       /\ \A i \in 1 .. n : /\ i < k => Served(s[i])
                            /\ i > k => Untouched(s[i])

PassInv ==
  \E s, n, k : Order(list, s, n, Allocated) /\ k \in 1 .. n + 1 /\ PassAt(s, n, k)

IInv == TypeOK /\ OwnersInv /\ QueueInv /\ SetsInv /\ PassInv

-----------------------------------------------------------------------------
(* The list.                                                               *)

Lists == [head : Conn \cup {NULL}, next : [Conn -> Conn \cup {NULL}],
          prev : [Conn -> Conn \cup {NULL}]]

LEMMA RemoveType ==
  ASSUME NEW l \in Lists, NEW p \in Conn
  PROVE  ns_remove_conn(l, p) \in Lists
BY DEF Lists, ns_remove_conn

LEMMA AddType ==
  ASSUME NEW l \in Lists, NEW p \in Conn
  PROVE  ns_add_conn(l, p) \in Lists
BY DEF Lists, ns_add_conn

(* A block not yet in the list is added in front.                          *)
LEMMA AddKeepsOrder ==
  ASSUME NEW l \in Lists, NEW n, NEW s, NEW A, Order(l, s, n, A),
         NEW p \in Conn, p \notin A
  PROVE  Order(ns_add_conn(l, p), [i \in 1 .. n + 1 |-> IF i = 1 THEN p ELSE s[i - 1]],
               n + 1, A \cup {p})
<1> DEFINE t == [i \in 1 .. n + 1 |-> IF i = 1 THEN p ELSE s[i - 1]]
           m == ns_add_conn(l, p)
<1>1. /\ n \in Nat /\ s \in [1 .. n -> Conn]
      /\ \A i, j \in 1 .. n : s[i] = s[j] => i = j
      /\ A = {s[i] : i \in 1 .. n}
      /\ l.head = IF n = 0 THEN NULL ELSE s[1]
      /\ \A i \in 1 .. n : /\ l.next[s[i]] = IF i = n THEN NULL ELSE s[i + 1]
                           /\ l.prev[s[i]] = IF i = 1 THEN NULL ELSE s[i - 1]
  BY DEF Order
<1>2. \A i \in 1 .. n + 1 : i # 1 => i - 1 \in 1 .. n
  BY <1>1
<1>3. t \in [1 .. n + 1 -> Conn] /\ t[1] = p /\ \A i \in 1 .. n : t[i + 1] = s[i]
  BY <1>1, <1>2
<1>4. \A i, j \in 1 .. n + 1 : t[i] = t[j] => i = j
  <2> SUFFICES ASSUME NEW i \in 1 .. n + 1, NEW j \in 1 .. n + 1, t[i] = t[j]
               PROVE  i = j
    OBVIOUS
  <2>1. CASE i = 1 /\ j = 1
    BY <2>1
  <2>2. CASE i = 1 /\ j # 1
    <3>1. t[j] = s[j - 1] /\ j - 1 \in 1 .. n
      BY <1>2, <2>2
    <3> QED
      BY <1>1, <1>3, <2>2, <3>1
  <2>3. CASE i # 1 /\ j = 1
    <3>1. t[i] = s[i - 1] /\ i - 1 \in 1 .. n
      BY <1>2, <2>3
    <3> QED
      BY <1>1, <1>3, <2>3, <3>1
  <2>4. CASE i # 1 /\ j # 1
    <3>1. t[i] = s[i - 1] /\ t[j] = s[j - 1] /\ i - 1 \in 1 .. n /\ j - 1 \in 1 .. n
      BY <1>2, <2>4
    <3>2. i - 1 = j - 1
      BY <1>1, <3>1
    <3> QED
      BY <3>2
  <2> QED
    BY <2>1, <2>2, <2>3, <2>4
<1>5. A \cup {p} = {t[i] : i \in 1 .. n + 1}
  <2>1. \A i \in 1 .. n : i + 1 \in 1 .. n + 1
    BY <1>1
  <2>2. 1 \in 1 .. n + 1
    BY <1>1
  <2>3. \A q \in A \cup {p} : \E i \in 1 .. n + 1 : q = t[i]
    BY <1>1, <1>3, <2>1, <2>2
  <2>4. \A i \in 1 .. n + 1 : t[i] \in A \cup {p}
    BY <1>1, <1>2
  <2> HIDE DEF t
  <2> QED
    BY <2>3, <2>4
<1>6. m.head = p /\ m.next[p] = l.head /\ m.prev[p] = NULL
      /\ \A q \in Conn : q # p => /\ m.next[q] = l.next[q]
                                  /\ m.prev[q] = IF q = l.head THEN p ELSE l.prev[q]
  <2>1. m.head = p /\ m.next = [l.next EXCEPT ![p] = l.head]
    BY DEF ns_add_conn
  <2>2. m.prev = [q \in Conn |-> CASE q = p -> NULL [] q = l.head -> p [] OTHER -> l.prev[q]]
    BY DEF ns_add_conn
  <2> HIDE DEF m
  <2>3. m.prev[p] = NULL /\ \A q \in Conn : q # p => m.prev[q] = IF q = l.head THEN p ELSE l.prev[q]
    <3>1. m.prev[p] = NULL
      <4>1. n # 0 => 1 \in 1 .. n
        BY <1>1
      <4>2. p # l.head
        BY <1>1, <4>1, NetAssumption
      <4> QED
        BY <2>2, <4>2
    <3>2. ASSUME NEW q \in Conn, q # p PROVE m.prev[q] = IF q = l.head THEN p ELSE l.prev[q]
      <4>1. CASE q = l.head
        BY <2>2, <3>2, <4>1
      <4>2. CASE q # l.head
        BY <2>2, <3>2, <4>2
      <4> QED
        BY <4>1, <4>2
    <3> QED
      BY <3>1, <3>2
  <2>4. m.next[p] = l.head /\ \A q \in Conn : q # p => m.next[q] = l.next[q]
    BY <2>1 DEF Lists
  <2> QED
    BY <2>1, <2>3, <2>4
<1> HIDE DEF m
<1>7. ASSUME NEW i \in 1 .. n + 1
      PROVE  /\ m.next[t[i]] = IF i = n + 1 THEN NULL ELSE t[i + 1]
             /\ m.prev[t[i]] = IF i = 1 THEN NULL ELSE t[i - 1]
  <2>1. CASE i = 1
    <3>1. n # 0 => 1 \in 1 .. n
      BY <1>1
    <3>2. n # 0 => t[2] = s[1]
      BY <1>3, <3>1
    <3> QED
      BY <1>1, <1>3, <1>6, <2>1, <3>2
  <2>2. CASE i # 1
    <3> DEFINE j == i - 1
    <3>1. j \in 1 .. n /\ t[i] = s[j] /\ s[j] \in A /\ s[j] \in Conn /\ s[j] # p
      BY <1>1, <1>2, <2>2
    <3>2. m.next[t[i]] = IF j = n THEN NULL ELSE s[j + 1]
      BY <1>1, <1>6, <3>1
    <3>3. j # n => t[i + 1] = s[j + 1]
      <4>1. j # n => j + 1 \in 1 .. n /\ (j + 1) + 1 = i + 1
        BY <1>1, <3>1
      <4> QED
        BY <1>3, <4>1
    <3>4. (j = n) = (i = n + 1)
      BY <1>1, <3>1
    <3>5. m.prev[t[i]] = t[i - 1]
      <4>1. n # 0 /\ 1 \in 1 .. n
        BY <1>1, <3>1
      <4>2. CASE j = 1
        BY <1>1, <1>3, <1>6, <2>2, <3>1, <4>1, <4>2
      <4>3. CASE j # 1
        <5>1. s[j] # l.head
          BY <1>1, <3>1, <4>1, <4>3
        <5>2. m.prev[t[i]] = s[j - 1]
          BY <1>1, <1>6, <3>1, <4>3, <5>1
        <5>3. j - 1 \in 1 .. n /\ (j - 1) + 1 = i - 1
          BY <1>1, <3>1, <4>3
        <5> QED
          BY <1>3, <5>2, <5>3
      <4> QED
        BY <4>2, <4>3
    <3> QED
      BY <2>2, <3>2, <3>3, <3>4, <3>5
  <2> QED
    BY <2>1, <2>2
<1>8. m.head = IF n + 1 = 0 THEN NULL ELSE t[1]
  BY <1>1, <1>3, <1>6
<1> HIDE DEF t
<1>9. n + 1 \in Nat
  BY <1>1
<1>10. Order(m, t, n + 1, A \cup {p})
  BY <1>3, <1>4, <1>5, <1>7, <1>8, <1>9 DEF Order
<1> QED
  BY <1>10 DEF t, m

(* Removing the k-th block closes the gap.                                 *)
LEMMA RemoveKeepsOrder ==
  ASSUME NEW l \in Lists, NEW n, NEW s, NEW A, Order(l, s, n, A), NEW k \in 1 .. n
  PROVE  Order(ns_remove_conn(l, s[k]), [i \in 1 .. n - 1 |-> IF i < k THEN s[i] ELSE s[i + 1]],
               n - 1, A \ {s[k]})
<1> DEFINE t == [i \in 1 .. n - 1 |-> IF i < k THEN s[i] ELSE s[i + 1]]
           p == s[k]
           m == ns_remove_conn(l, p)
<1>1. /\ n \in Nat /\ s \in [1 .. n -> Conn]
      /\ \A i, j \in 1 .. n : s[i] = s[j] => i = j
      /\ A = {s[i] : i \in 1 .. n}
      /\ l.head = IF n = 0 THEN NULL ELSE s[1]
      /\ \A i \in 1 .. n : /\ l.next[s[i]] = IF i = n THEN NULL ELSE s[i + 1]
                           /\ l.prev[s[i]] = IF i = 1 THEN NULL ELSE s[i - 1]
  BY DEF Order
<1>2. n \in Nat /\ n - 1 \in Nat /\ n # 0 /\ k \in Nat /\ 1 <= k /\ k <= n
  BY <1>1
<1>3. \A i \in 1 .. n - 1 : /\ i < k => i \in 1 .. n /\ t[i] = s[i]
                            /\ ~(i < k) => i + 1 \in 1 .. n /\ t[i] = s[i + 1]
  BY <1>1, <1>2
<1>4. t \in [1 .. n - 1 -> Conn]
  BY <1>1, <1>3
<1>5. ASSUME NEW i \in 1 .. n - 1, NEW j \in 1 .. n - 1, t[i] = t[j] PROVE i = j
  <2> HIDE DEF t
  <2>1. CASE i < k /\ j < k
    <3>1. s[i] = s[j] /\ i \in 1 .. n /\ j \in 1 .. n
      BY <1>3, <1>5, <2>1
    <3> QED
      BY <1>1, <3>1
  <2>2. CASE ~(i < k) /\ ~(j < k)
    <3>1. s[i + 1] = s[j + 1] /\ i + 1 \in 1 .. n /\ j + 1 \in 1 .. n
      BY <1>3, <1>5, <2>2
    <3>2. i + 1 = j + 1
      BY <1>1, <3>1
    <3> QED
      BY <3>2
  <2>3. CASE i < k /\ ~(j < k)
    <3>1. s[i] = s[j + 1] /\ i \in 1 .. n /\ j + 1 \in 1 .. n
      BY <1>3, <1>5, <2>3
    <3>2. i = j + 1
      BY <1>1, <3>1
    <3> QED
      BY <1>2, <2>3, <3>2
  <2>4. CASE ~(i < k) /\ j < k
    <3>1. s[i + 1] = s[j] /\ i + 1 \in 1 .. n /\ j \in 1 .. n
      BY <1>3, <1>5, <2>4
    <3>2. i + 1 = j
      BY <1>1, <3>1
    <3> QED
      BY <1>2, <2>4, <3>2
  <2> QED
    BY <2>1, <2>2, <2>3, <2>4
<1>6. A \ {p} = {t[i] : i \in 1 .. n - 1}
  <2> HIDE DEF t
  <2>1. ASSUME NEW i \in 1 .. n - 1 PROVE t[i] \in A \ {p}
    <3>1. CASE i < k
      <4>1. t[i] = s[i] /\ i \in 1 .. n /\ i # k
        BY <1>2, <1>3, <3>1
      <4> QED
        BY <1>1, <4>1
    <3>2. CASE ~(i < k)
      <4>1. t[i] = s[i + 1] /\ i + 1 \in 1 .. n /\ i + 1 # k
        BY <1>2, <1>3, <3>2
      <4> QED
        BY <1>1, <4>1
    <3> QED
      BY <3>1, <3>2
  <2>2. ASSUME NEW q \in A \ {p} PROVE \E i \in 1 .. n - 1 : q = t[i]
    <3>1. PICK j \in 1 .. n : q = s[j]
      BY <1>1
    <3>2. j # k
      BY <3>1
    <3>3. CASE j < k
      <4>1. j \in 1 .. n - 1
        BY <1>2, <3>3
      <4> QED
        BY <1>3, <3>1, <3>3, <4>1
    <3>4. CASE ~(j < k)
      <4>1. j - 1 \in 1 .. n - 1 /\ ~(j - 1 < k) /\ (j - 1) + 1 = j
        BY <1>2, <3>2, <3>4
      <4>2. t[j - 1] = s[j]
        BY <1>3, <4>1
      <4> QED
        BY <3>1, <4>1, <4>2
    <3> QED
      BY <3>3, <3>4
  <2> QED
    BY <2>1, <2>2
<1>7. /\ l.next[p] = IF k = n THEN NULL ELSE s[k + 1]
      /\ l.prev[p] = IF k = 1 THEN NULL ELSE s[k - 1]
  BY <1>1
<1>8. /\ k # n => k + 1 \in 1 .. n /\ s[k + 1] \in Conn
      /\ k # 1 => k - 1 \in 1 .. n /\ s[k - 1] \in Conn
  BY <1>1, <1>2
<1>9. m.head = IF k = 1 THEN l.next[p] ELSE s[1]
  <2>1. l.prev[p] = NULL <=> k = 1
    BY <1>7, <1>8, NetAssumption
  <2> QED
    BY <1>1, <1>2, <2>1 DEF ns_remove_conn
<1>10. ASSUME NEW j \in 1 .. n, j # k
       PROVE  /\ m.next[s[j]] = IF j = k - 1 THEN l.next[p] ELSE l.next[s[j]]
              /\ m.prev[s[j]] = IF j = k + 1 THEN l.prev[p] ELSE l.prev[s[j]]
  <2>1. s[j] \in Conn /\ s[j] # p
    BY <1>1, <1>10
  <2>2. s[j] = l.prev[p] <=> j = k - 1
    <3>1. CASE k = 1
      BY <1>7, <2>1, <3>1, NetAssumption
    <3>2. CASE k # 1
      BY <1>1, <1>7, <1>8, <3>2
    <3> QED
      BY <3>1, <3>2
  <2>3. s[j] = l.next[p] <=> j = k + 1
    <3>1. CASE k = n
      BY <1>7, <2>1, <3>1, NetAssumption
    <3>2. CASE k # n
      BY <1>1, <1>7, <1>8, <3>2
    <3> QED
      BY <3>1, <3>2
  <2>4. m.next = [q \in Conn |-> CASE q = p -> NULL
                                   [] q = l.prev[p] -> l.next[p]
                                   [] OTHER -> l.next[q]]
    BY DEF ns_remove_conn
  <2>5. m.prev = [q \in Conn |-> CASE q = p -> NULL
                                   [] q = l.next[p] -> l.prev[p]
                                   [] OTHER -> l.prev[q]]
    BY DEF ns_remove_conn
  <2> DEFINE u == s[j]
  <2> HIDE DEF m, p, u
  <2>6. u \in Conn /\ u # p
    BY <2>1 DEF u
  <2>7. m.next[u] = IF u = l.prev[p] THEN l.next[p] ELSE l.next[u]
    <3>1. CASE u = l.prev[p]
      BY <2>4, <2>6, <3>1
    <3>2. CASE u # l.prev[p]
      BY <2>4, <2>6, <3>2
    <3> QED
      BY <3>1, <3>2
  <2>8. m.prev[u] = IF u = l.next[p] THEN l.prev[p] ELSE l.prev[u]
    <3>1. CASE u = l.next[p]
      BY <2>5, <2>6, <3>1
    <3>2. CASE u # l.next[p]
      BY <2>5, <2>6, <3>2
    <3> QED
      BY <3>1, <3>2
  <2> QED
    BY <2>2, <2>3, <2>7, <2>8 DEF u
<1> HIDE DEF t, m
<1>11. m.head = IF n - 1 = 0 THEN NULL ELSE t[1]
  <2>1. CASE n = 1
    BY <1>2, <1>7, <1>9, <2>1
  <2>2. CASE n # 1
    <3>1. 1 \in 1 .. n - 1
      BY <1>2, <2>2
    <3>2. CASE k = 1
      <4>1. t[1] = s[2]
        BY <1>3, <3>1, <3>2
      <4> QED
        BY <1>2, <1>7, <1>9, <2>2, <3>2, <4>1
    <3>3. CASE k # 1
      <4>1. 1 < k
        BY <1>2, <3>3
      <4>2. t[1] = s[1]
        BY <1>3, <3>1, <4>1
      <4> QED
        BY <1>2, <1>9, <2>2, <3>3, <4>2
    <3> QED
      BY <3>2, <3>3
  <2> QED
    BY <2>1, <2>2
<1>12. ASSUME NEW i \in 1 .. n - 1
       PROVE  /\ m.next[t[i]] = IF i = n - 1 THEN NULL ELSE t[i + 1]
              /\ m.prev[t[i]] = IF i = 1 THEN NULL ELSE t[i - 1]
  <2>1. CASE i < k
    <3>1. i \in 1 .. n /\ t[i] = s[i] /\ i # k
      BY <1>2, <1>3, <2>1
    <3>2. m.next[t[i]] = IF i = n - 1 THEN NULL ELSE t[i + 1]
      <4>1. CASE i = k - 1
        <5>1. m.next[t[i]] = l.next[p]
          BY <1>10, <3>1, <4>1
        <5>2. CASE i = n - 1
          BY <1>2, <1>7, <4>1, <5>1, <5>2
        <5>3. CASE i # n - 1
          <6>1. i + 1 \in 1 .. n - 1 /\ ~(i + 1 < k) /\ (i + 1) + 1 = k + 1 /\ k # n
            BY <1>2, <4>1, <5>3
          <6>2. t[i + 1] = s[k + 1]
            BY <1>3, <6>1
          <6> QED
            BY <1>7, <5>1, <5>3, <6>1, <6>2
        <5> QED
          BY <5>2, <5>3
      <4>2. CASE i # k - 1
        <5>1. i + 1 < k /\ i + 1 \in 1 .. n - 1 /\ i # n /\ i # n - 1
          BY <1>2, <2>1, <4>2
        <5>2. t[i + 1] = s[i + 1]
          BY <1>3, <5>1
        <5>3. m.next[t[i]] = l.next[s[i]]
          BY <1>10, <3>1, <4>2
        <5> QED
          BY <1>1, <3>1, <5>1, <5>2, <5>3
      <4> QED
        BY <4>1, <4>2
    <3>3. m.prev[t[i]] = IF i = 1 THEN NULL ELSE t[i - 1]
      <4>1. i # k + 1
        BY <1>2, <2>1
      <4>2. m.prev[t[i]] = l.prev[s[i]]
        BY <1>10, <3>1, <4>1
      <4>3. i # 1 => i - 1 \in 1 .. n - 1 /\ i - 1 < k
        BY <1>2, <2>1
      <4>4. i # 1 => t[i - 1] = s[i - 1]
        BY <1>3, <4>3
      <4> QED
        BY <1>1, <3>1, <4>2, <4>4
    <3> QED
      BY <3>2, <3>3
  <2>2. CASE ~(i < k)
    <3> DEFINE j == i + 1
    <3>1. j \in 1 .. n /\ t[i] = s[j] /\ j # k /\ j # k - 1 /\ j # 1
      BY <1>2, <1>3, <2>2
    <3>2. m.next[t[i]] = IF i = n - 1 THEN NULL ELSE t[i + 1]
      <4>1. m.next[t[i]] = l.next[s[j]]
        BY <1>10, <3>1
      <4>2. i # n - 1 => i + 1 \in 1 .. n - 1 /\ ~(i + 1 < k) /\ j # n
        BY <1>2, <2>2
      <4>3. i # n - 1 => t[i + 1] = s[j + 1]
        BY <1>3, <4>2
      <4>4. i = n - 1 => j = n
        BY <1>2
      <4> QED
        BY <1>1, <3>1, <4>1, <4>2, <4>3, <4>4
    <3>3. m.prev[t[i]] = IF i = 1 THEN NULL ELSE t[i - 1]
      <4>1. CASE i = k
        <5>1. m.prev[t[i]] = l.prev[p]
          BY <1>10, <3>1, <4>1
        <5>2. k # 1 => i - 1 \in 1 .. n - 1 /\ i - 1 < k
          BY <1>2, <4>1
        <5>3. k # 1 => t[i - 1] = s[k - 1]
          BY <1>3, <4>1, <5>2
        <5> QED
          BY <1>7, <4>1, <5>1, <5>3
      <4>2. CASE i # k
        <5>1. i - 1 \in 1 .. n - 1 /\ ~(i - 1 < k) /\ (i - 1) + 1 = i /\ i # 1 /\ j - 1 = i /\ j # k + 1
          BY <1>2, <2>2, <4>2
        <5>2. t[i - 1] = s[i]
          BY <1>3, <5>1
        <5>3. m.prev[t[i]] = l.prev[s[j]]
          BY <1>10, <3>1, <5>1
        <5>4. l.prev[s[j]] = s[j - 1]
          BY <1>1, <3>1
        <5> QED
          BY <5>1, <5>2, <5>3, <5>4
      <4> QED
        BY <4>1, <4>2
    <3> QED
      BY <3>2, <3>3
  <2> QED
    BY <2>1, <2>2
<1>13. Order(m, t, n - 1, A \ {p})
  <2> HIDE DEF p
  <2> QED
    BY <1>2, <1>4, <1>5, <1>6, <1>11, <1>12 DEF Order
<1> QED
  BY <1>13 DEF t, m
-----------------------------------------------------------------------------
(* The functions defined by recursion: the walk along the list, and the    *)
(* list that is left when blocks are removed one after the other.          *)

LEMMA Induction ==
  ASSUME NEW S, 0 \in S, \A n \in Nat : n \in S => n + 1 \in S
  PROVE  \A n \in Nat : n \in S
<1> SUFFICES ASSUME NEW bad \in Nat, bad \notin S PROVE FALSE
  OBVIOUS
<1> DEFINE T == Nat \ S
<1>1. PICK n \in T : \A m \in T : ~(<<m, n>> \in OpToRel(<, Nat))
  <2>1. T \subseteq Nat /\ T # {}
    OBVIOUS
  <2> HIDE DEF T
  <2> QED
    BY <2>1, NatLessThanWellFounded, WFMin
<1>2. \A m \in T : ~(m < n)
  BY <1>1 DEF OpToRel
<1>3. n - 1 \in Nat /\ n - 1 < n /\ (n - 1) + 1 = n /\ n \notin S
  OBVIOUS
<1> QED
  BY <1>2, <1>3

LEMMA ConnIsFinite == Cardinality(Conn) \in Nat
  BY NetAssumption, FS_CardinalityType

(* The list has no more blocks than there are, and they are its A.         *)
LEMMA OrderIsShort ==
  ASSUME NEW l, NEW n, NEW s, NEW A, Order(l, s, n, A)
  PROVE  /\ n <= Cardinality(Conn)
         /\ Cardinality(A) = n /\ A \subseteq Conn
<1>1. /\ n \in Nat /\ s \in [1 .. n -> Conn]
      /\ \A i, j \in 1 .. n : s[i] = s[j] => i = j
      /\ A = {s[i] : i \in 1 .. n}
  BY DEF Order
<1>2. IsFiniteSet(1 .. n) /\ Cardinality(1 .. n) = n
  <2>1. 1 \in Int /\ n \in Int /\ (IF 1 > n THEN 0 ELSE n - 1 + 1) = n
    BY <1>1
  <2> QED
    BY <2>1, FS_Interval
<1>3. s \in Injection(1 .. n, Conn)
  BY <1>1 DEF Injection, IsInjective
<1>4. n <= Cardinality(Conn)
  BY <1>2, <1>3, NetAssumption, FS_Injection
<1>5. s \in Surjection(1 .. n, A) /\ s \in Injection(1 .. n, A)
  BY <1>1 DEF Surjection, Injection, IsInjective
<1>6. Cardinality(A) = Cardinality(1 .. n)
  BY <1>2, <1>5, FS_Surjection
<1> QED
  BY <1>1, <1>2, <1>4, <1>6

WalkFrom(g, m) ==
  IF m = 1 THEN list.head ELSE IF g[m - 1] = NULL THEN NULL ELSE list.next[g[m - 1]]

(* Following next meets the blocks of the list and nothing else.           *)
LEMMA ListedIs ==
  ASSUME NEW n, NEW s, NEW A, Order(list, s, n, A)
  PROVE  Listed = A
<1>1. /\ n \in Nat /\ s \in [1 .. n -> Conn]
      /\ A = {s[i] : i \in 1 .. n}
      /\ list.head = IF n = 0 THEN NULL ELSE s[1]
      /\ \A i \in 1 .. n : list.next[s[i]] = IF i = n THEN NULL ELSE s[i + 1]
  BY DEF Order
<1>2. Cardinality(Conn) \in Nat /\ n <= Cardinality(Conn)
  BY ConnIsFinite, OrderIsShort
<1> DEFINE f == [m \in Steps |-> IF m <= n THEN s[m] ELSE NULL]
<1>3. f = [m \in Steps |-> WalkFrom(f, m)]
  <2> SUFFICES ASSUME NEW m \in Steps PROVE f[m] = WalkFrom(f, m)
    OBVIOUS
  <2>1. m \in Nat /\ 1 <= m
    BY <1>2 DEF Steps
  <2>2. CASE m = 1
    BY <1>1, <2>2 DEF WalkFrom
  <2>3. CASE m # 1
    <3>1. m - 1 \in Steps /\ m - 1 \in Nat /\ 1 <= m - 1
      BY <1>2, <2>3 DEF Steps
    <3>2. CASE m - 1 <= n
      <4>1. f[m - 1] = s[m - 1] /\ m - 1 \in 1 .. n
        BY <1>1, <3>1, <3>2
      <4>2. s[m - 1] # NULL
        BY <1>1, <4>1, NetAssumption
      <4>3. WalkFrom(f, m) = list.next[s[m - 1]]
        BY <2>3, <4>1, <4>2 DEF WalkFrom
      <4>4. list.next[s[m - 1]] = IF m - 1 = n THEN NULL ELSE s[(m - 1) + 1]
        BY <1>1, <4>1
      <4>5. (m - 1) + 1 = m /\ (m <= n <=> m - 1 # n)
        BY <1>1, <2>1, <3>2
      <4> QED
        BY <4>3, <4>4, <4>5
    <3>3. CASE ~(m - 1 <= n)
      <4>1. f[m - 1] = NULL /\ ~(m <= n)
        BY <1>1, <2>1, <3>1, <3>3
      <4>2. WalkFrom(f, m) = NULL
        BY <2>3, <4>1 DEF WalkFrom
      <4> QED
        BY <4>1, <4>2
    <3> QED
      BY <3>2, <3>3
  <2> QED
    BY <2>2, <2>3
<1>4. Walk = [m \in Steps |-> WalkFrom(Walk, m)]
  <2>1. \E g : g = [m \in Steps |-> WalkFrom(g, m)]
    BY <1>3
  <2> QED
    BY <2>1 DEF Walk, WalkFrom
<1>5. \A m \in Nat : m \in Steps => Walk[m] = f[m]
  <2> DEFINE T == {m \in Nat : m \in Steps => Walk[m] = f[m]}
  <2> HIDE DEF f
  <2>1. 0 \in T
    BY <1>2 DEF Steps
  <2>2. ASSUME NEW m \in Nat, m \in T PROVE m + 1 \in T
    <3> SUFFICES ASSUME m + 1 \in Steps PROVE Walk[m + 1] = f[m + 1]
      OBVIOUS
    <3>1. Walk[m + 1] = WalkFrom(Walk, m + 1) /\ f[m + 1] = WalkFrom(f, m + 1)
      BY <1>3, <1>4
    <3>2. CASE m = 0
      BY <3>1, <3>2 DEF WalkFrom
    <3>3. CASE m # 0
      <4>1. m \in Steps /\ (m + 1) - 1 = m
        BY <1>2, <3>3 DEF Steps
      <4>2. Walk[m] = f[m]
        BY <2>2, <4>1
      <4> QED
        BY <3>1, <4>1, <4>2 DEF WalkFrom
    <3> QED
      BY <3>2, <3>3
  <2> HIDE DEF T
  <2>3. \A m \in Nat : m \in T
    BY <2>1, <2>2, Induction
  <2> QED
    BY <2>3 DEF T
<1>6. \A m \in Steps : m \in Nat /\ 1 <= m
  BY <1>2 DEF Steps
<1>7. \A m \in Steps : Walk[m] = IF m <= n THEN s[m] ELSE NULL
  BY <1>5, <1>6
<1>8. \A i \in 1 .. n : i \in Steps /\ i <= n
  BY <1>1, <1>2 DEF Steps
<1>9. \A i \in 1 .. n : s[i] # NULL
  BY <1>1, NetAssumption
<1>10. \A p \in Listed : p \in A
  <2> SUFFICES ASSUME NEW m \in Steps, Walk[m] # NULL PROVE Walk[m] \in A
    BY DEF Listed
  <2>1. m \in 1 .. n /\ Walk[m] = s[m]
    BY <1>1, <1>6, <1>7
  <2> QED
    BY <1>1, <2>1
<1>11. \A p \in A : p \in Listed
  BY <1>1, <1>7, <1>8, <1>9 DEF Listed
<1> QED
  BY <1>10, <1>11

-----------------------------------------------------------------------------
Without(g, l, s) ==
  IF s = {} THEN l ELSE LET x == CHOOSE x \in s : TRUE IN ns_remove_conn(g[s \ {x}], x)

RemovesFrom(g, l, S) == g = [s \in SUBSET S |-> Without(g, l, s)]

RemoveAll(l, S) == FoldSet(LAMBDA p, m : ns_remove_conn(m, p), l, S)

LEMMA RemovesExists ==
  ASSUME NEW l, NEW S, IsFiniteSet(S)
  PROVE  \E g : RemovesFrom(g, l, S)
<1> DEFINE D(n) == {s \in SUBSET S : Cardinality(s) <= n}
           T == {n \in Nat : \E g : g = [s \in D(n) |-> Without(g, l, s)]}
<1>1. \A s \in SUBSET S : IsFiniteSet(s) /\ Cardinality(s) \in Nat /\ Cardinality(s) <= Cardinality(S)
  BY FS_Subset, FS_CardinalityType
<1>2. 0 \in T
  <2> DEFINE g == [s \in D(0) |-> l]
  <2>1. \A s \in D(0) : s = {}
    <3> SUFFICES ASSUME NEW s \in D(0) PROVE s = {}
      OBVIOUS
    <3>1. IsFiniteSet(s) /\ Cardinality(s) = 0
      BY <1>1
    <3> QED
      BY <3>1, FS_EmptySet
  <2>2. \A s \in D(0) : g[s] = Without(g, l, s)
    BY <2>1 DEF Without
  <2>3. g = [s \in D(0) |-> Without(g, l, s)]
    BY <2>2
  <2> QED
    BY <2>3
<1>3. ASSUME NEW n \in Nat, n \in T PROVE n + 1 \in T
  <2>1. PICK g : g = [s \in D(n) |-> Without(g, l, s)]
    BY <1>3
  <2> DEFINE h == [s \in D(n + 1) |-> Without(g, l, s)]
  <2>2. ASSUME NEW s \in D(n + 1) PROVE Without(h, l, s) = Without(g, l, s)
    <3>1. CASE s = {}
      BY <3>1 DEF Without
    <3>2. CASE s # {}
      <4> DEFINE x == CHOOSE x \in s : TRUE
      <4>1. x \in s
        BY <3>2
      <4> HIDE DEF x
      <4>2. s \ {x} \in SUBSET S /\ Cardinality(s \ {x}) = Cardinality(s) - 1
        BY <1>1, <4>1, FS_RemoveElement
      <4>3. s \ {x} \in D(n) /\ s \ {x} \in D(n + 1)
        BY <1>1, <4>2
      <4>4. h[s \ {x}] = g[s \ {x}]
        BY <2>1, <4>3
      <4> QED
        BY <3>2, <4>4 DEF Without, x
    <3> QED
      BY <3>1, <3>2
  <2>3. h = [s \in D(n + 1) |-> Without(h, l, s)]
    BY <2>2
  <2> HIDE DEF h
  <2>4. n + 1 \in Nat /\ \E k : k = [s \in D(n + 1) |-> Without(k, l, s)]
    BY <2>3
  <2> QED
    BY <2>4
<1> HIDE DEF T
<1>4. \A n \in Nat : n \in T
  BY <1>2, <1>3, Induction
<1>5. Cardinality(S) \in T
  BY <1>4, FS_CardinalityType
<1>6. D(Cardinality(S)) = SUBSET S
  BY <1>1
<1> QED
  BY <1>5, <1>6 DEF T, RemovesFrom

(* What removing a set of blocks comes to.                                 *)
LEMMA RemoveAllIs ==
  ASSUME NEW l, NEW S, IsFiniteSet(S)
  PROVE  \E g : RemovesFrom(g, l, S) /\ RemoveAll(l, S) = g[S]
<1> DEFINE g == CHOOSE g : g = [s \in SUBSET S |-> Without(g, l, s)]
<1>1. RemovesFrom(g, l, S)
  BY RemovesExists DEF RemovesFrom
<1>2. RemoveAll(l, S) = g[S]
  BY DEF RemoveAll, FoldSet, MapThenFoldSet, Without
<1> QED
  BY <1>1, <1>2

(* Whatever blocks are removed, the others stay in order.                  *)
LEMMA RemoveAllKeepsOrder ==
  ASSUME NEW l \in Lists, NEW n, NEW s, NEW A, Order(l, s, n, A), NEW S \in SUBSET A
  PROVE  /\ RemoveAll(l, S) \in Lists
         /\ \E m, t : Order(RemoveAll(l, S), t, m, A \ S)
<1>1. A \subseteq Conn
  BY OrderIsShort
<1>2. IsFiniteSet(S) /\ \A r \in SUBSET S : IsFiniteSet(r) /\ Cardinality(r) \in Nat
  BY <1>1, NetAssumption, FS_Subset, FS_CardinalityType
<1>3. PICK g : RemovesFrom(g, l, S) /\ RemoveAll(l, S) = g[S]
  BY <1>2, RemoveAllIs
<1> DEFINE Good(r) == g[r] \in Lists /\ \E m, t : Order(g[r], t, m, A \ r)
           T == {k \in Nat : \A r \in SUBSET S : Cardinality(r) = k => Good(r)}
<1>4. 0 \in T
  <2> SUFFICES ASSUME NEW r \in SUBSET S, Cardinality(r) = 0 PROVE Good(r)
    OBVIOUS
  <2>1. r = {}
    BY <1>2, FS_EmptySet
  <2>2. g[r] = l
    BY <1>3, <2>1 DEF RemovesFrom, Without
  <2>3. A \ r = A
    BY <2>1
  <2> QED
    BY <2>2, <2>3
<1>5. ASSUME NEW k \in Nat, k \in T PROVE k + 1 \in T
  <2> SUFFICES ASSUME NEW r \in SUBSET S, Cardinality(r) = k + 1 PROVE Good(r)
    OBVIOUS
  <2> DEFINE x == CHOOSE x \in r : TRUE
  <2>1. r # {}
    BY FS_EmptySet
  <2>2. x \in r
    BY <2>1
  <2>3. g[r] = ns_remove_conn(g[r \ {x}], x)
    BY <1>3, <2>1 DEF RemovesFrom, Without
  <2> HIDE DEF x
  <2>4. r \ {x} \in SUBSET S /\ Cardinality(r \ {x}) = k
    BY <1>2, <2>2, FS_RemoveElement
  <2>5. Good(r \ {x})
    BY <1>5, <2>4
  <2>6. PICK m, t : Order(g[r \ {x}], t, m, A \ (r \ {x}))
    BY <2>5
  <2>7. x \in A \ (r \ {x}) /\ (A \ (r \ {x})) \ {x} = A \ r
    BY <2>2
  <2>8. PICK i \in 1 .. m : x = t[i]
    BY <2>6, <2>7 DEF Order
  <2>9. Order(ns_remove_conn(g[r \ {x}], t[i]),
              [j \in 1 .. m - 1 |-> IF j < i THEN t[j] ELSE t[j + 1]], m - 1,
              (A \ (r \ {x})) \ {t[i]})
    BY <2>5, <2>6, RemoveKeepsOrder
  <2>10. Order(g[r], [j \in 1 .. m - 1 |-> IF j < i THEN t[j] ELSE t[j + 1]], m - 1, A \ r)
    BY <2>3, <2>7, <2>8, <2>9
  <2>11. g[r] \in Lists
    BY <1>1, <2>2, <2>3, <2>5, RemoveType
  <2> QED
    BY <2>10, <2>11
<1> HIDE DEF T
<1>6. \A k \in Nat : k \in T
  BY <1>4, <1>5, Induction
<1>7. Good(S)
  BY <1>2, <1>6 DEF T
<1> QED
  BY <1>3, <1>7
-----------------------------------------------------------------------------
(* What the invariant says of one block and its client.                    *)

LEMMA OwnerOf ==
  ASSUME TypeOK, OwnersInv, NEW p \in Allocated
  PROVE  /\ p \in Conn /\ struct[p].sock \in Fd /\ struct[p].sock # 0
         /\ ClientAt(struct[p].sock) \in Client /\ Owns(ClientAt(struct[p].sock), p)
         /\ \A c \in Client : Owns(c, p) => c = ClientAt(struct[p].sock)
<1>1. p \in Conn /\ struct[p].sock \in {0} \cup Fd /\ struct[p].sock # 0
  BY DEF TypeOK, OwnersInv, Allocated
<1>2. \E c \in Client : sock[c] = struct[p].sock
  BY DEF OwnersInv, Owns
<1>3. ClientAt(struct[p].sock) \in Client /\ sock[ClientAt(struct[p].sock)] = struct[p].sock
  BY <1>2 DEF ClientAt
<1>4. \A c \in Client : Owns(c, p) => c = ClientAt(struct[p].sock)
  BY <1>1, <1>3 DEF OwnersInv, Owns
<1> QED
  BY <1>1, <1>3, <1>4 DEF Owns

LEMMA AllocatedAre ==
  ASSUME TypeOK, OwnersInv
  PROVE  /\ Allocated = {p \in Conn : struct[p].sock # 0}
         /\ \A p \in Conn : p \notin Allocated => struct[p] = Free
<1>1. \A p \in Conn : p \notin Allocated => struct[p] = Free
  BY DEF Allocated
<1>2. \A p \in Conn : p \in Allocated <=> struct[p].sock # 0
  BY <1>1 DEF OwnersInv, Free
<1>3. Allocated \subseteq Conn
  BY DEF Allocated
<1> QED
  BY <1>1, <1>2, <1>3

(* Where the pass is says what is listed.                                  *)
LEMMA ListedAllocated == PassInv => Listed = Allocated
  BY ListedIs DEF PassInv

(* What only clients do keeps the pass: what is ready stays ready.         *)
LEMMA PassStays ==
  ASSUME PassInv, UNCHANGED <<phase, conn, list, struct, read_set, write_set, sock>>,
         \A c \in Client : /\ Ready(c) => Ready(c)'
                           /\ client[c] = "gone" => client'[c] = "gone"
  PROVE  PassInv'
<1>1. PICK s, n, k : Order(list, s, n, Allocated) /\ k \in 1 .. n + 1 /\ PassAt(s, n, k)
  BY DEF PassInv
<1>2. list' = list /\ Allocated' = Allocated /\ phase' = phase /\ conn' = conn /\ struct' = struct
  BY DEF Allocated
<1>3. \A p : Untouched(p) => Untouched(p)'
  BY DEF Untouched, Owns
<1>4. \A p : HalfServed(p) => HalfServed(p)'
  BY DEF HalfServed, Owns
<1>5. \A p : Served(p) => Served(p)'
  BY DEF Served, Owns
<1>6. PassAt(s, n, k)'
  BY <1>1, <1>2, <1>3, <1>4, <1>5 DEF PassAt
<1>7. Order(list, s, n, Allocated)'
  BY <1>1, <1>2
<1> QED
  BY <1>1, <1>6, <1>7 DEF PassInv

LEMMA OwnersStay ==
  ASSUME OwnersInv, UNCHANGED <<struct, sock>>
  PROVE  OwnersInv'
BY DEF OwnersInv, Owns, Allocated

-----------------------------------------------------------------------------
LEMMA InitInvariant == Init => IInv
<1> SUFFICES ASSUME Init PROVE IInv
  OBVIOUS
<1>1. TypeOK
  BY NetAssumption DEF Init, TypeOK, Free
<1>2. Allocated = {}
  BY DEF Init, Allocated
<1>3. OwnersInv
  BY <1>2 DEF Init, OwnersInv
<1>4. QueueInv
  BY DEF Init, QueueInv
<1>5. SetsInv
  BY DEF Init, SetsInv
<1>6. PassInv
  <2> DEFINE s == [i \in 1 .. 0 |-> NULL]
  <2>1. 1 \in 1 .. 0 + 1
    OBVIOUS
  <2>2. Order(list, s, 0, Allocated)
    BY <1>2 DEF Init, Order
  <2>3. PassAt(s, 0, 1)
    BY DEF Init, PassAt
  <2> HIDE DEF s
  <2> QED
    BY <2>1, <2>2, <2>3 DEF PassInv
<1> QED
  BY <1>1, <1>3, <1>4, <1>5, <1>6 DEF IInv

(* What the clients do.                                                    *)
LEMMA ConnectInvariant ==
  ASSUME IInv, NEW c \in Client, Connect(c)
  PROVE  IInv'
<1>1. TypeOK /\ OwnersInv /\ QueueInv /\ SetsInv /\ PassInv
  BY DEF IInv
<1>2. /\ client[c] = "away" /\ client' = [client EXCEPT ![c] = "queued"]
      /\ backlog' = Append(backlog, c)
      /\ UNCHANGED <<phase, conn, list, struct, read_set, write_set, sock, answers, inbox, sent>>
  BY DEF Connect, serverVars, listVars
<1>3. backlog \in Seq(Client) /\ Len(backlog) \in Nat /\ client \in [Client -> {"away", "queued", "open", "finished", "gone"}]
  BY <1>1 DEF TypeOK
<1>4. /\ backlog' \in Seq(Client) /\ Len(backlog') = Len(backlog) + 1
      /\ backlog'[Len(backlog) + 1] = c
      /\ \A i \in 1 .. Len(backlog) : backlog'[i] = backlog[i]
  BY <1>2, <1>3, AppendProperties
<1>5. TypeOK'
  BY <1>1, <1>2, <1>4 DEF TypeOK
<1>6. QueueInv'
  <2>1. \A i \in 1 .. Len(backlog) : sock[backlog[i]] = 0 /\ backlog[i] # c /\ client'[backlog[i]] = client[backlog[i]]
    <3>1. \A i \in 1 .. Len(backlog) : backlog[i] \in Client
      BY <1>3, ElementOfSeq
    <3> QED
      BY <1>1, <1>2, <1>3, <3>1 DEF QueueInv
  <2>2. sock[c] = 0 /\ client'[c] = "queued"
    BY <1>1, <1>2, <1>3 DEF QueueInv
  <2>3. \A i \in 1 .. Len(backlog') : i \in 1 .. Len(backlog) \/ i = Len(backlog) + 1
    BY <1>3, <1>4
  <2>4. \A i \in 1 .. Len(backlog') : sock'[backlog'[i]] = 0 /\ client'[backlog'[i]] # "away"
    BY <1>1, <1>2, <1>4, <2>1, <2>2, <2>3 DEF QueueInv
  <2>5. \A i, j \in 1 .. Len(backlog') : backlog'[i] = backlog'[j] => i = j
    BY <1>1, <1>4, <2>1, <2>3 DEF QueueInv
  <2>6. \A d \in Client : client'[d] = "away" => sock'[d] = 0
    BY <1>1, <1>2, <1>3 DEF QueueInv
  <2> QED
    BY <2>4, <2>5, <2>6 DEF QueueInv
<1>7. SetsInv'
  <2>1. backlog' # <<>>
    BY <1>3, <1>4
  <2> QED
    BY <1>1, <1>2, <2>1 DEF SetsInv, Open
<1>8. PassInv'
  <2>1. \A d \in Client : client[d] # "away" => client'[d] = client[d]
    BY <1>2, <1>3
  <2>2. \A d \in Client : Ready(d) => Ready(d)'
    BY <1>2, <2>1 DEF Ready
  <2> QED
    BY <1>1, <1>2, <2>1, <2>2, PassStays
<1> QED
  BY <1>1, <1>2, <1>5, <1>6, <1>7, <1>8, OwnersStay DEF IInv

LEMMA SendInvariant ==
  ASSUME IInv, NEW c \in Client, Send(c)
  PROVE  IInv'
<1>1. TypeOK /\ OwnersInv /\ QueueInv /\ SetsInv /\ PassInv
  BY DEF IInv
<1>2. /\ sent' = [sent EXCEPT ![c] = @ + 1] /\ inbox' = [inbox EXCEPT ![c] = @ + 1]
      /\ UNCHANGED <<phase, conn, list, struct, read_set, write_set, sock, answers, backlog, client>>
  BY DEF Send, serverVars, listVars
<1>3. TypeOK'
  BY <1>1, <1>2 DEF TypeOK
<1>4. QueueInv'
  BY <1>1, <1>2 DEF QueueInv
<1>5. SetsInv'
  BY <1>1, <1>2 DEF SetsInv, Open
<1>6. \A d \in Client : Ready(d) => Ready(d)'
  <2>1. \A d \in Client : inbox[d] \in Nat /\ inbox'[d] \in Nat /\ inbox'[d] >= inbox[d]
    BY <1>1, <1>2 DEF TypeOK
  <2> QED
    BY <1>2, <2>1 DEF Ready
<1>7. PassInv'
  BY <1>1, <1>2, <1>6, PassStays
<1> QED
  BY <1>1, <1>2, <1>3, <1>4, <1>5, <1>7, OwnersStay DEF IInv

LEMMA LeaveInvariant ==
  ASSUME IInv, NEW c \in Client, Finish(c) \/ Reset(c)
  PROVE  IInv'
<1>1. TypeOK /\ OwnersInv /\ QueueInv /\ SetsInv /\ PassInv
  BY DEF IInv
<1>2. /\ client[c] \in {"queued", "open", "finished"}
      /\ UNCHANGED <<phase, conn, list, struct, read_set, write_set, sock, answers, backlog, sent>>
      /\ \/ client' = [client EXCEPT ![c] = "finished"] /\ inbox' = inbox
         \/ client' = [client EXCEPT ![c] = "gone"] /\ inbox' = [inbox EXCEPT ![c] = 0]
  BY DEF Finish, Reset, serverVars, listVars
<1>3. client \in [Client -> {"away", "queued", "open", "finished", "gone"}] /\ inbox \in [Client -> Nat]
  BY <1>1 DEF TypeOK
<1>4. /\ client' \in [Client -> {"away", "queued", "open", "finished", "gone"}]
      /\ inbox' \in [Client -> Nat]
      /\ client'[c] \in {"finished", "gone"}
      /\ \A d \in Client : d # c => client'[d] = client[d] /\ inbox'[d] = inbox[d]
  BY <1>2, <1>3
<1>5. TypeOK'
  BY <1>1, <1>2, <1>4 DEF TypeOK
<1>6. QueueInv'
  <2>1. \A d \in Client : client'[d] = "away" => client[d] = "away"
    BY <1>2, <1>4
  <2>2. \A i \in 1 .. Len(backlog) : backlog[i] \in Client
    BY <1>1, ElementOfSeq DEF TypeOK
  <2> QED
    BY <1>1, <1>2, <2>1, <2>2 DEF QueueInv
<1>7. SetsInv'
  BY <1>1, <1>2 DEF SetsInv, Open
<1>8. PassInv'
  <2>1. \A d \in Client : Ready(d) => Ready(d)'
    BY <1>4 DEF Ready
  <2>2. \A d \in Client : client[d] = "gone" => client'[d] = "gone"
    BY <1>2, <1>4
  <2> QED
    BY <1>1, <1>2, <2>1, <2>2, PassStays
<1> QED
  BY <1>1, <1>2, <1>5, <1>6, <1>7, <1>8, OwnersStay DEF IInv
-----------------------------------------------------------------------------
(* What the server does.                                                   *)

(* Closing some of the blocks leaves the others as they are.               *)
LEMMA CloseConnsKeeps ==
  ASSUME TypeOK, OwnersInv, PassInv, NEW S \in SUBSET Allocated, CloseConns(S)
  PROVE  /\ list' \in Lists
         /\ struct' \in [Conn -> [sock : {0} \cup Fd, close : BOOLEAN, send : Nat]]
         /\ sock' \in [Client -> {0} \cup Fd]
         /\ Allocated' = Allocated \ S
         /\ \A p \in Allocated' : struct'[p] = struct[p]
         /\ \A c \in Client : sock'[c] = sock[c] \/ sock'[c] = 0
         /\ \E s, n : Order(list', s, n, Allocated')
         /\ OwnersInv'
<1>1. /\ struct' = [p \in Conn |-> IF p \in S THEN Free ELSE struct[p]]
      /\ sock' = [c \in Client |-> IF \E p \in S : struct[p].sock = sock[c] THEN 0 ELSE sock[c]]
      /\ list' = RemoveAll(list, S)
  BY DEF CloseConns, RemoveAll
<1>2. /\ list \in Lists /\ sock \in [Client -> {0} \cup Fd]
      /\ struct \in [Conn -> [sock : {0} \cup Fd, close : BOOLEAN, send : Nat]]
  BY DEF TypeOK, Lists
<1>3. Allocated \subseteq Conn /\ Allocated' \subseteq Conn
  BY DEF Allocated
<1>4. struct' \in [Conn -> [sock : {0} \cup Fd, close : BOOLEAN, send : Nat]]
  <2>1. Free \in [sock : {0} \cup Fd, close : BOOLEAN, send : Nat]
    BY DEF Free
  <2> QED
    BY <1>1, <1>2, <2>1
<1>5. sock' \in [Client -> {0} \cup Fd]
  BY <1>1, <1>2
<1>6. Allocated' = Allocated \ S
  <2>1. \A p \in Conn : p \in Allocated' <=> struct'[p] # Free
    BY DEF Allocated
  <2>2. \A p \in Conn : p \in Allocated <=> struct[p] # Free
    BY DEF Allocated
  <2>3. \A p \in Conn : p \in Allocated' <=> p \in Allocated /\ p \notin S
    BY <1>1, <2>1, <2>2
  <2> QED
    BY <1>3, <2>3
<1>7. \A p \in Allocated' : struct'[p] = struct[p] /\ p \in Allocated /\ p \notin S
  BY <1>1, <1>3, <1>6
<1>8. \A c \in Client : sock'[c] = sock[c] \/ sock'[c] = 0
  BY <1>1
<1>9. list' \in Lists /\ \E s, n : Order(list', s, n, Allocated')
  <2>1. PICK s, n, k : Order(list, s, n, Allocated) /\ k \in 1 .. n + 1 /\ PassAt(s, n, k)
    BY DEF PassInv
  <2> QED
    BY <1>1, <1>2, <1>6, <2>1, RemoveAllKeepsOrder
<1>10. \A c \in Client, p \in Allocated' : Owns(c, p) <=> Owns(c, p)'
  <2> SUFFICES ASSUME NEW c \in Client, NEW p \in Allocated' PROVE Owns(c, p) <=> Owns(c, p)'
    OBVIOUS
  <2>1. p \in Allocated /\ p \notin S /\ struct'[p].sock = struct[p].sock /\ struct[p].sock # 0
    BY <1>7 DEF OwnersInv
  <2>2. ASSUME sock[c] = struct[p].sock PROVE sock'[c] = sock[c]
    <3>1. \A q \in S : struct[q].sock # sock[c]
      BY <2>1, <2>2 DEF OwnersInv
    <3> QED
      BY <1>1, <3>1
  <2>3. ASSUME sock'[c] = struct[p].sock PROVE sock'[c] = sock[c]
    BY <1>8, <2>1, <2>3
  <2> QED
    BY <2>1, <2>2, <2>3 DEF Owns
<1>11. OwnersInv'
  <2>1. \A p \in Allocated' : struct'[p].sock # 0 /\ \E c \in Client : Owns(c, p)'
    BY <1>7, <1>10 DEF OwnersInv
  <2>2. ASSUME NEW c \in Client, sock'[c] # 0 PROVE \E p \in Allocated' : Owns(c, p)'
    <3>1. sock'[c] = sock[c] /\ sock[c] # 0 /\ \A p \in S : struct[p].sock # sock[c]
      BY <1>1, <2>2
    <3>2. PICK p \in Allocated : Owns(c, p)
      BY <3>1 DEF OwnersInv
    <3>3. p \in Allocated'
      BY <1>6, <3>1, <3>2 DEF Owns
    <3> QED
      BY <1>10, <3>2, <3>3
  <2>3. \A p, q \in Allocated' : struct'[p].sock = struct'[q].sock => p = q
    BY <1>7 DEF OwnersInv
  <2>4. \A c, d \in Client : sock'[c] = sock'[d] /\ sock'[c] # 0 => c = d
    BY <1>8 DEF OwnersInv
  <2> QED
    BY <2>1, <2>2, <2>3, <2>4 DEF OwnersInv
<1> QED
  BY <1>4, <1>5, <1>6, <1>7, <1>8, <1>9, <1>11

LEMMA NoneClosedAtOnce ==
  ASSUME TypeOK, PassInv, phase = "poll"
  PROVE  /\ conn = NULL /\ Listed = Allocated
         /\ \A p \in Allocated : ~struct[p].close
         /\ ClosedAtOnce = {}
<1>1. PICK s, n, k : Order(list, s, n, Allocated) /\ k \in 1 .. n + 1 /\ PassAt(s, n, k)
  BY DEF PassInv
<1>2. conn = NULL /\ \A i \in 1 .. n : ~struct[s[i]].close
  BY <1>1 DEF PassAt
<1>3. Listed = Allocated
  BY ListedAllocated
<1>4. \A p \in Allocated : ~struct[p].close
  BY <1>1, <1>2 DEF Order
<1>5. ClosedAtOnce = {}
  BY <1>3, <1>4 DEF ClosedAtOnce
<1> QED
  BY <1>2, <1>3, <1>4, <1>5

LEMMA CloseNone ==
  ASSUME TypeOK, CloseConns({})
  PROVE  UNCHANGED <<list, struct, sock>>
<1>1. list' = RemoveAll(list, {})
  BY DEF CloseConns, RemoveAll
<1>2. IsFiniteSet({})
  BY FS_EmptySet
<1>3. PICK g : RemovesFrom(g, list, {}) /\ RemoveAll(list, {}) = g[{}]
  BY <1>2, RemoveAllIs
<1>4. g[{}] = list
  BY <1>3 DEF RemovesFrom, Without
<1>5. struct' = struct /\ sock' = sock
  BY DEF CloseConns, TypeOK
<1> QED
  BY <1>1, <1>3, <1>4, <1>5

LEMMA PollInvariant ==
  ASSUME IInv, Poll
  PROVE  IInv'
<1>1. TypeOK /\ OwnersInv /\ QueueInv /\ SetsInv /\ PassInv
  BY DEF IInv
<1>2. /\ conn = NULL /\ Listed = Allocated /\ ClosedAtOnce = {}
      /\ \A p \in Allocated : ~struct[p].close
  BY <1>1, NoneClosedAtOnce DEF Poll
<1>3. UNCHANGED <<list, struct, sock>>
  BY <1>1, <1>2, CloseNone DEF Poll
<1>4. /\ phase' = "accept"
      /\ read_set' = {s \in ReadSet : Readable(s)}
      /\ write_set' = {s \in WriteSet : Writable(s)}
      /\ UNCHANGED <<conn, backlog, client, inbox, sent, answers>>
  BY <1>2 DEF Poll, clientVars
<1>5. \A p \in Allocated : struct[p].sock \in Fd /\ struct[p].sock # Listening /\ Open(struct[p].sock)
  BY <1>1, OwnerOf DEF Open, Owns, Listening
<1>6. ReadSet \subseteq Fd \cup {Listening} /\ WriteSet \subseteq Fd
  BY <1>2, <1>5 DEF ReadSet, WriteSet, Sending
<1>7. TypeOK'
  BY <1>1, <1>3, <1>4, <1>6 DEF TypeOK
<1>8. QueueInv'
  BY <1>1, <1>3, <1>4 DEF QueueInv
<1>9. SetsInv'
  <2>1. \A s \in (ReadSet \cup WriteSet) \ {Listening} : Open(s)
    BY <1>2, <1>5 DEF ReadSet, WriteSet, Sending
  <2>2. Listening \in read_set' => backlog # <<>>
    BY <1>4 DEF Readable
  <2> QED
    BY <1>3, <1>4, <2>1, <2>2 DEF SetsInv, Open
<1>10. Allocated' = Allocated
  BY <1>3 DEF Allocated
<1>11. ASSUME NEW p \in Allocated PROVE Untouched(p)'
  <2> DEFINE f == struct[p].sock
  <2>1. f # Listening /\ ClientAt(f) \in Client /\ \A c \in Client : Owns(c, p) => c = ClientAt(f)
    BY <1>1, <1>5, OwnerOf
  <2> SUFFICES ASSUME NEW c \in Client, Owns(c, p)
               PROVE  /\ f \in read_set' => Ready(c)
                      /\ struct[p].send > 0 => c \in Deaf \/ f \in write_set'
    BY <1>2, <1>3, <1>4 DEF Untouched, Owns, Ready
  <2>2. c = ClientAt(f)
    BY <2>1
  <2>3. f \in read_set' => Ready(c)
    BY <1>4, <2>1, <2>2 DEF Readable, Ready
  <2>4. ASSUME struct[p].send > 0, c \notin Deaf PROVE f \in write_set'
    <3>1. f \in WriteSet
      BY <1>2, <2>4 DEF WriteSet, Sending
    <3>2. Writable(f)
      BY <2>2, <2>4 DEF Writable
    <3> QED
      BY <1>4, <3>1, <3>2
  <2> QED
    BY <2>3, <2>4
<1>12. PassInv'
  <2>1. PICK s, n, k : Order(list, s, n, Allocated) /\ k \in 1 .. n + 1 /\ PassAt(s, n, k)
    BY <1>1 DEF PassInv
  <2>2. \A i \in 1 .. n : s[i] \in Allocated
    BY <2>1 DEF Order
  <2>3. PassAt(s, n, k)'
    BY <1>2, <1>4, <1>11, <2>2 DEF PassAt
  <2>4. Order(list, s, n, Allocated)'
    BY <1>3, <1>10, <2>1
  <2> QED
    BY <2>1, <2>3, <2>4 DEF PassInv
<1> QED
  BY <1>1, <1>3, <1>7, <1>8, <1>9, <1>12, OwnersStay DEF IInv

LEMMA CloseInvariant ==
  ASSUME IInv, CloseFlagged
  PROVE  IInv'
<1>1. TypeOK /\ OwnersInv /\ QueueInv /\ SetsInv /\ PassInv
  BY DEF IInv
<1> DEFINE S == {p \in Listed : struct[p].close}
<1>2. /\ phase' = "poll" /\ conn = NULL /\ CloseConns(S)
      /\ read_set' = {} /\ write_set' = {}
      /\ UNCHANGED <<conn, backlog, client, inbox, sent, answers>>
  BY DEF CloseFlagged, clientVars
<1>3. Listed = Allocated
  BY <1>1, ListedAllocated
<1>4. S \in SUBSET Allocated /\ \A p \in Allocated \ S : ~struct[p].close
  BY <1>3
<1> HIDE DEF S
<1>5. /\ list' \in Lists
      /\ struct' \in [Conn -> [sock : {0} \cup Fd, close : BOOLEAN, send : Nat]]
      /\ sock' \in [Client -> {0} \cup Fd]
      /\ Allocated' = Allocated \ S
      /\ \A p \in Allocated' : struct'[p] = struct[p]
      /\ \A c \in Client : sock'[c] = sock[c] \/ sock'[c] = 0
      /\ \E s, n : Order(list', s, n, Allocated')
      /\ OwnersInv'
  BY <1>1, <1>2, <1>4, CloseConnsKeeps
<1>6. TypeOK'
  BY <1>1, <1>2, <1>5 DEF TypeOK, Lists
<1>7. QueueInv'
  <2>1. \A i \in 1 .. Len(backlog) : backlog[i] \in Client
    BY <1>1, ElementOfSeq DEF TypeOK
  <2> QED
    BY <1>1, <1>2, <1>5, <2>1 DEF QueueInv
<1>8. SetsInv'
  BY <1>2 DEF SetsInv
<1>9. PassInv'
  <2>1. PICK s, n : Order(list', s, n, Allocated')
    BY <1>5
  <2>2. n \in Nat /\ \A i \in 1 .. n : s[i] \in Allocated'
    BY <2>1 DEF Order
  <2>3. \A i \in 1 .. n : ~struct'[s[i]].close
    BY <1>4, <1>5, <2>2
  <2>4. PassAt(s, n, 1)'
    BY <1>2, <2>3 DEF PassAt
  <2>5. 1 \in 1 .. n + 1
    BY <2>2
  <2> QED
    BY <2>1, <2>4, <2>5 DEF PassInv
<1> QED
  BY <1>5, <1>6, <1>7, <1>8, <1>9 DEF IInv
(* The lowest of some descriptors is one of them.                          *)
LEMMA LowestIsOne ==
  ASSUME NEW F \in SUBSET Nat, F # {}
  PROVE  Min(F) \in F
<1>1. PICK m \in F : \A k \in F : ~(<<k, m>> \in OpToRel(<, Nat))
  BY NatLessThanWellFounded, WFMin
<1>2. \A k \in F : ~(k < m)
  BY <1>1 DEF OpToRel
<1>3. \A k \in F : m \in Int /\ k \in Int
  OBVIOUS
<1>4. \A k \in F : m <= k
  BY <1>2, <1>3
<1> QED
  BY <1>4 DEF Min

(* Who leaves the backlog, whether served or turned away.                  *)
LEMMA FirstOfBacklog ==
  ASSUME TypeOK, QueueInv, SetsInv, phase = "accept", Listening \in read_set
  PROVE  /\ Head(backlog) \in Client /\ sock[Head(backlog)] = 0 /\ client[Head(backlog)] # "away"
         /\ Tail(backlog) \in Seq(Client) /\ Len(Tail(backlog)) = Len(backlog) - 1
         /\ \A i \in 1 .. Len(Tail(backlog)) :
              /\ i + 1 \in 1 .. Len(backlog) /\ Tail(backlog)[i] = backlog[i + 1]
              /\ backlog[i + 1] \in Client /\ backlog[i + 1] # Head(backlog)
<1>1. backlog \in Seq(Client) /\ backlog # <<>>
  BY DEF TypeOK, SetsInv
<1>2. Len(backlog) \in Nat /\ Len(backlog) >= 1 /\ Head(backlog) = backlog[1] /\ 1 \in 1 .. Len(backlog)
  BY <1>1, HeadTailProperties, EmptySeq, LenProperties
<1>3. /\ Tail(backlog) \in Seq(Client) /\ Len(Tail(backlog)) = Len(backlog) - 1
      /\ \A i \in 1 .. Len(Tail(backlog)) : Tail(backlog)[i] = backlog[i + 1]
  BY <1>1, HeadTailProperties
<1>4. \A i \in 1 .. Len(backlog) : backlog[i] \in Client
  BY <1>1, ElementOfSeq
<1>5. \A i \in 1 .. Len(Tail(backlog)) : i + 1 \in 1 .. Len(backlog) /\ i + 1 # 1
  BY <1>2, <1>3
<1> QED
  BY <1>2, <1>3, <1>4, <1>5 DEF QueueInv

LEMMA AcceptedInvariant ==
  ASSUME IInv, phase = "accept", phase' = "serve", Listening \in read_set, FreeFds # {},
         Allocated # Conn, backlog' = Tail(backlog),
         AcceptConn(Head(backlog), CHOOSE p \in Conn : p \notin Allocated),
         UNCHANGED <<read_set, write_set, inbox, sent, answers>>
  PROVE  IInv'
<1>1. TypeOK /\ OwnersInv /\ QueueInv /\ SetsInv /\ PassInv
  BY DEF IInv
<1>0. PICK c, p, f : /\ c = Head(backlog) /\ f = Min(FreeFds)
                     /\ p = CHOOSE block \in Conn : block \notin Allocated
  OBVIOUS
<1>2. p \in Conn /\ p \notin Allocated
  <2>1. Allocated \subseteq Conn
    BY DEF Allocated
  <2> QED
    BY <1>0, <2>1
<1>3. f \in Fd /\ f # 0 /\ \A d \in Client : sock[d] # f
  <2>1. FreeFds \in SUBSET Nat /\ 0 \notin FreeFds
    BY NetAssumption DEF FreeFds, Fd
  <2>2. f \in FreeFds
    BY <1>0, <2>1, LowestIsOne
  <2> QED
    BY <2>1, <2>2 DEF FreeFds, Open
<1>4. /\ c \in Client /\ sock[c] = 0 /\ client[c] # "away"
      /\ Tail(backlog) \in Seq(Client) /\ Len(Tail(backlog)) = Len(backlog) - 1
      /\ \A i \in 1 .. Len(Tail(backlog)) :
           /\ i + 1 \in 1 .. Len(backlog) /\ Tail(backlog)[i] = backlog[i + 1]
           /\ backlog[i + 1] \in Client /\ backlog[i + 1] # c
  BY <1>0, <1>1, FirstOfBacklog
<1>5. /\ list' = ns_add_conn(list, p)
      /\ struct' = [struct EXCEPT ![p] = [Free EXCEPT !.sock = f]]
      /\ sock' = [sock EXCEPT ![c] = f]
      /\ client' = [client EXCEPT ![c] = IF @ = "queued" THEN "open" ELSE @]
      /\ conn' = p
  BY <1>0 DEF AcceptConn
<1>6. /\ list \in Lists /\ struct \in [Conn -> [sock : {0} \cup Fd, close : BOOLEAN, send : Nat]]
      /\ sock \in [Client -> {0} \cup Fd]
      /\ client \in [Client -> {"away", "queued", "open", "finished", "gone"}]
  BY <1>1 DEF TypeOK, Lists
<1>7. /\ list' \in Lists
      /\ client' \in [Client -> {"away", "queued", "open", "finished", "gone"}]
      /\ sock' \in [Client -> {0} \cup Fd]
  BY <1>2, <1>3, <1>5, <1>6, AddType
<1>8. /\ struct'[p].sock = f /\ struct'[p].close = FALSE /\ struct'[p].send = 0
      /\ struct'[p] \in [sock : {0} \cup Fd, close : BOOLEAN, send : Nat]
      /\ \A q \in Conn : q # p => struct'[q] = struct[q]
  BY <1>2, <1>3, <1>5, <1>6 DEF Free
<1>9. /\ sock'[c] = f /\ \A d \in Client : d # c => sock'[d] = sock[d] /\ client'[d] = client[d]
      /\ client'[c] # "away"
  BY <1>4, <1>5, <1>6
<1>10. TypeOK'
  <2>1. struct' \in [Conn -> [sock : {0} \cup Fd, close : BOOLEAN, send : Nat]]
    BY <1>5, <1>6, <1>8
  <2> QED
    BY <1>1, <1>2, <1>4, <1>5, <1>7, <2>1 DEF TypeOK, Lists
<1>11. Allocated' = Allocated \cup {p}
  <2>1. \A q \in Conn : q \in Allocated' <=> struct'[q] # Free
    BY DEF Allocated
  <2>2. \A q \in Conn : q \in Allocated <=> struct[q] # Free
    BY DEF Allocated
  <2>3. struct'[p] # Free
    BY <1>3, <1>8 DEF Free
  <2>4. Allocated \subseteq Conn /\ Allocated' \subseteq Conn
    BY DEF Allocated
  <2>5. \A q \in Conn : q \in Allocated' <=> q \in Allocated \/ q = p
    BY <1>8, <2>1, <2>2, <2>3
  <2> QED
    BY <1>2, <2>4, <2>5
<1>12. \A q \in Allocated : q \in Conn /\ q # p /\ struct'[q] = struct[q] /\ struct[q].sock # f /\ struct[q].sock # 0
  <2>1. \A q \in Allocated : q \in Conn /\ q # p
    BY <1>2 DEF Allocated
  <2>2. \A q \in Allocated : struct[q].sock # f /\ struct[q].sock # 0
    BY <1>1, <1>3 DEF OwnersInv, Owns
  <2> QED
    BY <1>8, <2>1, <2>2
<1>13. \A d \in Client, q \in Allocated : Owns(d, q)' <=> Owns(d, q) /\ d # c
  BY <1>4, <1>9, <1>12 DEF Owns
<1>14. OwnersInv'
  <2>1. ASSUME NEW q \in Allocated' PROVE struct'[q].sock # 0 /\ \E d \in Client : Owns(d, q)'
    <3>1. CASE q = p
      BY <1>3, <1>4, <1>8, <1>9, <3>1 DEF Owns
    <3>2. CASE q \in Allocated
      <4>1. PICK d \in Client : Owns(d, q)
        BY <1>1, <3>2 DEF OwnersInv
      <4>2. d # c
        BY <1>4, <1>12, <3>2, <4>1 DEF Owns
      <4> QED
        BY <1>12, <1>13, <3>2, <4>1, <4>2
    <3> QED
      BY <1>11, <3>1, <3>2
  <2>2. ASSUME NEW d \in Client, sock'[d] # 0 PROVE \E q \in Allocated' : Owns(d, q)'
    <3>1. CASE d = c
      BY <1>8, <1>9, <1>11, <3>1 DEF Owns
    <3>2. CASE d # c
      <4>1. PICK q \in Allocated : Owns(d, q)
        BY <1>1, <1>9, <2>2, <3>2 DEF OwnersInv
      <4> QED
        BY <1>11, <1>13, <3>2, <4>1
    <3> QED
      BY <3>1, <3>2
  <2>3. \A q, r \in Allocated' : struct'[q].sock = struct'[r].sock => q = r
    BY <1>1, <1>8, <1>11, <1>12 DEF OwnersInv
  <2>4. \A d, e \in Client : sock'[d] = sock'[e] /\ sock'[d] # 0 => d = e
    BY <1>1, <1>3, <1>9 DEF OwnersInv
  <2> QED
    BY <2>1, <2>2, <2>3, <2>4 DEF OwnersInv
<1>15. QueueInv'
  <2>1. \A i \in 1 .. Len(backlog') : sock'[backlog'[i]] = 0 /\ client'[backlog'[i]] # "away"
    BY <1>1, <1>4, <1>9 DEF QueueInv
  <2>2. \A i, j \in 1 .. Len(backlog') : backlog'[i] = backlog'[j] => i = j
    <3> SUFFICES ASSUME NEW i \in 1 .. Len(Tail(backlog)), NEW j \in 1 .. Len(Tail(backlog)),
                        Tail(backlog)[i] = Tail(backlog)[j]
                 PROVE  i = j
      OBVIOUS
    <3>1. backlog[i + 1] = backlog[j + 1] /\ i + 1 \in 1 .. Len(backlog) /\ j + 1 \in 1 .. Len(backlog)
      BY <1>4
    <3>2. i + 1 = j + 1
      BY <1>1, <3>1 DEF QueueInv
    <3> QED
      BY <3>2
  <2>3. \A d \in Client : client'[d] = "away" => sock'[d] = 0
    BY <1>1, <1>9 DEF QueueInv
  <2> QED
    BY <2>1, <2>2, <2>3 DEF QueueInv
<1>16. SetsInv'
  <2>1. \A s \in (read_set \cup write_set) \ {Listening} : Open(s)'
    BY <1>1, <1>4, <1>9 DEF SetsInv, Open, Listening
  <2> QED
    BY <2>1 DEF SetsInv
<1>17. Untouched(p)'
  <2>1. f \notin read_set
    BY <1>1, <1>3 DEF SetsInv, Open, Listening
  <2> QED
    BY <1>8, <2>1 DEF Untouched
<1>18. ASSUME NEW q \in Allocated, Untouched(q) PROVE Untouched(q)'
  <2>1. ~struct'[q].close /\ struct'[q].sock = struct[q].sock /\ struct'[q].send = struct[q].send
    BY <1>12, <1>18 DEF Untouched
  <2>2. \A d \in Client : d # c /\ Ready(d) => Ready(d)'
    BY <1>9 DEF Ready
  <2> QED
    BY <1>13, <1>18, <2>1, <2>2 DEF Untouched
<1>19. PassInv'
  <2>1. PICK s, n, k : Order(list, s, n, Allocated) /\ k \in 1 .. n + 1 /\ PassAt(s, n, k)
    BY <1>1 DEF PassInv
  <2> DEFINE t == [i \in 1 .. n + 1 |-> IF i = 1 THEN p ELSE s[i - 1]]
  <2>2. Order(ns_add_conn(list, p), t, n + 1, Allocated \cup {p})
    BY <1>2, <1>6, <2>1, AddKeepsOrder
  <2>3. n \in Nat /\ \A i \in 1 .. n : s[i] \in Allocated /\ Untouched(s[i])
    BY <2>1 DEF Order, PassAt
  <2>4. 1 \in 1 .. n + 1 /\ t[1] = p
    BY <2>3
  <2>5. \A i \in 1 .. n + 1 : i # 1 => i - 1 \in 1 .. n /\ t[i] = s[i - 1]
    BY <2>3
  <2> HIDE DEF t
  <2>6. \A i \in 1 .. n + 1 : ~(i < 1) /\ Untouched(t[i])'
    BY <1>17, <1>18, <2>3, <2>4, <2>5
  <2>7. conn' = IF 1 = (n + 1) + 1 THEN NULL ELSE t[1]
    BY <1>5, <2>3, <2>4
  <2>8. PassAt(t, n + 1, 1)'
    BY <2>6, <2>7 DEF PassAt
  <2>9. Order(list, t, n + 1, Allocated)'
    BY <1>5, <1>11, <2>2
  <2>10. 1 \in 1 .. (n + 1) + 1
    BY <2>3
  <2> QED
    BY <2>8, <2>9, <2>10 DEF PassInv
<1> QED
  BY <1>10, <1>14, <1>15, <1>16, <1>19 DEF IInv

(* Nobody is accepted, or only to be closed again.                         *)
LEMMA NotAcceptedInvariant ==
  ASSUME IInv, phase = "accept", phase' = "serve", conn' = list.head,
         UNCHANGED <<list, struct, sock, read_set, write_set, inbox, sent, answers>>,
         \/ UNCHANGED <<backlog, client>>
         \/ /\ Listening \in read_set /\ backlog' = Tail(backlog)
            /\ client' = [client EXCEPT ![Head(backlog)] = "gone"]
  PROVE  IInv'
<1>1. TypeOK /\ OwnersInv /\ QueueInv /\ SetsInv /\ PassInv
  BY DEF IInv
<1>2. client \in [Client -> {"away", "queued", "open", "finished", "gone"}]
  BY <1>1 DEF TypeOK
<1>3. /\ backlog' \in Seq(Client)
      /\ client' \in [Client -> {"away", "queued", "open", "finished", "gone"}]
      /\ QueueInv'
  <2>1. CASE UNCHANGED <<backlog, client>>
    BY <1>1, <2>1 DEF TypeOK, QueueInv
  <2>2. CASE /\ Listening \in read_set /\ backlog' = Tail(backlog)
             /\ client' = [client EXCEPT ![Head(backlog)] = "gone"]
    <3>0. PICK c : c = Head(backlog)
      OBVIOUS
    <3>1. /\ c \in Client /\ sock[c] = 0 /\ client[c] # "away"
          /\ Tail(backlog) \in Seq(Client) /\ Len(Tail(backlog)) = Len(backlog) - 1
          /\ \A i \in 1 .. Len(Tail(backlog)) :
               /\ i + 1 \in 1 .. Len(backlog) /\ Tail(backlog)[i] = backlog[i + 1]
               /\ backlog[i + 1] \in Client /\ backlog[i + 1] # c
      BY <1>1, <2>2, <3>0, FirstOfBacklog
    <3>2. client'[c] = "gone" /\ \A d \in Client : d # c => client'[d] = client[d]
      BY <1>2, <2>2, <3>0, <3>1
    <3>3. client' \in [Client -> {"away", "queued", "open", "finished", "gone"}]
      BY <1>2, <2>2
    <3>4. \A i \in 1 .. Len(backlog') : sock'[backlog'[i]] = 0 /\ client'[backlog'[i]] # "away"
      <4> SUFFICES ASSUME NEW i \in 1 .. Len(Tail(backlog))
                   PROVE  sock[Tail(backlog)[i]] = 0 /\ client'[Tail(backlog)[i]] # "away"
        BY <2>2
      <4>1. i + 1 \in 1 .. Len(backlog) /\ Tail(backlog)[i] = backlog[i + 1]
            /\ backlog[i + 1] \in Client /\ backlog[i + 1] # c
        BY <3>1
      <4>2. sock[backlog[i + 1]] = 0 /\ client[backlog[i + 1]] # "away"
        BY <1>1, <4>1 DEF QueueInv
      <4> QED
        BY <3>2, <4>1, <4>2
    <3>5. \A i, j \in 1 .. Len(backlog') : backlog'[i] = backlog'[j] => i = j
      <4> SUFFICES ASSUME NEW i \in 1 .. Len(Tail(backlog)), NEW j \in 1 .. Len(Tail(backlog)),
                          Tail(backlog)[i] = Tail(backlog)[j]
                   PROVE  i = j
        BY <2>2
      <4>1. backlog[i + 1] = backlog[j + 1] /\ i + 1 \in 1 .. Len(backlog) /\ j + 1 \in 1 .. Len(backlog)
        BY <3>1
      <4>2. i + 1 = j + 1
        BY <1>1, <4>1 DEF QueueInv
      <4> QED
        BY <4>2
    <3>6. \A d \in Client : client'[d] = "away" => sock'[d] = 0
      BY <1>1, <3>2 DEF QueueInv
    <3> QED
      BY <2>2, <3>1, <3>3, <3>4, <3>5, <3>6 DEF QueueInv
  <2> QED
    BY <2>1, <2>2
<1>4. \A d \in Client : sock[d] # 0 => client'[d] = client[d]
  <2>1. CASE UNCHANGED <<backlog, client>>
    BY <2>1
  <2>2. CASE /\ Listening \in read_set /\ backlog' = Tail(backlog)
             /\ client' = [client EXCEPT ![Head(backlog)] = "gone"]
    <3>1. sock[Head(backlog)] = 0
      BY <1>1, <2>2, FirstOfBacklog
    <3> QED
      BY <1>2, <2>2, <3>1
  <2> QED
    BY <2>1, <2>2
<1>5. PICK s, n, k : Order(list, s, n, Allocated) /\ k \in 1 .. n + 1 /\ PassAt(s, n, k)
  BY <1>1 DEF PassInv
<1>6. /\ n \in Nat /\ s \in [1 .. n -> Conn]
      /\ \A i \in 1 .. n : s[i] \in Allocated /\ Untouched(s[i])
      /\ list.head = IF n = 0 THEN NULL ELSE s[1]
  BY <1>5 DEF Order, PassAt
<1>7. conn' = IF 1 = n + 1 THEN NULL ELSE s[1]
  BY <1>6
<1>8. TypeOK'
  <2>1. conn' \in Conn \cup {NULL}
    BY <1>1 DEF TypeOK
  <2> QED
    BY <1>1, <1>3, <2>1 DEF TypeOK
<1>9. SetsInv'
  BY <1>1 DEF SetsInv, Open
<1>10. \A p \in Allocated : Untouched(p) => Untouched(p)'
  <2> SUFFICES ASSUME NEW p \in Allocated, Untouched(p), NEW c \in Client, Owns(c, p), Ready(c)
               PROVE  Ready(c)'
    BY DEF Untouched, Owns
  <2>1. sock[c] # 0
    BY <1>1 DEF OwnersInv, Owns
  <2> QED
    BY <1>4, <2>1 DEF Ready
<1>11. \A i \in 1 .. n : ~(i < 1) /\ Untouched(s[i])'
  BY <1>6, <1>10
<1>12. PassInv'
  <2>1. PassAt(s, n, 1)'
    BY <1>7, <1>11 DEF PassAt
  <2>2. Order(list, s, n, Allocated)'
    BY <1>5 DEF Allocated
  <2>3. 1 \in 1 .. n + 1
    BY <1>6
  <2> QED
    BY <2>1, <2>2, <2>3 DEF PassInv
<1> QED
  BY <1>1, <1>3, <1>8, <1>9, <1>12, OwnersStay DEF IInv

LEMMA AcceptInvariant ==
  ASSUME IInv, Accept
  PROVE  IInv'
BY AcceptedInvariant, NotAcceptedInvariant DEF Accept, listVars
(* Serving a block leaves the others alone, and its descriptor.            *)
LEMMA ServingKeeps ==
  ASSUME TypeOK, OwnersInv, NEW p \in Allocated, sock' = sock,
         struct' \in [Conn -> [sock : {0} \cup Fd, close : BOOLEAN, send : Nat]],
         struct'[p].sock = struct[p].sock,
         \A q \in Conn : q # p => struct'[q] = struct[q]
  PROVE  /\ Allocated' = Allocated /\ OwnersInv'
         /\ \A c \in Client, q \in Conn : Owns(c, q)' <=> Owns(c, q)
<1>1. \A q \in Conn : struct'[q].sock = struct[q].sock
  OBVIOUS
<1>2. struct[p].sock # 0 /\ p \in Conn
  BY OwnerOf
<1>3. Allocated' = Allocated
  <2>1. Allocated' = {q \in Conn : struct'[q] # Free}
    BY DEF Allocated, Free
  <2>2. Allocated = {q \in Conn : struct[q] # Free}
    BY DEF Allocated
  <2>3. struct'[p] # Free /\ struct[p] # Free
    BY <1>1, <1>2 DEF Free
  <2> QED
    BY <1>2, <2>1, <2>2, <2>3
<1>4. \A c \in Client, q \in Conn : Owns(c, q)' <=> Owns(c, q)
  BY <1>1 DEF Owns
<1>5. \A q \in Allocated : q \in Conn
  BY DEF Allocated
<1>6. OwnersInv'
  BY <1>1, <1>3, <1>4, <1>5 DEF OwnersInv
<1> QED
  BY <1>3, <1>4, <1>6

LEMMA OthersOwnOthers ==
  ASSUME TypeOK, OwnersInv, NEW p \in Allocated, NEW q \in Allocated, q # p,
         NEW c \in Client, Owns(c, p), NEW d \in Client, Owns(d, q)
  PROVE  d # c
BY DEF OwnersInv, Owns

LEMMA ReadInvariant ==
  ASSUME IInv, ServeRead
  PROVE  IInv'
<1>1. TypeOK /\ OwnersInv /\ QueueInv /\ SetsInv /\ PassInv
  BY DEF IInv
<1>2. /\ phase = "serve" /\ conn # NULL /\ phase' = "write"
      /\ UNCHANGED <<conn, list, read_set, write_set, backlog, client, sock, sent, answers>>
  BY DEF ServeRead
<1>3. PICK s, n, k : Order(list, s, n, Allocated) /\ k \in 1 .. n + 1 /\ PassAt(s, n, k)
  BY <1>1 DEF PassInv
<1>4. /\ n \in Nat /\ s \in [1 .. n -> Conn]
      /\ \A i, j \in 1 .. n : s[i] = s[j] => i = j
      /\ \A i \in 1 .. n : s[i] \in Allocated /\ s[i] \in Conn
  BY <1>3 DEF Order
<1>5. k \in 1 .. n /\ conn = s[k]
  BY <1>2, <1>3, <1>4 DEF PassAt
<1>6. \A i \in 1 .. n : /\ i < k => Served(s[i])
                        /\ i >= k => Untouched(s[i])
  BY <1>2, <1>3, <1>4, <1>5 DEF PassAt
<1>7. PICK p, c : p = conn /\ c = ClientAt(struct[p].sock)
  OBVIOUS
<1>8. p \in Allocated /\ p \in Conn /\ p = s[k] /\ Untouched(p)
  BY <1>4, <1>5, <1>6, <1>7
<1>9. c \in Client /\ Owns(c, p) /\ \A d \in Client : Owns(d, p) => d = c
  BY <1>1, <1>7, <1>8, OwnerOf
<1>10. /\ inbox \in [Client -> Nat] /\ struct \in [Conn -> [sock : {0} \cup Fd, close : BOOLEAN, send : Nat]]
       /\ struct[p].close = FALSE
  BY <1>1, <1>8 DEF TypeOK, Untouched
<1>11. \/ struct' = struct /\ inbox' = inbox
       \/ /\ inbox[c] > 0 /\ struct' = [struct EXCEPT ![p].send = @ + 1]
          /\ inbox' = [inbox EXCEPT ![c] = @ - 1]
       \/ struct' = [struct EXCEPT ![p].close = ns_is_error(c)] /\ inbox' = inbox
  BY <1>7 DEF ServeRead, ns_read_from_socket
<1>12. /\ struct' \in [Conn -> [sock : {0} \cup Fd, close : BOOLEAN, send : Nat]]
       /\ struct'[p].sock = struct[p].sock
       /\ struct'[p].close => struct'[p].send = struct[p].send
       /\ \A q \in Conn : q # p => struct'[q] = struct[q]
       /\ inbox' \in [Client -> Nat]
       /\ \A d \in Client : d # c => inbox'[d] = inbox[d]
  <2>1. CASE struct' = struct /\ inbox' = inbox
    BY <1>10, <2>1
  <2>2. CASE /\ inbox[c] > 0 /\ struct' = [struct EXCEPT ![p].send = @ + 1]
             /\ inbox' = [inbox EXCEPT ![c] = @ - 1]
    <3>1. struct[p].send + 1 \in Nat /\ inbox[c] - 1 \in Nat
      BY <1>8, <1>9, <1>10, <2>2
    <3> QED
      BY <1>8, <1>9, <1>10, <2>2, <3>1
  <2>3. CASE struct' = [struct EXCEPT ![p].close = ns_is_error(c)] /\ inbox' = inbox
    <3>1. ns_is_error(c) \in BOOLEAN
      BY DEF ns_is_error
    <3> QED
      BY <1>8, <1>10, <2>3, <3>1
  <2> QED
    BY <1>11, <2>1, <2>2, <2>3
<1>13. /\ Allocated' = Allocated /\ OwnersInv'
       /\ \A d \in Client, q \in Conn : Owns(d, q)' <=> Owns(d, q)
  BY <1>1, <1>2, <1>8, <1>12, ServingKeeps
<1>14. TypeOK'
  BY <1>1, <1>2, <1>12 DEF TypeOK
<1>15. QueueInv'
  BY <1>1, <1>2 DEF QueueInv
<1>16. SetsInv'
  BY <1>1, <1>2 DEF SetsInv, Open
<1>17. ASSUME NEW q \in Allocated, q # p, Untouched(q) PROVE Untouched(q)'
  <2>1. q \in Conn /\ struct'[q] = struct[q]
    BY <1>12, <1>17 DEF Allocated
  <2>2. \A d \in Client : Owns(d, q)' => Owns(d, q) /\ d # c
    BY <1>1, <1>8, <1>9, <1>13, <1>17, <2>1, OthersOwnOthers
  <2>3. \A d \in Client : d # c /\ Ready(d) => Ready(d)'
    BY <1>2, <1>12 DEF Ready
  <2> QED
    BY <1>2, <1>17, <2>1, <2>2, <2>3 DEF Untouched
<1>18. ASSUME NEW q \in Allocated, q # p, Served(q) PROVE Served(q)'
  <2>1. q \in Conn /\ struct'[q] = struct[q]
    BY <1>12, <1>18 DEF Allocated
  <2> QED
    BY <1>2, <1>13, <1>18, <2>1 DEF Served
<1>19. HalfServed(p)'
  <2> SUFFICES ASSUME struct'[p].close, NEW d \in Client, Owns(d, p)'
               PROVE  struct'[p].send = 0 \/ d \in Deaf \/ struct'[p].sock \in write_set'
    BY DEF HalfServed
  <2>1. Owns(d, p) /\ struct'[p].send = struct[p].send /\ struct[p].send \in Nat
    BY <1>8, <1>10, <1>12, <1>13
  <2>2. struct[p].send > 0 => d \in Deaf \/ struct[p].sock \in write_set
    BY <1>8, <2>1 DEF Untouched
  <2> QED
    BY <1>2, <1>12, <2>1, <2>2
<1>20. PassInv'
  <2>1. \A i \in 1 .. n : i # k => s[i] # p
    BY <1>4, <1>5, <1>8
  <2>2. \A i \in 1 .. n : /\ i < k => Served(s[i])'
                          /\ i > k => Untouched(s[i])'
    <3> SUFFICES ASSUME NEW i \in 1 .. n
                 PROVE  /\ i < k => Served(s[i])'
                        /\ i > k => Untouched(s[i])'
      OBVIOUS
    <3>1. s[i] \in Allocated /\ (i # k => s[i] # p)
      BY <1>4, <2>1
    <3>2. CASE i < k
      <4>1. i # k /\ ~(i > k) /\ Served(s[i])
        BY <1>4, <1>5, <1>6, <3>2
      <4> QED
        BY <1>18, <3>1, <4>1
    <3>3. CASE i > k
      <4>1. i # k /\ ~(i < k) /\ Untouched(s[i])
        BY <1>4, <1>5, <1>6, <3>3
      <4> QED
        BY <1>17, <3>1, <4>1
    <3> QED
      BY <3>2, <3>3
  <2>3. HalfServed(conn)'
    <3>1. conn' = p
      BY <1>2, <1>7
    <3> QED
      BY <1>19, <3>1 DEF HalfServed, Owns
  <2>4. k <= n /\ conn' = s[k]
    BY <1>2, <1>4, <1>5
  <2>5. PassAt(s, n, k)'
    BY <1>2, <2>2, <2>3, <2>4 DEF PassAt
  <2>6. Order(list, s, n, Allocated)'
    BY <1>2, <1>3, <1>13
  <2> QED
    BY <1>3, <2>5, <2>6 DEF PassInv
<1> QED
  BY <1>13, <1>14, <1>15, <1>16, <1>20 DEF IInv
LEMMA LesserOf ==
  ASSUME NEW a \in Int, NEW b \in Int
  PROVE  Min({a, b}) \in {a, b} /\ Min({a, b}) <= a /\ Min({a, b}) <= b
<1>1. \E x \in {a, b} : \A y \in {a, b} : x <= y
  <2>1. CASE a <= b
    BY <2>1
  <2>2. CASE ~(a <= b)
    <3>1. b <= a
      BY <2>2
    <3> QED
      BY <3>1
  <2> QED
    BY <2>1, <2>2
<1> QED
  BY <1>1 DEF Min

LEMMA WriteInvariant ==
  ASSUME IInv, ServeWrite
  PROVE  IInv'
<1>1. TypeOK /\ OwnersInv /\ QueueInv /\ SetsInv /\ PassInv
  BY DEF IInv
<1>2. /\ phase = "write" /\ phase' = "serve" /\ conn' = list.next[conn]
      /\ UNCHANGED <<list, read_set, write_set, backlog, client, inbox, sent, sock>>
  BY DEF ServeWrite, clientVars
<1>3. PICK s, n, k : Order(list, s, n, Allocated) /\ k \in 1 .. n + 1 /\ PassAt(s, n, k)
  BY <1>1 DEF PassInv
<1>4. /\ n \in Nat /\ s \in [1 .. n -> Conn]
      /\ \A i, j \in 1 .. n : s[i] = s[j] => i = j
      /\ \A i \in 1 .. n : s[i] \in Allocated /\ s[i] \in Conn
      /\ \A i \in 1 .. n : list.next[s[i]] = IF i = n THEN NULL ELSE s[i + 1]
  BY <1>3 DEF Order
<1>5. k \in 1 .. n /\ conn = s[k] /\ HalfServed(conn)
  BY <1>2, <1>3, <1>4 DEF PassAt
<1>6. \A i \in 1 .. n : /\ i < k => Served(s[i])
                        /\ i > k => Untouched(s[i])
  BY <1>2, <1>3 DEF PassAt
<1>7. PICK p, c : p = conn /\ c = ClientAt(struct[p].sock)
  OBVIOUS
<1>8. p \in Allocated /\ p \in Conn /\ p = s[k] /\ HalfServed(p)
  BY <1>4, <1>5, <1>7
<1>9. c \in Client /\ Owns(c, p) /\ \A d \in Client : Owns(d, p) => d = c
  BY <1>1, <1>7, <1>8, OwnerOf
<1>10. /\ answers \in [Client -> Nat] /\ struct \in [Conn -> [sock : {0} \cup Fd, close : BOOLEAN, send : Nat]]
       /\ struct[p].send \in Nat /\ answers[c] \in Nat /\ Room \in Nat
  BY <1>1, <1>8, <1>9, NetAssumption DEF TypeOK
<1>11. PICK m : m = IF c \in Deaf THEN Min({struct[p].send, Room - answers[c]}) ELSE struct[p].send
  OBVIOUS
<1>12. \/ struct[p].sock \notin write_set /\ struct' = struct /\ answers' = answers
       \/ /\ client[c] = "gone" /\ struct' = [struct EXCEPT ![p].close = TRUE]
          /\ answers' = answers
       \/ /\ struct' = [struct EXCEPT ![p].send = @ - m]
          /\ answers' = [answers EXCEPT ![c] = @ + m]
  BY <1>7, <1>11 DEF ServeWrite, ns_write_to_socket
<1>13. struct[p].send - m \in Nat /\ answers[c] + m \in Nat /\ (c \notin Deaf => m = struct[p].send)
  <2>1. CASE c \in Deaf
    <3> DEFINE r == Room - answers[c]
               b == struct[p].send
    <3>1. r \in Int /\ b \in Int /\ b \in Nat
      BY <1>10
    <3> HIDE DEF r, b
    <3>2. Min({b, r}) \in {b, r} /\ Min({b, r}) <= b
      BY <3>1, LesserOf
    <3>3. m = Min({b, r})
      BY <1>11, <2>1 DEF r, b
    <3>4. m \in Int /\ b - m \in Nat
      BY <3>1, <3>2, <3>3
    <3>5. answers[c] + m \in Nat
      <4>1. CASE m = b
        BY <1>10, <3>1, <4>1
      <4>2. CASE m = r
        <5>1. answers[c] + m = Room
          BY <1>10, <4>2 DEF r
        <5> QED
          BY <1>10, <5>1
      <4> QED
        BY <3>2, <3>3, <4>1, <4>2
    <3> QED
      BY <2>1, <3>4, <3>5 DEF b
  <2>2. CASE c \notin Deaf
    BY <1>10, <1>11, <2>2
  <2> QED
    BY <2>1, <2>2
<1>14. /\ struct' \in [Conn -> [sock : {0} \cup Fd, close : BOOLEAN, send : Nat]]
       /\ struct'[p].sock = struct[p].sock
       /\ \A q \in Conn : q # p => struct'[q] = struct[q]
       /\ answers' \in [Client -> Nat]
       /\ \/ struct[p].sock \notin write_set /\ struct'[p] = struct[p]
          \/ client[c] = "gone"
          \/ struct'[p].send = struct[p].send - m
  <2>1. CASE struct[p].sock \notin write_set /\ struct' = struct /\ answers' = answers
    BY <1>10, <2>1
  <2>2. CASE client[c] = "gone" /\ struct' = [struct EXCEPT ![p].close = TRUE] /\ answers' = answers
    BY <1>8, <1>10, <2>2
  <2>3. CASE struct' = [struct EXCEPT ![p].send = @ - m] /\ answers' = [answers EXCEPT ![c] = @ + m]
    BY <1>8, <1>9, <1>10, <1>13, <2>3
  <2> QED
    BY <1>12, <2>1, <2>2, <2>3
<1>15. /\ Allocated' = Allocated /\ OwnersInv'
       /\ \A d \in Client, q \in Conn : Owns(d, q)' <=> Owns(d, q)
  BY <1>1, <1>2, <1>8, <1>14, ServingKeeps
<1>16. conn' = IF k + 1 = n + 1 THEN NULL ELSE s[k + 1]
  BY <1>2, <1>4, <1>5
<1>17. TypeOK'
  <2>1. conn' \in Conn \cup {NULL}
    BY <1>4, <1>5, <1>16
  <2> QED
    BY <1>1, <1>2, <1>14, <2>1 DEF TypeOK
<1>18. QueueInv'
  BY <1>1, <1>2 DEF QueueInv
<1>19. SetsInv'
  BY <1>1, <1>2 DEF SetsInv, Open
<1>20. ASSUME NEW q \in Allocated, q # p
       PROVE  /\ Untouched(q) => Untouched(q)'
              /\ Served(q) => Served(q)'
  <2>1. q \in Conn /\ struct'[q] = struct[q]
    BY <1>14, <1>20 DEF Allocated
  <2> QED
    BY <1>2, <1>15, <2>1 DEF Served, Untouched, Ready
<1>21. Served(p)'
  <2> SUFFICES ASSUME struct'[p].close, NEW d \in Client, Owns(d, p)'
               PROVE  struct'[p].send = 0 \/ d \in Deaf \/ client'[d] = "gone"
    BY DEF Served
  <2>1. d = c
    BY <1>8, <1>9, <1>15
  <2>2. CASE struct[p].sock \notin write_set /\ struct'[p] = struct[p]
    BY <1>8, <1>9, <2>1, <2>2 DEF HalfServed
  <2>3. CASE client[c] = "gone"
    BY <1>2, <2>1, <2>3
  <2>4. CASE struct'[p].send = struct[p].send - m
    BY <1>10, <1>13, <2>1, <2>4
  <2> QED
    BY <1>14, <2>2, <2>3, <2>4
<1>22. PassInv'
  <2>1. \A i \in 1 .. n : i # k => s[i] # p
    BY <1>4, <1>5, <1>8
  <2>2. ASSUME NEW i \in 1 .. n
        PROVE  IF i < k + 1 THEN Served(s[i])' ELSE Untouched(s[i])'
    <3>1. s[i] \in Allocated /\ (i # k => s[i] # p)
      BY <1>4, <2>1
    <3>2. CASE i < k
      <4>1. i # k /\ i < k + 1 /\ Served(s[i])
        BY <1>4, <1>5, <1>6, <3>2
      <4> QED
        BY <1>20, <3>1, <4>1
    <3>3. CASE i = k
      <4>1. i < k + 1 /\ s[i] = p
        BY <1>4, <1>5, <1>8, <3>3
      <4> QED
        BY <1>21, <4>1
    <3>4. CASE ~(i < k) /\ i # k
      <4>1. ~(i < k + 1) /\ i > k
        BY <1>4, <1>5, <3>4
      <4>2. Untouched(s[i])
        BY <1>6, <4>1
      <4> QED
        BY <1>20, <3>1, <3>4, <4>1, <4>2
    <3> QED
      BY <3>2, <3>3, <3>4
  <2>3. PassAt(s, n, k + 1)'
    BY <1>2, <1>16, <2>2 DEF PassAt
  <2>4. Order(list, s, n, Allocated)'
    BY <1>2, <1>3, <1>15
  <2>5. k + 1 \in 1 .. n + 1
    BY <1>4, <1>5
  <2> QED
    BY <2>3, <2>4, <2>5 DEF PassInv
<1> QED
  BY <1>15, <1>17, <1>18, <1>19, <1>22 DEF IInv

LEMMA NextInvariant == IInv /\ [Next]_vars => IInv'
<1> SUFFICES ASSUME IInv, [Next]_vars PROVE IInv'
  OBVIOUS
<1>1. CASE UNCHANGED vars
  <2>1. UNCHANGED <<phase, conn, list, struct, read_set, write_set, backlog, client, sock,
                    inbox, sent, answers>>
    BY <1>1 DEF vars
  <2>2. TypeOK /\ OwnersInv /\ QueueInv /\ SetsInv /\ PassInv
    BY DEF IInv
  <2>3. PassInv'
    BY <2>1, <2>2, PassStays DEF Ready
  <2>4. TypeOK' /\ QueueInv' /\ SetsInv'
    BY <2>1, <2>2 DEF TypeOK, QueueInv, SetsInv, Open
  <2> QED
    BY <2>1, <2>2, <2>3, <2>4, OwnersStay DEF IInv
<1>2. CASE ns_server_poll
  BY <1>2, PollInvariant, AcceptInvariant, ReadInvariant, WriteInvariant, CloseInvariant
     DEF ns_server_poll
<1>3. CASE \E c \in Client : Connect(c) \/ Send(c) \/ Finish(c) \/ Reset(c)
  BY <1>3, ConnectInvariant, SendInvariant, LeaveInvariant
<1> QED
  BY <1>1, <1>2, <1>3 DEF Next

-----------------------------------------------------------------------------
LEMMA Invariance == Spec => []IInv
BY InitInvariant, NextInvariant, PTL DEF Spec

THEOREM TypeCorrect == Spec => []TypeOK
<1>1. IInv => TypeOK
  BY DEF IInv
<1> QED
  BY <1>1, Invariance, PTL

(* However connections come, end and are reset, the list runs through      *)
(* every allocated block once, and these own the open descriptors.         *)
THEOREM ListStaysIntact == Spec => []ListIntact
<1>1. IInv => ListIntact
  <2> SUFFICES ASSUME IInv PROVE ListIntact
    OBVIOUS
  <2>1. TypeOK /\ OwnersInv /\ PassInv
    BY DEF IInv
  <2>2. PICK s, n, k : Order(list, s, n, Allocated) /\ k \in 1 .. n + 1 /\ PassAt(s, n, k)
    BY <2>1 DEF PassInv
  <2>3. /\ n \in Nat /\ s \in [1 .. n -> Conn]
        /\ \A i, j \in 1 .. n : s[i] = s[j] => i = j
        /\ \A i \in 1 .. n : s[i] \in Allocated
        /\ list.head = IF n = 0 THEN NULL ELSE s[1]
        /\ \A i \in 1 .. n : /\ list.next[s[i]] = IF i = n THEN NULL ELSE s[i + 1]
                             /\ list.prev[s[i]] = IF i = 1 THEN NULL ELSE s[i - 1]
    BY <2>2 DEF Order
  <2>4. Cardinality(Allocated) = n
    BY <2>2, OrderIsShort
  <2>5. s \in SetToSeqs(Allocated)
    BY <2>3, <2>4 DEF SetToSeqs
  <2>6. Chained(s)
    <3>1. DOMAIN s = 1 .. n
      BY <2>3
    <3>2. list.head = IF 1 \in DOMAIN s THEN s[1] ELSE NULL
      BY <2>3, <3>1
    <3>3. ASSUME NEW i \in 1 .. n
          PROVE  /\ list.next[s[i]] = IF i + 1 \in DOMAIN s THEN s[i + 1] ELSE NULL
                 /\ list.prev[s[i]] = IF i - 1 \in DOMAIN s THEN s[i - 1] ELSE NULL
      <4>1. (i + 1 \in DOMAIN s <=> i # n) /\ (i - 1 \in DOMAIN s <=> i # 1)
        BY <2>3, <3>1
      <4> QED
        BY <2>3, <4>1
    <3> QED
      BY <3>1, <3>2, <3>3 DEF Chained
  <2>7. Listed = Allocated
    BY <2>1, ListedAllocated
  <2>8. conn \in Allocated \cup {NULL}
    <3>1. k # n + 1 => k \in 1 .. n
      BY <2>2, <2>3
    <3> QED
      BY <2>1, <2>2, <2>3, <3>1 DEF PassAt, TypeOK
  <2>9. {struct[p].sock : p \in Allocated} = {sock[c] : c \in Client} \ {0}
    BY <2>1 DEF OwnersInv, Owns
  <2>10. \A p, q \in Allocated : struct[p].sock = struct[q].sock => p = q
    BY <2>1 DEF OwnersInv
  <2> QED
    BY <2>5, <2>6, <2>7, <2>8, <2>9, <2>10 DEF ListIntact
<1> QED
  BY <1>1, Invariance, PTL

(* What the passes take for ready is open and ready, also after a          *)
(* connection was accepted in the same turn.                               *)
THEOREM SetsStayCurrent == Spec => []SetsAreCurrent
<1>1. IInv => SetsAreCurrent
  <2> SUFFICES ASSUME IInv PROVE SetsAreCurrent
    OBVIOUS
  <2>1. TypeOK /\ OwnersInv /\ SetsInv /\ PassInv
    BY DEF IInv
  <2>2. phase = "poll" => ClosedAtOnce = {}
    BY <2>1, NoneClosedAtOnce
  <2>3. ASSUME phase = "serve", conn # NULL, struct[conn].sock \in read_set
        PROVE  Readable(struct[conn].sock)
    <3>1. PICK s, n, k : Order(list, s, n, Allocated) /\ k \in 1 .. n + 1 /\ PassAt(s, n, k)
      BY <2>1 DEF PassInv
    <3>2. n \in Nat /\ \A i \in 1 .. n : s[i] \in Allocated
      BY <3>1 DEF Order
    <3>3. k \in 1 .. n /\ conn = s[k]
      BY <2>3, <3>1, <3>2 DEF PassAt
    <3>4. Untouched(conn) /\ conn \in Allocated
      BY <2>3, <3>1, <3>2, <3>3 DEF PassAt
    <3>5. /\ ClientAt(struct[conn].sock) \in Client /\ Owns(ClientAt(struct[conn].sock), conn)
          /\ struct[conn].sock # Listening
      BY <2>1, <3>4, OwnerOf DEF Listening
    <3>6. Ready(ClientAt(struct[conn].sock))
      BY <2>3, <3>4, <3>5 DEF Untouched
    <3> QED
      BY <3>5, <3>6 DEF Readable, Ready
  <2> QED
    BY <2>1, <2>2, <2>3 DEF SetsAreCurrent, SetsInv
<1> QED
  BY <1>1, Invariance, PTL

(* A client that stops writing and reads on has every answer before its    *)
(* connection is closed.                                                   *)
THEOREM AnswersComeFirst == Spec => AnswersBeforeClose
<1> DEFINE Answered(p) ==
      (struct[p].sock # 0 /\ struct'[p].sock = 0) =>
        LET c == ClientAt(struct[p].sock)
        IN  client[c] = "gone" \/ c \in Deaf \/ struct[p].send = 0
<1>1. IInv /\ [Next]_vars => \A p \in Conn : Answered(p)
  <2> SUFFICES ASSUME IInv, [Next]_vars, NEW p \in Conn,
                      struct[p].sock # 0, struct'[p].sock = 0
               PROVE  LET c == ClientAt(struct[p].sock)
                      IN  client[c] = "gone" \/ c \in Deaf \/ struct[p].send = 0
    OBVIOUS
  <2>1. TypeOK /\ OwnersInv /\ PassInv
    BY DEF IInv
  <2>2. struct' # struct
    OBVIOUS
  <2>3. ~Poll
    <3> SUFFICES ASSUME Poll PROVE FALSE
      OBVIOUS
    <3>1. ClosedAtOnce = {}
      BY <2>1, NoneClosedAtOnce DEF Poll
    <3>2. struct' = struct
      BY <2>1, <3>1, CloseNone DEF Poll
    <3> QED
      BY <2>2, <3>2
  <2>4. ~Accept
    <3> SUFFICES ASSUME Accept PROVE FALSE
      OBVIOUS
    <3>1. PICK c, q : AcceptConn(c, q) /\ FreeFds # {}
      BY <2>2 DEF Accept, listVars
    <3>2. FreeFds \in SUBSET Nat /\ 0 \notin FreeFds
      BY NetAssumption DEF FreeFds, Fd
    <3>3. Min(FreeFds) # 0
      BY <3>1, <3>2, LowestIsOne
    <3>4. struct' = [struct EXCEPT ![q] = [Free EXCEPT !.sock = Min(FreeFds)]]
      BY <3>1 DEF AcceptConn
    <3>5. struct'[p].sock # 0
      BY <2>1, <3>3, <3>4 DEF TypeOK, Free
    <3> QED
      BY <3>5
  <2>12. /\ struct \in [Conn -> [sock : {0} \cup Fd, close : BOOLEAN, send : Nat]]
         /\ \A m : struct' # [struct EXCEPT ![conn].send = m]
         /\ \A m : struct' # [struct EXCEPT ![conn].close = m]
    <3>1. struct \in [Conn -> [sock : {0} \cup Fd, close : BOOLEAN, send : Nat]]
      BY <2>1 DEF TypeOK
    <3>2. ASSUME NEW m, struct' = [struct EXCEPT ![conn].send = m] PROVE FALSE
      <4>1. struct'[p] = IF p = conn THEN [struct[p] EXCEPT !.send = m] ELSE struct[p]
        BY <3>1, <3>2
      <4> QED
        BY <3>1, <4>1
    <3>3. ASSUME NEW m, struct' = [struct EXCEPT ![conn].close = m] PROVE FALSE
      <4>1. struct'[p] = IF p = conn THEN [struct[p] EXCEPT !.close = m] ELSE struct[p]
        BY <3>1, <3>3
      <4> QED
        BY <3>1, <4>1
    <3> QED
      BY <3>1, <3>2, <3>3
  <2>5. ~ServeRead
    <3>1. ServeRead => \/ struct' = struct
                       \/ \E m : struct' = [struct EXCEPT ![conn].send = m]
                       \/ \E m : struct' = [struct EXCEPT ![conn].close = m]
      BY DEF ServeRead, ns_read_from_socket
    <3> QED
      BY <2>2, <2>12, <3>1
  <2>6. ~ServeWrite
    <3>1. ServeWrite => \/ struct' = struct
                        \/ \E m : struct' = [struct EXCEPT ![conn].send = m]
                        \/ \E m : struct' = [struct EXCEPT ![conn].close = m]
      BY DEF ServeWrite, ns_write_to_socket
    <3> QED
      BY <2>2, <2>12, <3>1
  <2>7. ~UNCHANGED vars /\ \A c \in Client : ~(Connect(c) \/ Send(c) \/ Finish(c) \/ Reset(c))
    BY <2>2 DEF vars, Connect, Send, Finish, Reset, serverVars, listVars
  <2>8. CloseFlagged
    BY <2>3, <2>4, <2>5, <2>6, <2>7 DEF Next, ns_server_poll
  <2>9. struct[p].close
    BY <2>8 DEF CloseFlagged, CloseConns
  <2>10. p \in Allocated
    BY DEF Allocated, Free
  <2>11. Served(p)
    <3>1. PICK s, n, k : Order(list, s, n, Allocated) /\ k \in 1 .. n + 1 /\ PassAt(s, n, k)
      BY <2>1 DEF PassInv
    <3>2. n \in Nat /\ s \in [1 .. n -> Conn]
      BY <3>1 DEF Order
    <3>3. PICK i \in 1 .. n : p = s[i]
      BY <2>10, <3>1 DEF Order
    <3>4. phase = "serve" /\ conn = NULL
      BY <2>8 DEF CloseFlagged
    <3>5. k = n + 1
      BY <3>1, <3>2, <3>4, NetAssumption DEF PassAt
    <3>6. i < k
      BY <3>2, <3>5
    <3> QED
      BY <3>1, <3>3, <3>4, <3>6 DEF PassAt
  <2> QED
    BY <2>1, <2>9, <2>10, <2>11, OwnerOf DEF Served
<1> QED
  BY <1>1, Invariance, PTL DEF Spec, AnswersBeforeClose
=============================================================================
