--------------------------- MODULE BreakpointProofs ---------------------------
(***************************************************************************)
(* The breakpoints of the monitor, for every program, every pool and every *)
(* sequence of commands: the two lists partition the pool, the program is  *)
(* changed only where the list has a breakpoint, continuing sets every     *)
(* breakpoint again, and a stop shows the original instruction.            *)
(*                                                                         *)
(* What concerns the saved bytes holds if the user does not set a          *)
(* breakpoint where there is one; set_breakpoint would save the 0xF1 of    *)
(* the first one as the original byte of the second.                       *)
(***************************************************************************)
EXTENDS Breakpoint, NumberLemmas, SequenceTheorems, TLAPS

(***************************************************************************)
(* Lists without repetition: putting an element in front, taking the first *)
(* one off, unlinking one, and appending lists.                            *)
(***************************************************************************)
Once(s) == \A i, j \in 1 .. Len(s) : s[i] = s[j] => i = j

\* Appending a list to another one.
LEMMA Appended ==
    ASSUME NEW S, NEW s \in Seq(S), NEW t \in Seq(S)
    PROVE  /\ s \o t \in Seq(S)
           /\ \A x : Contains(s \o t, x) <=> Contains(s, x) \/ Contains(t, x)
           /\ Once(s) /\ Once(t) /\ (\A x \in S : ~(Contains(s, x) /\ Contains(t, x)))
              => Once(s \o t)
<1> DEFINE u == s \o t
           m == Len(s)
           l == Len(t)
<1>1. m \in Nat /\ l \in Nat
    BY LenProperties
<1>2. /\ u \in Seq(S) /\ Len(u) = m + l
      /\ \A i \in 1 .. m + l : u[i] = IF i <= m THEN s[i] ELSE t[i - m]
    BY ConcatProperties
<1>3. (\A i \in 1 .. m : s[i] \in S) /\ (\A i \in 1 .. l : t[i] \in S)
    BY ElementOfSeq
<1> HIDE DEF u, m, l
<1>4. /\ \A i \in 1 .. m : i \in 1 .. m + l /\ u[i] = s[i]
      /\ \A i \in 1 .. l : i + m \in 1 .. m + l /\ u[i + m] = t[i]
      /\ \A i \in 1 .. m + l : \/ i \in 1 .. m /\ u[i] = s[i]
                               \/ i - m \in 1 .. l /\ u[i] = t[i - m] /\ ~(i \in 1 .. m)
    <2>1. ASSUME NEW i \in 1 .. m PROVE i \in 1 .. m + l /\ u[i] = s[i]
        BY <1>1, <1>2
    <2>2. ASSUME NEW i \in 1 .. l PROVE i + m \in 1 .. m + l /\ u[i + m] = t[i]
        <3>1. i + m \in 1 .. m + l /\ ~(i + m <= m) /\ (i + m) - m = i
            BY <1>1
        <3> QED BY <1>2, <3>1
    <2>3. ASSUME NEW i \in 1 .. m + l
          PROVE  \/ i \in 1 .. m /\ u[i] = s[i]
                 \/ i - m \in 1 .. l /\ u[i] = t[i - m] /\ ~(i \in 1 .. m)
        BY <1>1, <1>2
    <2> QED BY <2>1, <2>2, <2>3
<1>5. ASSUME NEW x PROVE Contains(u, x) <=> Contains(s, x) \/ Contains(t, x)
    <2>1. Contains(s, x) <=> \E i \in 1 .. m : s[i] = x
        BY DEF Contains, m
    <2>2. Contains(t, x) <=> \E i \in 1 .. l : t[i] = x
        BY DEF Contains, l
    <2>3. Contains(u, x) <=> \E i \in 1 .. m + l : u[i] = x
        BY <1>2 DEF Contains
    <2> QED BY <1>4, <2>1, <2>2, <2>3
<1>6. ASSUME Once(s), Once(t), \A x \in S : ~(Contains(s, x) /\ Contains(t, x)) PROVE Once(u)
    <2> SUFFICES ASSUME NEW i \in 1 .. m + l, NEW j \in 1 .. m + l, u[i] = u[j] PROVE i = j
        BY <1>2 DEF Once
    <2>0. /\ \A a, b \in 1 .. m : s[a] = s[b] => a = b
          /\ \A a, b \in 1 .. l : t[a] = t[b] => a = b
          /\ \A a \in 1 .. m, b \in 1 .. l : s[a] # t[b]
        <3>1. \A a \in 1 .. m, b \in 1 .. l : s[a] # t[b]
            BY <1>3, <1>6 DEF Contains, m, l
        <3> QED BY <1>6, <3>1 DEF Once, m, l
    <2>1. CASE i \in 1 .. m /\ j \in 1 .. m
        BY <1>4, <2>0, <2>1
    <2>2. CASE ~(i \in 1 .. m) /\ ~(j \in 1 .. m)
        <3>1. i - m \in 1 .. l /\ j - m \in 1 .. l /\ t[i - m] = t[j - m]
            BY <1>4, <2>2
        <3>2. i - m = j - m
            BY <2>0, <3>1
        <3> QED BY <1>1, <3>2
    <2>3. CASE ~(i \in 1 .. m <=> j \in 1 .. m)
        BY <1>4, <2>0, <2>3
    <2> QED BY <2>1, <2>2, <2>3
<1> QED BY <1>2, <1>5, <1>6 DEF u

\* An element in front.
LEMMA InFront ==
    ASSUME NEW S, NEW s \in Seq(S), NEW x \in S
    PROVE  /\ <<x>> \o s \in Seq(S)
           /\ \A y : Contains(<<x>> \o s, y) <=> y = x \/ Contains(s, y)
           /\ Once(s) /\ ~Contains(s, x) => Once(<<x>> \o s)
<1>1. <<x>> \in Seq(S) /\ Len(<<x>>) = 1 /\ <<x>>[1] = x
    OBVIOUS
<1>2. \A y : Contains(<<x>>, y) <=> y = x
    BY <1>1 DEF Contains
<1>3. Once(<<x>>)
    BY <1>1 DEF Once
<1> DEFINE f == <<x>>
<1> HIDE DEF f
<1>4. /\ f \o s \in Seq(S)
      /\ \A y : Contains(f \o s, y) <=> Contains(f, y) \/ Contains(s, y)
      /\ Once(f) /\ Once(s) /\ (\A y \in S : ~(Contains(f, y) /\ Contains(s, y)))
         => Once(f \o s)
    BY <1>1, Appended DEF f
<1>5. ~Contains(s, x) => \A y \in S : ~(Contains(f, y) /\ Contains(s, y))
    BY <1>2 DEF f
<1> QED BY <1>2, <1>3, <1>4, <1>5 DEF f

\* The first element taken off.
LEMMA TakenOff ==
    ASSUME NEW S, NEW s \in Seq(S), s # <<>>
    PROVE  /\ Head(s) \in S /\ Tail(s) \in Seq(S) /\ Contains(s, Head(s))
           /\ Once(s) => Once(Tail(s)) /\ ~Contains(Tail(s), Head(s))
           /\ \A y : Contains(s, y) <=> y = Head(s) \/ Contains(Tail(s), y)
<1>1. Len(s) \in Nat \ {0}
    BY EmptySeq
<1>2. /\ Head(s) \in S /\ Tail(s) \in Seq(S) /\ Len(Tail(s)) = Len(s) - 1
      /\ \A i \in 1 .. Len(s) - 1 : Tail(s)[i] = s[i + 1]
    BY HeadTailProperties
<1>3. Head(s) = s[1] /\ 1 \in 1 .. Len(s)
    BY <1>1
<1>4. /\ \A i \in 1 .. Len(s) - 1 : i + 1 \in 1 .. Len(s) /\ i + 1 # 1
      /\ \A i \in 1 .. Len(s) : i = 1 \/ (i - 1 \in 1 .. Len(s) - 1 /\ (i - 1) + 1 = i)
      /\ \A i, j \in 1 .. Len(s) - 1 : i + 1 = j + 1 => i = j
    BY <1>1
<1> DEFINE h == Head(s)
           t == Tail(s)
           m == Len(s)
<1> HIDE DEF h, t, m
<1>5. Contains(s, h)
    BY <1>3 DEF Contains, h
<1>6. ASSUME NEW y PROVE Contains(s, y) <=> y = h \/ Contains(t, y)
    <2>1. ASSUME Contains(t, y) PROVE Contains(s, y)
        <3>1. PICK i \in 1 .. m - 1 : t[i] = y
            BY <1>2, <2>1 DEF Contains, t, m
        <3> QED BY <1>2, <1>4, <3>1 DEF Contains, t, m
    <2>2. ASSUME Contains(s, y), y # h PROVE Contains(t, y)
        <3>1. PICK i \in 1 .. m : s[i] = y
            BY <2>2 DEF Contains, m
        <3>2. i - 1 \in 1 .. m - 1 /\ (i - 1) + 1 = i
            BY <1>3, <1>4, <2>2, <3>1 DEF h, m
        <3>3. t[i - 1] = y
            BY <1>2, <3>1, <3>2 DEF t, m
        <3> QED BY <1>2, <3>2, <3>3 DEF Contains, t, m
    <2> QED BY <1>5, <2>1, <2>2
<1>7. ASSUME Once(s) PROVE Once(t) /\ ~Contains(t, h)
    <2>1. Once(t)
        BY <1>2, <1>4, <1>7 DEF Once, t
    <2>2. ~Contains(t, h)
        BY <1>2, <1>3, <1>4, <1>7 DEF Once, Contains, t, h
    <2> QED BY <2>1, <2>2
<1> QED BY <1>2, <1>5, <1>6, <1>7 DEF h, t

\* The element at place k unlinked.
LEMMA Unlinked ==
    ASSUME NEW S, NEW s \in Seq(S), NEW k \in DOMAIN s, Once(s)
    PROVE  /\ RemoveAt(s, k) \in Seq(S) /\ Once(RemoveAt(s, k))
           /\ \A y : Contains(RemoveAt(s, k), y) <=> y # s[k] /\ Contains(s, y)
<1> DEFINE m == Len(s)
           a == SubSeq(s, 1, k - 1)
           b == SubSeq(s, k + 1, m)
<1>1. m \in Nat /\ k \in 1 .. m /\ \A i \in 1 .. m : s[i] \in S
    BY LenProperties, ElementOfSeq
<1>2. /\ a \in Seq(S) /\ Len(a) = k - 1
      /\ \A i \in 1 .. k - 1 : a[i] = s[i]
    <2>1. 1 \in Int /\ k - 1 \in Int /\ \A i \in 1 .. k - 1 : s[i] \in S
        BY <1>1
    <2>2. /\ a \in Seq(S) /\ Len(a) = (IF 1 <= k - 1 THEN (k - 1) - 1 + 1 ELSE 0)
          /\ \A i \in 1 .. (k - 1) - 1 + 1 : a[i] = s[1 + i - 1]
        BY <2>1, SubSeqProperties
    <2>3. \A i \in 1 .. k - 1 : i \in 1 .. (k - 1) - 1 + 1 /\ 1 + i - 1 = i
        BY <1>1
    <2> HIDE DEF a
    <2> QED BY <1>1, <2>2, <2>3
<1>3. /\ b \in Seq(S) /\ Len(b) = m - k
      /\ \A i \in 1 .. m - k : b[i] = s[k + i]
    <2>1. k + 1 \in Int /\ m \in Int /\ \A i \in k + 1 .. m : s[i] \in S
        BY <1>1
    <2>2. /\ b \in Seq(S) /\ Len(b) = (IF k + 1 <= m THEN m - (k + 1) + 1 ELSE 0)
          /\ \A i \in 1 .. m - (k + 1) + 1 : b[i] = s[(k + 1) + i - 1]
        BY <2>1, SubSeqProperties
    <2>3. \A i \in 1 .. m - k : i \in 1 .. m - (k + 1) + 1 /\ (k + 1) + i - 1 = k + i
        BY <1>1
    <2> HIDE DEF b, m
    <2> QED BY <1>1, <2>2, <2>3
<1>4. RemoveAt(s, k) = a \o b
    BY DEF RemoveAt
<1>5. \A i, j \in 1 .. m : s[i] = s[j] => i = j
    BY DEF Once
<1>6. \A y : Contains(s, y) <=> \E i \in 1 .. m : s[i] = y
    BY DEF Contains
<1> HIDE DEF a, b, m
<1>7. \A y : Contains(a, y) <=> \E i \in 1 .. k - 1 : s[i] = y
    BY <1>2 DEF Contains
<1>8. \A y : Contains(b, y) <=> \E i \in k + 1 .. m : s[i] = y
    <2> SUFFICES ASSUME NEW y PROVE Contains(b, y) <=> \E i \in k + 1 .. m : s[i] = y
        OBVIOUS
    <2>1. ASSUME NEW i \in k + 1 .. m, s[i] = y PROVE Contains(b, y)
        <3>1. i - k \in 1 .. m - k /\ k + (i - k) = i
            BY <1>1
        <3> QED BY <1>3, <2>1, <3>1 DEF Contains
    <2>2. ASSUME NEW i \in 1 .. m - k, b[i] = y PROVE \E j \in k + 1 .. m : s[j] = y
        <3>1. k + i \in k + 1 .. m
            BY <1>1
        <3> QED BY <1>3, <2>2, <3>1
    <2> QED BY <1>3, <2>1, <2>2 DEF Contains
<1>9. Once(a) /\ Once(b) /\ \A x \in S : ~(Contains(a, x) /\ Contains(b, x))
    <2>1. Once(a)
        BY <1>1, <1>2, <1>5 DEF Once
    <2>2. Once(b)
        <3> SUFFICES ASSUME NEW i \in 1 .. m - k, NEW j \in 1 .. m - k, b[i] = b[j] PROVE i = j
            BY <1>3 DEF Once
        <3>1. k + i \in 1 .. m /\ k + j \in 1 .. m /\ s[k + i] = s[k + j]
            BY <1>1, <1>3
        <3>2. k + i = k + j
            BY <1>5, <3>1
        <3> QED BY <1>1, <3>2
    <2>3. \A x \in S : ~(Contains(a, x) /\ Contains(b, x))
        <3>1. ASSUME NEW i \in 1 .. k - 1, NEW j \in k + 1 .. m PROVE s[i] # s[j]
            <4>1. i \in 1 .. m /\ j \in 1 .. m /\ i # j
                BY <1>1
            <4> QED BY <1>5, <4>1
        <3> QED BY <1>7, <1>8, <3>1
    <2> QED BY <2>1, <2>2, <2>3
<1>10. ASSUME NEW y PROVE Contains(a, y) \/ Contains(b, y) <=> y # s[k] /\ Contains(s, y)
    <2>1. ASSUME NEW i \in 1 .. m
          PROVE  s[i] # s[k] <=> i \in 1 .. k - 1 \/ i \in k + 1 .. m
        BY <1>1, <1>5
    <2>2. \A i : i \in 1 .. k - 1 \/ i \in k + 1 .. m => i \in 1 .. m
        BY <1>1
    <2> QED BY <1>6, <1>7, <1>8, <2>1, <2>2
<1> QED BY <1>2, <1>3, <1>4, <1>9, <1>10, Appended

-----------------------------------------------------------------------------
(* The pool.                                                               *)

\* Every element of the pool is in one of the lists, and there once.
ListInv == /\ Once(head) /\ Once(free_)
           /\ \A k \in NO : Contains(head, k) <=> ~Contains(free_, k)

\* An interrupt handler has somewhere to return to, and is not interrupted; exec
\* leaves its loop when n has come down to 0.
GuestInv == /\ ret \in (Addr \ {HANDLER}) \cup {NONE}
            /\ eip = HANDLER => ret # NONE
            /\ pc = "exec" => n # 0

IInv == TypeOK /\ ListInv /\ GuestInv

\* The sizes of code and pool.
LEMMA Sizes == /\ LastAddr \in Nat \ {0} /\ NR_BP \in Nat \ {0} /\ NO \subseteq Nat /\ Addr \subseteq Nat
               /\ HANDLER \in Addr /\ 0 \in Addr /\ 0 # HANDLER /\ 0 \in NO
               /\ NONE \notin Addr /\ HANDLER # NONE
               /\ Original \in [Addr -> Byte] /\ INT3_CODE \in Byte /\ "op" \in Byte
BY CodeAssumption, PoolAssumption
   DEF NO, Addr, HANDLER, NONE, Original, Byte, INT3_CODE

\* ListInv says of each list what PoolSound says of both.
LEMMA ListsArePool == ASSUME TypeOK, ListInv PROVE PoolSound
<1> DEFINE u == head \o free_
<1>1. head \in Seq(NO) /\ free_ \in Seq(NO)
    BY DEF TypeOK
<1>2. /\ u \in Seq(NO) /\ \A x : Contains(u, x) <=> Contains(head, x) \/ Contains(free_, x)
      /\ Once(u)
    <2>1. \A x \in NO : ~(Contains(head, x) /\ Contains(free_, x))
        BY DEF ListInv
    <2> QED BY <1>1, <2>1, Appended DEF ListInv
<1> HIDE DEF u
<1>3. DOMAIN u = 1 .. Len(u) /\ \A i \in 1 .. Len(u) : u[i] \in NO
    BY <1>2, LenProperties, ElementOfSeq
<1>4. IsInjective(u)
    BY <1>2, <1>3 DEF IsInjective, Once
<1>5. Range(u) = NO
    <2>1. \A k \in NO : Contains(u, k)
        BY <1>2 DEF ListInv
    <2> QED BY <1>3, <2>1 DEF Contains, Range
<1> QED BY <1>4, <1>5 DEF PoolSound, u

\* init_bp_list and main.
LEMMA InitIInv == Init => IInv
<1> SUFFICES ASSUME Init PROVE IInv
    OBVIOUS
<1>1. /\ Len(free_) = NR_BP /\ \A i \in 1 .. NR_BP : free_[i] = i - 1
      /\ free_ \in Seq(NO) /\ head \in Seq(NO) /\ Len(head) = 0
    <2>1. \A i \in 1 .. NR_BP : i - 1 \in NO
        BY Sizes DEF NO
    <2>2. free_ = [k \in 1 .. NR_BP |-> k - 1] /\ NR_BP \in Nat /\ head = <<>>
        BY Sizes DEF Init
    <2> QED BY <2>1, <2>2
<1>2. ListInv
    <2>1. Once(head) /\ \A k : ~Contains(head, k)
        BY <1>1 DEF Once, Contains
    <2>2. Once(free_)
        BY <1>1, Sizes DEF Once
    <2>3. ASSUME NEW k \in NO PROVE Contains(free_, k)
        <3>1. k + 1 \in 1 .. NR_BP /\ (k + 1) - 1 = k
            BY Sizes DEF NO
        <3> QED BY <1>1, <3>1 DEF Contains
    <2> QED BY <2>1, <2>2, <2>3 DEF ListInv
<1>3. TypeOK
    <2>1. [type |-> "BREAKPOINT", addr |-> 0, ori_byte |-> "op"]
              \in [type : {"BREAKPOINT", "WATCHPOINT"}, addr : Addr, ori_byte : Byte]
        BY Sizes
    <2>2. bp_list \in [NO -> [type : {"BREAKPOINT", "WATCHPOINT"}, addr : Addr, ori_byte : Byte]]
        BY <2>1 DEF Init
    <2> QED BY <1>1, <2>2, Sizes DEF Init, TypeOK
<1>4. GuestInv
    BY Sizes DEF Init, GuestInv
<1> QED BY <1>2, <1>3, <1>4 DEF IInv

\* new_BP takes an element of free_ that no list has any more, and puts it into head.
LEMMA TakeLists ==
    ASSUME IInv, free_ # <<>>, NEW rec, Take(rec),
           rec \in [type : {"BREAKPOINT", "WATCHPOINT"}, addr : Addr, ori_byte : Byte]
    PROVE  /\ ListInv' /\ head' \in Seq(NO) /\ free_' \in Seq(NO)
           /\ bp_list' \in [NO -> [type : {"BREAKPOINT", "WATCHPOINT"}, addr : Addr, ori_byte : Byte]]
           /\ Head(free_) \in NO /\ ~Contains(head, Head(free_))
           /\ \A k : Contains(head', k) <=> k = Head(free_) \/ Contains(head, k)
<1> DEFINE h == Head(free_)
<1>1. head' = <<h>> \o head /\ free_' = Tail(free_) /\ bp_list' = [bp_list EXCEPT ![h] = rec]
    BY DEF Take
<1>2. head \in Seq(NO) /\ free_ \in Seq(NO) /\ Once(head) /\ Once(free_)
    BY DEF IInv, TypeOK, ListInv
<1>3. /\ h \in NO /\ free_' \in Seq(NO) /\ Contains(free_, h)
      /\ Once(free_') /\ ~Contains(free_', h)
      /\ \A y : Contains(free_, y) <=> y = h \/ Contains(free_', y)
    BY <1>1, <1>2, TakenOff
<1> HIDE DEF h
<1>4. ~Contains(head, h)
    BY <1>3 DEF IInv, ListInv
<1>5. /\ head' \in Seq(NO) /\ Once(head')
      /\ \A y : Contains(head', y) <=> y = h \/ Contains(head, y)
    BY <1>1, <1>2, <1>3, <1>4, InFront
<1>6. ListInv'
    BY <1>3, <1>4, <1>5 DEF IInv, ListInv
<1>7. bp_list' \in [NO -> [type : {"BREAKPOINT", "WATCHPOINT"}, addr : Addr, ori_byte : Byte]]
    BY <1>1, <1>3 DEF IInv, TypeOK
<1> QED BY <1>3, <1>4, <1>5, <1>6, <1>7 DEF h

\* free_BP gives the element that delete_breakpoint has unlinked back.
LEMMA DeleteLists ==
    ASSUME IInv, NEW k \in NO, DeleteBreakpoint(k)
    PROVE  /\ ListInv' /\ head' \in Seq(NO) /\ free_' \in Seq(NO) /\ Contains(head, k)
           /\ \A y : Contains(head', y) <=> y # k /\ Contains(head, y)
<1>1. PICK i \in DOMAIN head : head[i] = k /\ head' = RemoveAt(head, i)
    BY DEF DeleteBreakpoint
<1>2. head \in Seq(NO) /\ free_ \in Seq(NO) /\ Once(head) /\ Once(free_) /\ free_' = <<k>> \o free_
    BY DEF IInv, TypeOK, ListInv, DeleteBreakpoint
<1>3. Contains(head, k)
    BY <1>1, <1>2, LenProperties DEF Contains
<1>4. /\ head' \in Seq(NO) /\ Once(head')
      /\ \A y : Contains(head', y) <=> y # k /\ Contains(head, y)
    BY <1>1, <1>2, Unlinked
<1>5. ~Contains(free_, k)
    BY <1>3 DEF IInv, ListInv
<1>6. /\ free_' \in Seq(NO) /\ Once(free_')
      /\ \A y : Contains(free_', y) <=> y = k \/ Contains(free_, y)
    BY <1>2, <1>5, InFront
<1>7. ListInv'
    BY <1>4, <1>6 DEF IInv, ListInv
<1> QED BY <1>3, <1>4, <1>6, <1>7

\* delete_all_breakpoint gives all of them back.
LEMMA DeleteAllLists ==
    ASSUME IInv, DeleteAll
    PROVE  ListInv' /\ head' \in Seq(NO) /\ free_' \in Seq(NO) /\ \A y : ~Contains(head', y)
<1>1. head' = <<>> /\ free_' = head \o free_
    BY DEF DeleteAll
<1>2. head \in Seq(NO) /\ free_ \in Seq(NO) /\ Once(head) /\ Once(free_)
      /\ \A x \in NO : ~(Contains(head, x) /\ Contains(free_, x))
    BY DEF IInv, TypeOK, ListInv
<1>3. /\ free_' \in Seq(NO) /\ Once(free_')
      /\ \A y : Contains(free_', y) <=> Contains(head, y) \/ Contains(free_, y)
    BY <1>1, <1>2, Appended
<1>4. head' \in Seq(NO) /\ Len(head') = 0
    BY <1>1
<1>5. Once(head') /\ \A y : ~Contains(head', y)
    BY <1>4 DEF Once, Contains
<1> QED BY <1>3, <1>4, <1>5 DEF IInv, ListInv

-----------------------------------------------------------------------------
(* The guest and the loop of exec.                                         *)

\* What is between two pieces of a pass: an eip, a return address and a state.
Guest(g) ==
    /\ g \in [eip : Addr, ret : (Addr \ {HANDLER}) \cup {NONE},
              state : {"READY", "RUN", "BREAK", "STOP"}]
    /\ g.eip = HANDLER => g.ret # NONE

\* do_intr.
LEMMA IntrGuest == ASSUME NEW g, Guest(g), NEW d \in DoIntr(g) PROVE Guest(d) /\ d.state = g.state
<1>1. CASE d = g
    BY <1>1
<1>2. CASE d # g
    <2>1. g.ret = NONE /\ d = [g EXCEPT !.eip = HANDLER, !.ret = g.eip]
        BY <1>2 DEF DoIntr
    <2>2. g.eip \in Addr \ {HANDLER}
        BY <2>1 DEF Guest
    <2>3. d.eip = HANDLER /\ d.ret = g.eip /\ d.state = g.state
        BY <2>1 DEF Guest
    <2>4. d \in [eip : Addr, ret : (Addr \ {HANDLER}) \cup {NONE}, state : {"READY", "RUN", "BREAK", "STOP"}]
        BY <2>1, <2>2, Sizes DEF Guest
    <2> QED BY <2>2, <2>3, <2>4, Sizes DEF Guest
<1> QED BY <1>1, <1>2

\* exec_inst.
LEMMA InstGuest == ASSUME NEW g, Guest(g), NEW h \in ExecInst(g) PROVE Guest(h)
<1>1. CASE code[g.eip] = INT3_CODE
    <2>1. h = [g EXCEPT !.state = "BREAK"]
        BY <1>1 DEF ExecInst
    <2> QED BY <2>1 DEF Guest
<1>2. CASE code[g.eip] # INT3_CODE /\ g.eip = HANDLER
    <2>1. h = [g EXCEPT !.eip = g.ret, !.ret = NONE]
        BY <1>2 DEF ExecInst
    <2>2. g.ret \in Addr \ {HANDLER}
        BY <1>2 DEF Guest
    <2> QED BY <2>1, <2>2 DEF Guest
<1>3. CASE code[g.eip] # INT3_CODE /\ g.eip # HANDLER
    <2>1. h \in [eip : Addr \ {HANDLER}, ret : {g.ret}, state : {"RUN", "STOP"}]
        BY <1>3 DEF ExecInst
    <2> QED BY <2>1 DEF Guest
<1> QED BY <1>1, <1>2, <1>3

\* break_point.
LEMMA StopGuest == ASSUME NEW g, Guest(g) PROVE Guest(Stop(g)) /\ Stop(g).state = g.state
<1>1. CASE Stop(g) = g
    BY <1>1
<1>2. CASE Stop(g) # g
    <2> DEFINE e == IF g.eip + 1 < HANDLER THEN g.eip + 1 ELSE 0
    <2>1. Stop(g) = [g EXCEPT !.eip = e]
        BY <1>2 DEF Stop
    <2>2. e \in Addr /\ e # HANDLER
        <3>1. g.eip \in Nat
            BY Sizes DEF Guest
        <3> QED BY <3>1, Sizes DEF Addr, HANDLER
    <2> HIDE DEF e
    <2> QED BY <2>1, <2>2 DEF Guest
<1> QED BY <1>1, <1>2

\* The breakpoints of the list.
Listed(k) == k \in NO /\ Contains(head, k) /\ IsBreakpoint(k)

\* An address has a breakpoint if the list has one for it, and find_breakpoint finds it.
LEMMA Found ==
    ASSUME TypeOK, NEW a
    PROVE  /\ a \in BpAddrs <=> \E k \in NO : Listed(k) /\ bp_list[k].addr = a
           /\ a \in BpAddrs => Listed(FindBreakpoint(a)) /\ bp_list[FindBreakpoint(a)].addr = a
<1>1. head \in Seq(NO) /\ DOMAIN head = 1 .. Len(head) /\ Len(head) \in Nat
      /\ \A i \in DOMAIN head : head[i] \in NO
    BY LenProperties, ElementOfSeq DEF TypeOK
<1>2. \A k : k \in Range(head) <=> k \in NO /\ Contains(head, k)
    BY <1>1 DEF Range, Contains
<1>3. a \in BpAddrs <=> \E k \in NO : Listed(k) /\ bp_list[k].addr = a
    BY <1>2 DEF BpAddrs, Listed
<1>4. ASSUME a \in BpAddrs PROVE Listed(FindBreakpoint(a)) /\ bp_list[FindBreakpoint(a)].addr = a
    <2>1. PICK k \in NO : Listed(k) /\ bp_list[k].addr = a
        BY <1>3, <1>4
    <2>2. PICK i \in DOMAIN head : head[i] = k
        BY <1>1, <2>1 DEF Listed, Contains
    <2>3. i \in ListedAt(a) /\ ListedAt(a) \subseteq Nat
        BY <1>1, <2>1, <2>2 DEF Listed, ListedAt
    <2>4. Min(ListedAt(a)) \in ListedAt(a)
        <3>1. ListedAt(a) # {} /\ ListedAt(a) \subseteq Nat
            BY <2>3
        <3> QED BY <3>1, MinIsElement
    <2> DEFINE f == Min(ListedAt(a))
    <2>5. f \in DOMAIN head /\ IsBreakpoint(head[f]) /\ bp_list[head[f]].addr = a
        BY <2>4 DEF ListedAt
    <2> HIDE DEF f
    <2>6. Contains(head, head[f]) /\ head[f] \in NO
        BY <1>1, <2>5 DEF Contains
    <2> QED BY <2>5, <2>6 DEF FindBreakpoint, Listed, f
<1> QED BY <1>3, <1>4

\* A pass of the loop.
LEMMA StepIInv == ASSUME IInv, Step PROVE IInv'
<1> DEFINE g0 == [eip |-> eip, ret |-> ret, state |-> nemu_state]
<1>1. PICK g \in DoIntr(g0) : \E h \in ExecInst(g) : \E d \in DoIntr(Stop(h)) :
          /\ code' = CodeAfter(h)
          /\ bp' = IF h.state # "BREAK" THEN bp ELSE IF Hits(h) THEN h.eip ELSE NONE
          /\ eip' = d.eip /\ ret' = d.ret
          /\ n' = IF n = INF THEN INF ELSE n - 1
          /\ nemu_state' = IF h.state # "STOP" /\ n' = 0 THEN "READY" ELSE h.state
    BY DEF Step
<1>2. PICK h \in ExecInst(g) : \E d \in DoIntr(Stop(h)) :
          /\ code' = CodeAfter(h)
          /\ bp' = IF h.state # "BREAK" THEN bp ELSE IF Hits(h) THEN h.eip ELSE NONE
          /\ eip' = d.eip /\ ret' = d.ret
          /\ n' = IF n = INF THEN INF ELSE n - 1
          /\ nemu_state' = IF h.state # "STOP" /\ n' = 0 THEN "READY" ELSE h.state
    BY <1>1
<1>3. PICK d \in DoIntr(Stop(h)) :
          /\ code' = CodeAfter(h)
          /\ bp' = IF h.state # "BREAK" THEN bp ELSE IF Hits(h) THEN h.eip ELSE NONE
          /\ eip' = d.eip /\ ret' = d.ret
          /\ n' = IF n = INF THEN INF ELSE n - 1
          /\ nemu_state' = IF h.state # "STOP" /\ n' = 0 THEN "READY" ELSE h.state
    BY <1>2
<1>4. Guest(g0)
    BY DEF IInv, TypeOK, GuestInv, Guest
<1> HIDE DEF g0
<1>5. Guest(h) /\ Guest(d)
    <2>1. Guest(h)
        BY <1>4, IntrGuest, InstGuest
    <2>2. Guest(Stop(h))
        BY <2>1, StopGuest
    <2> QED BY <2>1, <2>2, IntrGuest
<1>6. /\ pc = "exec" /\ rerun' = FALSE /\ UNCHANGED <<bp_list, head, free_>>
      /\ pc' = CASE nemu_state' = "RUN" -> "exec" [] nemu_state' = "STOP" -> "exited" [] OTHER -> "ui"
    BY DEF Step, pool
<1>7. code' \in [Addr -> Byte]
    <2>1. Resumed \in [Addr -> Byte] /\ code \in [Addr -> Byte]
        BY Sizes DEF Resumed, IInv, TypeOK
    <2>2. Hits(h) => bp_list[FindBreakpoint(h.eip)].ori_byte \in Byte
        <3> SUFFICES ASSUME Hits(h) PROVE bp_list[FindBreakpoint(h.eip)].ori_byte \in Byte
            OBVIOUS
        <3>1. FindBreakpoint(h.eip) \in NO
            BY Found DEF Hits, Listed, IInv
        <3> QED BY <3>1 DEF IInv, TypeOK
    <2> QED BY <1>3, <2>1, <2>2 DEF CodeAfter
<1>8. /\ eip' \in Addr /\ ret' \in (Addr \ {HANDLER}) \cup {NONE} /\ (eip' = HANDLER => ret' # NONE)
      /\ bp' \in Addr \cup {NONE}
      /\ nemu_state' \in {"READY", "RUN", "BREAK", "STOP"}
    <2>1. /\ d.eip \in Addr /\ d.ret \in (Addr \ {HANDLER}) \cup {NONE} /\ (d.eip = HANDLER => d.ret # NONE)
          /\ h.eip \in Addr /\ h.state \in {"READY", "RUN", "BREAK", "STOP"} /\ bp \in Addr \cup {NONE}
        BY <1>5 DEF Guest, IInv, TypeOK
    <2> QED BY <1>3, <2>1
<1>9. n' \in Nat \cup {INF}
    <2>1. n \in Nat \cup {INF} /\ n # 0
        BY <1>6 DEF IInv, TypeOK, GuestInv
    <2> QED BY <1>3, <2>1 DEF INF
<1>10. pc' \in {"ui", "exec", "exited", "assert_failed"} /\ (pc' = "exec" => n' # 0)
    <2>1. CASE nemu_state' = "RUN"
        <3>1. n' # 0
            BY <1>3, <2>1
        <3> QED BY <1>6, <2>1, <3>1
    <2>2. CASE nemu_state' # "RUN"
        BY <1>6, <2>2
    <2> QED BY <2>1, <2>2
<1>11. TypeOK'
    BY <1>6, <1>7, <1>8, <1>9, <1>10 DEF IInv, TypeOK
<1>12. ListInv' /\ GuestInv'
    BY <1>6, <1>8, <1>10 DEF IInv, ListInv, GuestInv
<1> QED BY <1>11, <1>12 DEF IInv

\* Every other step.
LEMMA NextIInv == ASSUME IInv, [Next]_vars PROVE IInv'
<1> DEFINE Elements == [NO -> [type : {"BREAKPOINT", "WATCHPOINT"}, addr : Addr, ori_byte : Byte]]
<1>1. CASE UNCHANGED vars
    BY <1>1 DEF IInv, TypeOK, ListInv, GuestInv, vars
<1>2. ASSUME NEW a \in Addr, SetBreakpoint(a) PROVE IInv'
    <2> DEFINE rec == [type |-> "BREAKPOINT", addr |-> a, ori_byte |-> code[a]]
    <2>1. code \in [Addr -> Byte] /\ code[a] \in Byte
        BY DEF IInv, TypeOK
    <2>2. rec \in [type : {"BREAKPOINT", "WATCHPOINT"}, addr : Addr, ori_byte : Byte]
        BY <2>1
    <2>3. free_ # <<>> /\ Take(rec) /\ code' = [code EXCEPT ![a] = INT3_CODE]
          /\ UNCHANGED <<nemu_state, eip, ret, pc, n, rerun, bp>>
        BY <1>2 DEF SetBreakpoint
    <2> HIDE DEF rec
    <2>4. ListInv' /\ head' \in Seq(NO) /\ free_' \in Seq(NO) /\ bp_list' \in Elements
        BY <2>2, <2>3, TakeLists
    <2>5. code' \in [Addr -> Byte]
        BY <2>1, <2>3, Sizes
    <2> QED BY <2>3, <2>4, <2>5 DEF IInv, TypeOK, GuestInv
<1>3. CASE SetWatchpoint
    <2> DEFINE rec == [type |-> "WATCHPOINT", addr |-> 0, ori_byte |-> "op"]
    <2>1. rec \in [type : {"BREAKPOINT", "WATCHPOINT"}, addr : Addr, ori_byte : Byte]
        BY Sizes
    <2>2. free_ # <<>> /\ Take(rec) /\ UNCHANGED <<code, nemu_state, eip, ret, pc, n, rerun, bp>>
        BY <1>3 DEF SetWatchpoint
    <2> HIDE DEF rec
    <2>3. ListInv' /\ head' \in Seq(NO) /\ free_' \in Seq(NO) /\ bp_list' \in Elements
        BY <2>1, <2>2, TakeLists
    <2> QED BY <2>2, <2>3 DEF IInv, TypeOK, GuestInv
<1>4. CASE PoolEmpty \/ Quit \/ Ended
    BY <1>4 DEF PoolEmpty, Quit, Ended, pool, vars, IInv, TypeOK, ListInv, GuestInv
<1>5. ASSUME NEW k \in NO, DeleteBreakpoint(k) PROVE IInv'
    <2>1. code' = Freed(k) /\ UNCHANGED <<bp_list, nemu_state, eip, ret, pc, n, rerun, bp>>
        BY <1>5 DEF DeleteBreakpoint
    <2>2. ListInv' /\ head' \in Seq(NO) /\ free_' \in Seq(NO)
        BY <1>5, DeleteLists
    <2>3. code' \in [Addr -> Byte]
        <3>1. code \in [Addr -> Byte] /\ bp_list[k].ori_byte \in Byte
            BY DEF IInv, TypeOK
        <3> QED BY <2>1, <3>1 DEF Freed
    <2> QED BY <2>1, <2>2, <2>3 DEF IInv, TypeOK, GuestInv
<1>6. CASE DeleteAll
    <2>1. /\ code' = [a \in Addr |-> IF a \in BpAddrs THEN bp_list[FindBreakpoint(a)].ori_byte
                                                    ELSE code[a]]
          /\ UNCHANGED <<bp_list, nemu_state, eip, ret, pc, n, rerun, bp>>
        BY <1>6 DEF DeleteAll
    <2>2. ListInv' /\ head' \in Seq(NO) /\ free_' \in Seq(NO)
        BY <1>6, DeleteAllLists
    <2>3. code' \in [Addr -> Byte]
        <3>1. ASSUME NEW a \in Addr, a \in BpAddrs PROVE bp_list[FindBreakpoint(a)].ori_byte \in Byte
            <4>1. FindBreakpoint(a) \in NO
                BY <3>1, Found DEF Listed, IInv
            <4> QED BY <4>1 DEF IInv, TypeOK
        <3>2. \A a \in Addr : code[a] \in Byte
            BY DEF IInv, TypeOK
        <3> QED BY <2>1, <3>1, <3>2
    <2> QED BY <2>1, <2>2, <2>3 DEF IInv, TypeOK, GuestInv
<1>7. ASSUME NEW m \in Counts \cup {INF}, Exec(m) PROVE IInv'
    <2>1. m \in Nat \cup {INF} /\ m # 0
        BY UserAssumption DEF INF
    <2>2. /\ rerun' = (nemu_state = "BREAK") /\ nemu_state' = "RUN" /\ n' = m /\ pc' = "exec"
          /\ UNCHANGED <<bp_list, head, free_, code, eip, ret, bp>>
        BY <1>7 DEF Exec, pool
    <2>3. rerun' \in BOOLEAN
        BY <2>2
    <2>4. TypeOK'
        BY <2>1, <2>2, <2>3 DEF IInv, TypeOK
    <2> QED BY <2>1, <2>2, <2>4 DEF IInv, ListInv, GuestInv
<1>8. CASE Step
    BY <1>8, StepIInv
<1> QED BY <1>1, <1>2, <1>3, <1>4, <1>5, <1>6, <1>7, <1>8 DEF Next

-----------------------------------------------------------------------------
(* The program under the breakpoints.                                      *)

\* Each breakpoint of the list holds the program's own byte, and only a breakpoint
\* of the list hides one: with the first part, taking a breakpoint off the list or
\* stopping at it shows that byte again.
CodeInv ==
    /\ \A k \in NO : Listed(k) => bp_list[k].ori_byte = Original[bp_list[k].addr]
    /\ \A a \in Addr : code[a] # Original[a] => \E k \in NO : Listed(k) /\ bp_list[k].addr = a

\* Where the list has no breakpoint, the code is the program's.
LEMMA OwnCode == ASSUME TypeOK, CodeInv, NEW a \in Addr, a \notin BpAddrs PROVE code[a] = Original[a]
BY Found DEF CodeInv

\* The byte that find_breakpoint's element holds.
LEMMA OwnByte == ASSUME TypeOK, CodeInv, NEW a \in BpAddrs
                 PROVE  a \in Addr /\ bp_list[FindBreakpoint(a)].ori_byte = Original[a]
<1>1. Listed(FindBreakpoint(a)) /\ bp_list[FindBreakpoint(a)].addr = a
    BY Found
<1>2. FindBreakpoint(a) \in NO
    BY <1>1 DEF Listed
<1>3. a \in Addr
    BY <1>1, <1>2 DEF TypeOK
<1> QED BY <1>1, <1>2, <1>3 DEF CodeInv

\* Setting a breakpoint saves the program's byte if the list has none there yet.
LEMMA SetCode == ASSUME ~SetTwice, IInv, CodeInv, NEW a \in Addr, SetBreakpoint(a) PROVE CodeInv'
<1> DEFINE rec == [type |-> "BREAKPOINT", addr |-> a, ori_byte |-> code[a]]
           f == Head(free_)
<1>1. /\ free_ # <<>> /\ Take(rec) /\ code' = [code EXCEPT ![a] = INT3_CODE] /\ a \notin BpAddrs
      /\ bp_list' = [bp_list EXCEPT ![f] = rec]
    BY DEF SetBreakpoint, Take
<1>2. code[a] = Original[a] /\ code \in [Addr -> Byte] /\ code[a] \in Byte
    BY <1>1, OwnCode DEF IInv, TypeOK
<1>3. rec \in [type : {"BREAKPOINT", "WATCHPOINT"}, addr : Addr, ori_byte : Byte]
    BY <1>2
<1>4. rec.type = "BREAKPOINT" /\ rec.addr = a /\ rec.ori_byte = code[a]
    OBVIOUS
<1> HIDE DEF rec
<1>5. /\ f \in NO /\ ~Contains(head, f)
      /\ \A k : Contains(head', k) <=> k = f \/ Contains(head, k)
    BY <1>1, <1>3, TakeLists
<1> HIDE DEF f
<1>6. bp_list'[f] = rec /\ \A k \in NO : k # f => bp_list'[k] = bp_list[k]
    BY <1>1, <1>5 DEF IInv, TypeOK
<1>7. \A k \in NO : IF k = f THEN Listed(k)' ELSE Listed(k)' <=> Listed(k)
    BY <1>4, <1>5, <1>6 DEF Listed, IsBreakpoint
<1>8. ASSUME NEW k \in NO, Listed(k)' PROVE bp_list'[k].ori_byte = Original[bp_list'[k].addr]
    <2>1. CASE k = f
        BY <1>2, <1>4, <1>6, <2>1
    <2>2. CASE k # f
        BY <1>6, <1>7, <1>8, <2>2 DEF CodeInv
    <2> QED BY <2>1, <2>2
<1>9. ASSUME NEW x \in Addr, code'[x] # Original[x]
      PROVE  \E k \in NO : Listed(k)' /\ bp_list'[k].addr = x
    <2>1. CASE x = a
        BY <1>4, <1>5, <1>6, <1>7, <2>1
    <2>2. CASE x # a
        <3>1. code'[x] = code[x]
            BY <1>1, <1>2, <2>2
        <3>2. PICK k \in NO : Listed(k) /\ bp_list[k].addr = x
            BY <1>9, <3>1 DEF CodeInv
        <3>3. k # f
            BY <1>5, <3>2 DEF Listed
        <3> QED BY <1>6, <1>7, <3>2, <3>3
    <2> QED BY <2>1, <2>2
<1> QED BY <1>8, <1>9 DEF CodeInv

\* A watchpoint takes an element that held no breakpoint of the list.
LEMMA WatchCode == ASSUME IInv, CodeInv, SetWatchpoint PROVE CodeInv'
<1> DEFINE rec == [type |-> "WATCHPOINT", addr |-> 0, ori_byte |-> "op"]
           f == Head(free_)
<1>1. free_ # <<>> /\ Take(rec) /\ code' = code /\ bp_list' = [bp_list EXCEPT ![f] = rec]
    BY DEF SetWatchpoint, Take
<1>2. rec \in [type : {"BREAKPOINT", "WATCHPOINT"}, addr : Addr, ori_byte : Byte]
    BY Sizes
<1>3. rec.type # "BREAKPOINT"
    OBVIOUS
<1> HIDE DEF rec
<1>4. /\ f \in NO /\ ~Contains(head, f)
      /\ \A k : Contains(head', k) <=> k = f \/ Contains(head, k)
    BY <1>1, <1>2, TakeLists
<1> HIDE DEF f
<1>5. bp_list'[f] = rec /\ \A k \in NO : k # f => bp_list'[k] = bp_list[k]
    BY <1>1, <1>4 DEF IInv, TypeOK
<1>6. \A k \in NO : (Listed(k)' <=> Listed(k)) /\ (Listed(k) => k # f)
    BY <1>3, <1>4, <1>5 DEF Listed, IsBreakpoint
<1> QED BY <1>1, <1>5, <1>6 DEF CodeInv

\* free_BP puts the saved byte back.
LEMMA DeleteCode == ASSUME IInv, CodeInv, NEW k \in NO, DeleteBreakpoint(k) PROVE CodeInv'
<1>1. code' = Freed(k) /\ bp_list' = bp_list
    BY DEF DeleteBreakpoint
<1>2. Contains(head, k) /\ \A y : Contains(head', y) <=> y # k /\ Contains(head, y)
    BY DeleteLists
<1>3. \A y \in NO : Listed(y)' <=> y # k /\ Listed(y)
    BY <1>1, <1>2 DEF Listed, IsBreakpoint
<1>4. ASSUME NEW x \in Addr, code'[x] # Original[x]
      PROVE  \E y \in NO : Listed(y)' /\ bp_list'[y].addr = x
    <2>1. code \in [Addr -> Byte] /\ bp_list[k].addr \in Addr
        BY DEF IInv, TypeOK
    <2>2. IsBreakpoint(k) => bp_list[k].ori_byte = Original[bp_list[k].addr]
        BY <1>2 DEF Listed, CodeInv
    <2>3. code'[x] = code[x] /\ ~(IsBreakpoint(k) /\ bp_list[k].addr = x)
        BY <1>1, <1>4, <2>1, <2>2 DEF Freed
    <2>4. PICK y \in NO : Listed(y) /\ bp_list[y].addr = x
        BY <1>4, <2>3 DEF CodeInv
    <2>5. y # k
        BY <2>3, <2>4 DEF Listed
    <2> QED BY <1>1, <1>3, <2>4, <2>5
<1> QED BY <1>1, <1>3, <1>4 DEF CodeInv

\* delete_all_breakpoint puts all of them back.
LEMMA DeleteAllCode == ASSUME IInv, CodeInv, DeleteAll PROVE CodeInv'
<1>1. /\ code' = [a \in Addr |-> IF a \in BpAddrs THEN bp_list[FindBreakpoint(a)].ori_byte
                                                ELSE code[a]]
      /\ \A y : ~Contains(head', y)
    BY DeleteAllLists DEF DeleteAll
<1>2. ASSUME NEW a \in Addr PROVE code'[a] = Original[a]
    <2>1. CASE a \in BpAddrs
        BY <1>1, <2>1, OwnByte DEF IInv
    <2>2. CASE a \notin BpAddrs
        BY <1>1, <2>2, OwnCode DEF IInv
    <2> QED BY <2>1, <2>2
<1>3. \A y \in NO : ~Listed(y)'
    BY <1>1 DEF Listed
<1> QED BY <1>2, <1>3 DEF CodeInv

\* What a pass of the loop does to the code, the breakpoint hit and the state.
LEMMA Pass ==
    ASSUME IInv, Step
    PROVE  \E h : /\ Guest(h) /\ code' = CodeAfter(h)
                  /\ bp' = IF h.state # "BREAK" THEN bp ELSE IF Hits(h) THEN h.eip ELSE NONE
                  /\ nemu_state' = IF h.state # "STOP" /\ n' = 0 THEN "READY" ELSE h.state
<1> DEFINE g0 == [eip |-> eip, ret |-> ret, state |-> nemu_state]
<1>1. PICK g \in DoIntr(g0) : \E h \in ExecInst(g) :
          /\ code' = CodeAfter(h)
          /\ bp' = IF h.state # "BREAK" THEN bp ELSE IF Hits(h) THEN h.eip ELSE NONE
          /\ nemu_state' = IF h.state # "STOP" /\ n' = 0 THEN "READY" ELSE h.state
    BY DEF Step
<1>2. Guest(g0)
    BY DEF IInv, TypeOK, GuestInv, Guest
<1> HIDE DEF g0
<1>3. Guest(g)
    BY <1>2, IntrGuest
<1> QED BY <1>1, <1>3, InstGuest

\* resume_breakpoints and the byte put back touch only the breakpoints of the list.
LEMMA StepCode == ASSUME IInv, CodeInv, Step PROVE CodeInv'
<1>1. PICK h : Guest(h) /\ code' = CodeAfter(h)
    BY Pass
<1>2. bp_list' = bp_list /\ head' = head /\ code \in [Addr -> Byte]
    BY DEF Step, pool, IInv, TypeOK
<1>3. \A k \in NO : Listed(k)' <=> Listed(k)
    BY <1>2 DEF Listed, IsBreakpoint
<1>4. ASSUME NEW a \in Addr, code'[a] # Original[a] PROVE a \in BpAddrs
    <2> SUFFICES ASSUME a \notin BpAddrs PROVE code'[a] = code[a]
        BY <1>4, OwnCode DEF IInv
    <2>1. Resumed \in [Addr -> {INT3_CODE} \cup Byte] /\ Resumed[a] = code[a]
        BY <1>2 DEF Resumed
    <2>2. Hits(h) => h.eip # a
        BY DEF Hits
    <2> QED BY <1>1, <1>2, <2>1, <2>2 DEF CodeAfter
<1>5. ASSUME NEW a \in Addr, code'[a] # Original[a]
      PROVE  \E k \in NO : Listed(k) /\ bp_list[k].addr = a
    BY <1>4, <1>5, Found DEF IInv
<1> QED BY <1>2, <1>3, <1>5 DEF CodeInv

\* Every step.
LEMMA NextCode == ASSUME ~SetTwice, IInv, CodeInv, [Next]_vars PROVE CodeInv'
<1>1. CASE UNCHANGED <<code, bp_list, head>>
    BY <1>1 DEF CodeInv, Listed, IsBreakpoint
<1>2. CASE PoolEmpty \/ Quit \/ Ended \/ UNCHANGED vars \/ \E m \in Counts \cup {INF} : Exec(m)
    BY <1>1, <1>2 DEF PoolEmpty, Quit, Ended, Exec, vars, pool
<1>3. CASE \E a \in Addr : SetBreakpoint(a)
    BY <1>3, SetCode
<1>4. CASE \E k \in NO : DeleteBreakpoint(k)
    BY <1>4, DeleteCode
<1> QED BY <1>2, <1>3, <1>4, WatchCode, DeleteAllCode, StepCode DEF Next

-----------------------------------------------------------------------------
(* Theorems.                                                               *)

\* The types, the lists and the guest's side of a handler hold throughout.
LEMMA AlwaysIInv == Spec => []IInv
<1>1. Init => IInv
    BY InitIInv
<1>2. IInv /\ [Next]_vars => IInv'
    BY NextIInv
<1> QED BY <1>1, <1>2, PTL DEF Spec

\* The two lists partition the pool of the monitor whatever the user does, a second
\* breakpoint at an address included: the asserts on in_use of new_BP and free_BP
\* hold, and only an empty pool stops new_BP.
THEOREM PoolPartitioned == Spec => []PoolSound
<1>1. IInv => PoolSound
    BY ListsArePool DEF IInv
<1> QED BY <1>1, AlwaysIInv, PTL

\* If no breakpoint is set where the list has one, every breakpoint holds the byte of
\* the program, and only a breakpoint of the list hides one.
LEMMA AlwaysCode == ASSUME ~SetTwice PROVE Spec => [](IInv /\ CodeInv)
<1>1. Init => CodeInv
    <2> SUFFICES ASSUME Init PROVE CodeInv
        OBVIOUS
    <2>1. head = <<>> /\ code = Original
        BY DEF Init
    <2>2. \A k : ~Contains(head, k)
        BY <2>1 DEF Contains
    <2> QED BY <2>1, <2>2 DEF CodeInv, Listed
<1>2. IInv /\ CodeInv /\ [Next]_vars => CodeInv'
    BY NextCode
<1> QED BY <1>1, <1>2, AlwaysIInv, PTL DEF Spec

\* Setting, hitting and deleting breakpoints in any order keep the pool's lists and
\* leave the program as it was wherever the list has no breakpoint.
THEOREM MonitorSound == ASSUME ~SetTwice PROVE Spec => []ListAndCodeSound
<1>1. IInv /\ CodeInv => ListAndCodeSound
    <2> SUFFICES ASSUME IInv, CodeInv PROVE ListAndCodeSound
        OBVIOUS
    <2>1. TypeOK /\ PoolSound
        BY ListsArePool DEF IInv
    <2>2. CodeRestored
        BY <2>1, OwnCode DEF CodeRestored
    <2> QED BY <2>1, <2>2 DEF ListAndCodeSound
<1> QED BY <1>1, AlwaysCode, PTL

\* The first instruction after a stop sets every breakpoint of the list again, but
\* for the one at which it stops itself: resume_breakpoints comes before the byte of
\* a breakpoint just hit is put back, and forgets none.
THEOREM EveryBreakpointRearmed == Spec => Rearmed
<1>1. IInv /\ [Next]_vars => [Step /\ rerun => \A a \in BpAddrs :
          code'[a] = INT3_CODE \/ (bp' = a /\ nemu_state' # "RUN")]_vars
    <2> SUFFICES ASSUME IInv, Step, rerun, NEW a \in BpAddrs
                 PROVE  code'[a] = INT3_CODE \/ (bp' = a /\ nemu_state' # "RUN")
        OBVIOUS
    <2>1. PICK h : /\ Guest(h) /\ code' = CodeAfter(h)
                   /\ bp' = IF h.state # "BREAK" THEN bp ELSE IF Hits(h) THEN h.eip ELSE NONE
                   /\ nemu_state' = IF h.state # "STOP" /\ n' = 0 THEN "READY" ELSE h.state
        BY Pass
    <2>2. a \in Addr
        BY Found DEF IInv, TypeOK
    <2>3. Resumed[a] = INT3_CODE
        BY <2>2 DEF Resumed
    <2>4. CASE Hits(h) /\ h.eip = a
        BY <2>1, <2>4 DEF Hits
    <2>5. CASE ~(Hits(h) /\ h.eip = a)
        BY <2>1, <2>2, <2>3, <2>5 DEF CodeAfter
    <2> QED BY <2>4, <2>5
<1> QED BY <1>1, AlwaysIInv, PTL DEF Spec, Rearmed

\* When the program stops at a breakpoint, its own instruction is there again, so
\* that the next command executes it.
THEOREM OriginalShown == ASSUME ~SetTwice PROVE Spec => StopsOnOriginal
<1>1. IInv /\ CodeInv /\ [Next]_vars
      => [Step /\ nemu_state' = "BREAK" /\ bp' # NONE => code'[bp'] = Original[bp']]_vars
    <2> SUFFICES ASSUME IInv, CodeInv, Step, nemu_state' = "BREAK", bp' # NONE
                 PROVE  code'[bp'] = Original[bp']
        OBVIOUS
    <2>1. PICK h : /\ Guest(h) /\ code' = CodeAfter(h)
                   /\ bp' = IF h.state # "BREAK" THEN bp ELSE IF Hits(h) THEN h.eip ELSE NONE
                   /\ nemu_state' = IF h.state # "STOP" /\ n' = 0 THEN "READY" ELSE h.state
        BY Pass
    <2>2. h.state = "BREAK" /\ Hits(h) /\ bp' = h.eip
        BY <2>1
    <2>3. /\ h.eip \in Addr /\ h.eip \in BpAddrs
          /\ bp_list[FindBreakpoint(h.eip)].ori_byte = Original[h.eip]
        BY <2>2, OwnByte DEF Hits, IInv
    <2>4. code \in [Addr -> Byte] /\ DOMAIN Resumed = Addr
        BY DEF IInv, TypeOK, Resumed
    <2> QED BY <2>1, <2>2, <2>3, <2>4 DEF CodeAfter
<1> QED BY <1>1, AlwaysCode, PTL DEF Spec, StopsOnOriginal
=============================================================================
