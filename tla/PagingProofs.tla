---------------------------- MODULE PagingProofs -----------------------------
(***************************************************************************)
(* The indices of the order and trade histories stay in lockstep with what *)
(* was inserted, for every set of users and books and every bound.  The    *)
(* inductive invariant adds where ids come from: an order id and a fill    *)
(* sequence in use are below the counters that mint them, and a match that *)
(* waits for settlement has a fill sequence of its own.                    *)
(***************************************************************************)
EXTENDS Paging, FiniteSetTheorems, TLAPS

OrderIds == Books \X Nat
TradeIds == OrderIds \X Nat
Events == [taker : OrderIds, maker : OrderIds, fill_seq : Nat]

\* The state is well formed.
TypeOK ==
    /\ placed \in Seq(Users \X OrderIds)
    /\ settled \in Seq(Users \X TradeIds)
    /\ next_order_seq \in [Books -> Nat]
    /\ next_fill_seq \in [Books -> Nat]
    /\ pending_settling_events \in Seq(Events)
    /\ \A id \in Orders : get(order_history, id) \in [owner : Users, fills : Nat]

\* A match that waits is between two orders of one book, and its fill sequence
\* is minted but not used.
Waiting(fill) ==
    /\ fill.taker \in Orders /\ fill.maker \in Orders
    /\ fill.taker # fill.maker /\ fill.maker[1] = fill.taker[1]
    /\ fill.fill_seq < next_fill_seq[fill.taker[1]]
    /\ \A id \in Trades : id[1][1] = fill.taker[1] => id[2] # fill.fill_seq

\* Two matches of one book have different fill sequences.
Apart(fill, other) ==
    other.taker[1] = fill.taker[1] => other.fill_seq # fill.fill_seq

\* Ids in use are below the counters, and no two matches share a fill sequence.
IdsMinted ==
    /\ \A id \in Orders : id[2] < next_order_seq[id[1]]
    /\ \A id \in Trades : id[2] < next_fill_seq[id[1][1]]
    /\ \A i \in DOMAIN pending_settling_events : Waiting(pending_settling_events[i])
    /\ \A i, j \in DOMAIN pending_settling_events :
         j # i => Apart(pending_settling_events[i], pending_settling_events[j])

IInv == TypeOK /\ IdsMinted /\ IndexInLockstep

\* The keys of a store in lockstep are finitely many.
LEMMA KeysFinite ==
    ASSUME NEW S, NEW h, NEW log \in Seq(S), Lockstep(h, log)
    PROVE  IsFiniteSet(DOMAIN h.primary)
  <1>1. DOMAIN log = 1 .. Len(log) /\ Len(log) \in Nat
    OBVIOUS
  <1>2. IsFiniteSet(1 .. Len(log))
    BY <1>1, FS_Interval
  <1> DEFINE keys == {log[i][2] : i \in 1 .. Len(log)}
  <1>3. IsFiniteSet(keys)
    <2> DEFINE f == [i \in 1 .. Len(log) |-> log[i][2]]
    <2>1. f \in Surjection(1 .. Len(log), keys)
      BY DEF Surjection
    <2> QED BY <1>2, <2>1, FS_Surjection
  <1>4. DOMAIN h.primary = keys
    BY <1>1 DEF Lockstep
  <1> QED BY <1>3, <1>4

\* Inserting a fresh key keeps the maps in lockstep, and no assert fails.
LEMMA InsertLockstep ==
    ASSUME NEW S, NEW h, NEW log \in Seq(S), Lockstep(h, log),
           NEW user, NEW key, NEW record, key \notin DOMAIN h.primary
    PROVE  /\ Lockstep(insert_once(h, user, key, record), Append(log, <<user, key>>))
           /\ ~ insert_panics(h, user, key)
  <1> DEFINE n == Len(log)
             g == insert_once(h, user, key, record)
             more == Append(log, <<user, key>>)
  <1>1. n \in Nat /\ DOMAIN log = 1 .. n
    OBVIOUS
  <1>2. /\ DOMAIN h.primary = {log[i][2] : i \in 1 .. n}
        /\ len(h) = n
        /\ DOMAIN h.by_user = {<<log[i][1], i - 1>> : i \in 1 .. n}
        /\ \A i \in 1 .. n : /\ h.primary[log[i][2]].seq = i - 1
                             /\ h.by_user[<<log[i][1], i - 1>>] = log[i][2]
    BY <1>1 DEF Lockstep
  <1>3. <<user, n>> \notin DOMAIN h.by_user
    BY <1>1, <1>2
  <1>4. Len(more) = n + 1 /\ DOMAIN more = 1 .. n + 1 /\ more[n + 1] = <<user, key>>
        /\ \A i \in 1 .. n : more[i] = log[i]
    BY <1>1
  <1>5. /\ g.primary = [x \in DOMAIN h.primary \cup {key} |->
                          IF x = key THEN [seq |-> n, record |-> record]
                          ELSE h.primary[x]]
        /\ g.by_user = [x \in DOMAIN h.by_user \cup {<<user, n>>} |->
                          IF x = <<user, n>> THEN key ELSE h.by_user[x]]
    BY <1>2 DEF insert_once, Map
  <1> HIDE DEF n, g, more
  <1>6. len(g) = n + 1
    <2>1. IsFiniteSet(DOMAIN h.primary)
      BY KeysFinite
    <2>2. DOMAIN g.primary = DOMAIN h.primary \cup {key}
      BY <1>5
    <2>3. Cardinality(DOMAIN h.primary \cup {key}) = Cardinality(DOMAIN h.primary) + 1
      BY <2>1, FS_AddElement
    <2> QED BY <2>2, <2>3, <1>2 DEF len
  <1>7. DOMAIN g.primary = {more[i][2] : i \in 1 .. n + 1}
    <2>1. DOMAIN g.primary = DOMAIN h.primary \cup {key}
      BY <1>5
    <2>2. \A i \in 1 .. n : i \in 1 .. n + 1 /\ more[i][2] = log[i][2]
      BY <1>1, <1>4
    <2>3. n + 1 \in 1 .. n + 1 /\ more[n + 1][2] = key
      BY <1>1, <1>4
    <2>4. \A i \in 1 .. n + 1 : i \in 1 .. n \/ i = n + 1
      BY <1>1
    <2> QED BY <2>1, <2>2, <2>3, <2>4, <1>2
  <1>8. DOMAIN g.by_user = {<<more[i][1], i - 1>> : i \in 1 .. n + 1}
    <2>1. \A i \in 1 .. n + 1 : i \in 1 .. n \/ (i = n + 1 /\ i - 1 = n)
      BY <1>1
    <2>2. 1 .. n \subseteq 1 .. n + 1 /\ n + 1 \in 1 .. n + 1 /\ n + 1 - 1 = n
      BY <1>1
    <2>3. DOMAIN g.by_user = DOMAIN h.by_user \cup {<<user, n>>}
      BY <1>5
    <2>4. \A i \in 1 .. n : <<more[i][1], i - 1>> = <<log[i][1], i - 1>>
      BY <1>4
    <2>5. <<more[n + 1][1], n + 1 - 1>> = <<user, n>>
      BY <1>4, <2>2
    <2>6. ASSUME NEW x \in DOMAIN g.by_user
          PROVE  \E i \in 1 .. n + 1 : x = <<more[i][1], i - 1>>
      <3>1. CASE x = <<user, n>>
        <4>1. PICK m \in 1 .. n + 1 : m = n + 1
          BY <2>2
        <4>2. m - 1 = n /\ more[m][1] = user
          BY <4>1, <1>1, <1>4
        <4>3. x = <<more[m][1], m - 1>>
          BY <4>2, <3>1
        <4> QED BY <4>3
      <3>2. CASE x \in DOMAIN h.by_user
        <4>1. PICK i \in 1 .. n : x = <<log[i][1], i - 1>>
          BY <3>2, <1>2
        <4>2. i \in 1 .. n + 1 /\ x = <<more[i][1], i - 1>>
          BY <4>1, <2>2, <2>4
        <4> QED BY <4>2
      <3> QED BY <3>1, <3>2, <2>3
    <2>7. ASSUME NEW i \in 1 .. n + 1
          PROVE  <<more[i][1], i - 1>> \in DOMAIN g.by_user
      BY <1>2, <2>1, <2>3, <2>4, <2>5
    <2> QED BY <2>6, <2>7
  <1>9. ASSUME NEW i \in 1 .. n + 1
        PROVE  g.primary[more[i][2]].seq = i - 1
               /\ g.by_user[<<more[i][1], i - 1>>] = more[i][2]
    <2>1. CASE i \in 1 .. n
      <3>1. more[i] = log[i] /\ log[i][2] \in DOMAIN h.primary
            /\ <<log[i][1], i - 1>> \in DOMAIN h.by_user
        BY <2>1, <1>2, <1>4
      <3>2. <<log[i][1], i - 1>> # <<user, n>> /\ log[i][2] # key
        <4>1. i - 1 # n
          BY <2>1, <1>1
        <4> QED BY <4>1, <3>1
      <3>3. g.primary[log[i][2]] = h.primary[log[i][2]]
        BY <3>1, <3>2, <1>5
      <3>4. g.by_user[<<log[i][1], i - 1>>] = h.by_user[<<log[i][1], i - 1>>]
        BY <3>1, <3>2, <1>5
      <3> QED BY <2>1, <3>1, <3>3, <3>4, <1>2
    <2>2. CASE i = n + 1
      <3>1. more[i][2] = key /\ <<more[i][1], i - 1>> = <<user, n>> /\ i - 1 = n
        BY <2>2, <1>1, <1>4
      <3> QED BY <3>1, <1>5
    <2> QED BY <2>1, <2>2, <1>1
  <1>10. Lockstep(g, more)
    BY <1>4, <1>6, <1>7, <1>8, <1>9 DEF Lockstep
  <1> QED BY <1>2, <1>3, <1>10 DEF insert_panics, g, more

\* An update in place leaves the keys, the sequences and the index alone.
LEMMA ModifyLockstep ==
    ASSUME NEW h, NEW log, Lockstep(h, log), NEW key \in DOMAIN h.primary, NEW record
    PROVE  /\ Lockstep(modify(h, key, record), log)
           /\ DOMAIN modify(h, key, record).primary = DOMAIN h.primary
           /\ get(modify(h, key, record), key) = record
           /\ \A other \in DOMAIN h.primary :
                other # key => get(modify(h, key, record), other) = get(h, other)
  <1> DEFINE g == modify(h, key, record)
  <1>1. /\ g.primary = [x \in DOMAIN h.primary \cup {key} |->
                         IF x = key THEN [seq |-> h.primary[key].seq, record |-> record]
                         ELSE h.primary[x]]
        /\ g.by_user = h.by_user
    BY DEF modify, Map
  <1>2. DOMAIN g.primary = DOMAIN h.primary
    BY <1>1
  <1>3. \A x \in DOMAIN h.primary : g.primary[x].seq = h.primary[x].seq
    BY <1>1
  <1> HIDE DEF g
  <1>4. Lockstep(g, log)
    BY <1>1, <1>2, <1>3 DEF Lockstep, len
  <1> QED BY <1>1, <1>2, <1>4 DEF get, g

\* So does an update of an order's record, which keeps its owner.
LEMMA UpdateLockstep ==
    ASSUME NEW h, NEW log, Lockstep(h, log), NEW id \in DOMAIN h.primary,
           \A x \in DOMAIN h.primary : get(h, x) \in [owner : Users, fills : Nat]
    PROVE  /\ Lockstep(apply_update(h, id), log)
           /\ DOMAIN apply_update(h, id).primary = DOMAIN h.primary
           /\ \A x \in DOMAIN h.primary :
                get(apply_update(h, id), x) \in [owner : Users, fills : Nat]
  <1>1. PICK record : record = [get(h, id) EXCEPT !.fills = @ + 1]
    OBVIOUS
  <1>2. record \in [owner : Users, fills : Nat]
    BY <1>1
  <1>3. PICK g : g = modify(h, id, record)
    OBVIOUS
  <1>4. g = apply_update(h, id)
    BY <1>1, <1>3 DEF apply_update
  <1>5. /\ Lockstep(g, log) /\ DOMAIN g.primary = DOMAIN h.primary
        /\ get(g, id) = record
        /\ \A x \in DOMAIN h.primary : x # id => get(g, x) = get(h, x)
    BY <1>3, ModifyLockstep
  <1>6. \A x \in DOMAIN h.primary : get(g, x) \in [owner : Users, fills : Nat]
    BY <1>2, <1>5
  <1> QED BY <1>4, <1>5, <1>6

\* The invariant holds initially.
LEMMA InitInv == Init => IInv
  <1> SUFFICES ASSUME Init PROVE IInv
    OBVIOUS
  <1>1. Orders = {} /\ Trades = {}
    BY DEF Init, Empty, Orders, Trades
  <1>2. len(Empty) = 0
    BY FS_EmptySet DEF Empty, len
  <1>3. TypeOK
    BY <1>1 DEF Init, TypeOK
  <1>4. IdsMinted
    BY <1>1 DEF Init, IdsMinted
  <1>5. Lockstep(Empty, <<>>)
    BY <1>2 DEF Lockstep, Empty
  <1> QED BY <1>3, <1>4, <1>5 DEF IInv, IndexInLockstep, Init

\* A placed order has a fresh id: the counter is above every id in use.
LEMMA PlaceInv ==
    ASSUME IInv, NEW u \in Users, NEW b \in Books, AddLimitOrder(u, b)
    PROVE  IInv'
  <1> DEFINE id == <<b, next_order_seq[b]>>
             r == [owner |-> u, fills |-> 0]
  <1>1. /\ next_order_seq' = [next_order_seq EXCEPT ![b] = @ + 1]
        /\ bug' = (bug \/ insert_panics(order_history, u, id))
        /\ order_history' = insert_once(order_history, u, id, r)
        /\ placed' = Append(placed, <<u, id>>)
        /\ trade_history' = trade_history /\ next_fill_seq' = next_fill_seq
        /\ pending_settling_events' = pending_settling_events /\ settled' = settled
    BY DEF AddLimitOrder
  <1>2. id \in OrderIds /\ r \in [owner : Users, fills : Nat] /\ next_order_seq[b] \in Nat
    BY DEF IInv, TypeOK, OrderIds
  <1>3. id \notin Orders
    <2>1. \A other \in Orders : other[2] < next_order_seq[other[1]]
      BY DEF IInv, IdsMinted
    <2>2. id[1] = b /\ id[2] = next_order_seq[b]
      OBVIOUS
    <2> QED BY <2>1, <2>2, <1>2
  <1>4. placed \in Seq(Users \X OrderIds) /\ Lockstep(order_history, placed) /\ ~ bug
        /\ Lockstep(trade_history, settled)
    BY DEF IInv, TypeOK, IndexInLockstep
  <1>5. Lockstep(order_history', placed') /\ ~ bug'
    BY <1>1, <1>3, <1>4, InsertLockstep DEF Orders
  <1>6. Orders' = Orders \cup {id} /\ get(order_history', id) = r
        /\ \A other \in Orders : get(order_history', other) = get(order_history, other)
    BY <1>1, <1>3 DEF Orders, insert_once, Map, get
  <1>7. Trades' = Trades
    BY <1>1 DEF Trades
  <1>8. placed' \in Seq(Users \X OrderIds)
    BY <1>1, <1>2, <1>4
  <1>9. TypeOK'
    <2>1. next_order_seq' \in [Books -> Nat]
      BY <1>1, <1>2 DEF IInv, TypeOK
    <2>2. \A x \in Orders' : get(order_history', x) \in [owner : Users, fills : Nat]
      BY <1>2, <1>6 DEF IInv, TypeOK
    <2> QED BY <2>1, <2>2, <1>1, <1>8 DEF IInv, TypeOK
  <1>10. ASSUME NEW x \in Orders' PROVE x[2] < next_order_seq'[x[1]]
    <2>1. next_order_seq'[b] = next_order_seq[b] + 1
      BY <1>1 DEF IInv, TypeOK
    <2>2. CASE x = id
      BY <2>1, <2>2, <1>2
    <2>3. CASE x \in Orders
      <3>1. x[2] < next_order_seq[x[1]] /\ x \in OrderIds
        <4>1. x \in {placed[i][2] : i \in DOMAIN placed}
          BY <2>3, <1>4 DEF Lockstep, Orders
        <4> QED BY <4>1, <2>3, <1>4 DEF IInv, IdsMinted
      <3>2. CASE x[1] = b
        <4>1. x[2] \in Nat
          BY <3>1 DEF OrderIds
        <4> QED BY <3>1, <3>2, <4>1, <2>1, <1>2
      <3>3. CASE x[1] # b
        <4>1. next_order_seq'[x[1]] = next_order_seq[x[1]]
          BY <3>1, <3>3, <1>1 DEF IInv, TypeOK, OrderIds
        <4> QED BY <4>1, <3>1
      <3> QED BY <3>2, <3>3
    <2> QED BY <2>2, <2>3, <1>6
  <1>11. \A e : Waiting(e) => Waiting(e)'
    BY <1>1, <1>6, <1>7 DEF Waiting
  <1>12. IdsMinted'
    <2>1. \A i \in DOMAIN pending_settling_events' : Waiting(pending_settling_events[i])'
      BY <1>1, <1>11 DEF IInv, IdsMinted
    <2>2. \A i, j \in DOMAIN pending_settling_events' :
            j # i => Apart(pending_settling_events[i], pending_settling_events[j])'
      BY <1>1 DEF IInv, IdsMinted, Apart
    <2>3. \A x \in Trades' : x[2] < next_fill_seq'[x[1][1]]
      BY <1>1, <1>7 DEF IInv, IdsMinted
    <2> QED BY <1>10, <2>1, <2>2, <2>3 DEF IdsMinted
  <1> QED BY <1>1, <1>4, <1>5, <1>9, <1>12 DEF IInv, IndexInLockstep

\* A match mints a fill sequence above all those in use in its book.
LEMMA MatchInv ==
    ASSUME IInv, NEW taker \in Orders, NEW maker \in Orders, Match(taker, maker)
    PROVE  IInv'
  <1> DEFINE b == taker[1]
             fill == [taker |-> taker, maker |-> maker, fill_seq |-> next_fill_seq[b]]
             P == pending_settling_events
  <1>1. /\ taker # maker /\ maker[1] = b
        /\ next_fill_seq' = [next_fill_seq EXCEPT ![b] = @ + 1]
        /\ P' = Append(P, fill)
        /\ order_history' = apply_update(apply_update(order_history, taker), maker)
        /\ trade_history' = trade_history
        /\ next_order_seq' = next_order_seq /\ bug' = bug
        /\ placed' = placed /\ settled' = settled
    BY DEF Match
  <1>2. placed \in Seq(Users \X OrderIds) /\ Lockstep(order_history, placed)
        /\ settled \in Seq(Users \X TradeIds) /\ Lockstep(trade_history, settled)
        /\ P \in Seq(Events) /\ next_fill_seq \in [Books -> Nat]
    BY DEF IInv, TypeOK, IndexInLockstep
  <1>3. Orders \subseteq OrderIds
    BY <1>2 DEF Lockstep, Orders
  <1>4. Trades \subseteq TradeIds
    BY <1>2 DEF Lockstep, Trades
  <1>5. b \in Books /\ next_fill_seq[b] \in Nat /\ fill \in Events
    BY <1>2, <1>3 DEF OrderIds, Events
  <1>6. P' \in Seq(Events) /\ next_fill_seq' \in [Books -> Nat]
    BY <1>1, <1>2, <1>5
  <1>70. /\ Lockstep(order_history', placed) /\ Orders' = Orders
         /\ \A id \in Orders :
              get(order_history', id) \in [owner : Users, fills : Nat]
    <2>1. PICK D : D = Orders
      OBVIOUS
    <2>2. /\ D = DOMAIN order_history.primary /\ taker \in D /\ maker \in D
          /\ \A id \in D : get(order_history, id) \in [owner : Users, fills : Nat]
      BY <2>1 DEF Orders, IInv, TypeOK
    <2>3. PICK g : g = apply_update(order_history, taker)
      OBVIOUS
    <2>4. /\ Lockstep(g, placed) /\ DOMAIN g.primary = D
          /\ \A id \in D : get(g, id) \in [owner : Users, fills : Nat]
      BY <1>2, <2>2, <2>3, UpdateLockstep
    <2>5. order_history' = apply_update(g, maker)
      BY <1>1, <2>3
    <2>6. /\ Lockstep(order_history', placed) /\ DOMAIN order_history'.primary = D
          /\ \A id \in D : get(order_history', id) \in [owner : Users, fills : Nat]
      BY <2>2, <2>4, <2>5, UpdateLockstep
    <2> QED BY <2>1, <2>6 DEF Orders
  <1>7. Orders' = Orders /\ Trades' = Trades
    BY <1>1, <1>70 DEF Trades
  <1>8. TypeOK'
    BY <1>1, <1>6, <1>7, <1>70 DEF IInv, TypeOK
  <1>9. \A x \in Books : next_fill_seq'[x] \in Nat /\ next_fill_seq'[x] >= next_fill_seq[x]
                          /\ (x = b => next_fill_seq'[x] = next_fill_seq[x] + 1)
    BY <1>1, <1>2
  <1>10. \A id \in Trades : id[2] \in Nat /\ id[1][1] \in Books
                             /\ id[2] < next_fill_seq[id[1][1]]
    BY <1>4 DEF TradeIds, OrderIds, IInv, IdsMinted
  <1>11. \A id \in Trades : id[2] < next_fill_seq'[id[1][1]]
                             /\ (id[1][1] = b => id[2] # next_fill_seq[b])
    BY <1>2, <1>9, <1>10
  <1>12. DOMAIN P' = 1 .. Len(P) + 1 /\ DOMAIN P = 1 .. Len(P) /\ Len(P) \in Nat
         /\ P'[Len(P) + 1] = fill /\ \A i \in DOMAIN P : P'[i] = P[i]
    BY <1>1, <1>2
  <1>13. \A i \in DOMAIN P : P[i].taker[1] \in Books /\ P[i].fill_seq \in Nat
    <2>1. \A e \in Events : e.taker[1] \in Books /\ e.fill_seq \in Nat
      BY DEF Events, OrderIds
    <2>2. \A i \in DOMAIN P : P[i] \in Events
      BY <1>2
    <2> QED BY <2>1, <2>2
  <1>14. \A i \in DOMAIN P : Waiting(P[i])
    BY DEF IInv, IdsMinted
  <1> HIDE DEF P, fill
  <1>15. ASSUME NEW i \in DOMAIN P, NEW e, e = P[i]
         PROVE  Waiting(e)' /\ Apart(e, fill) /\ Apart(fill, e)
    <2>1. Waiting(e) /\ e.taker[1] \in Books /\ e.fill_seq \in Nat
      BY <1>13, <1>14, <1>15
    <2>2. e.fill_seq < next_fill_seq'[e.taker[1]]
          /\ (e.taker[1] = b => e.fill_seq # next_fill_seq[b])
      BY <2>1, <1>2, <1>9 DEF Waiting
    <2>3. Waiting(e)'
      BY <2>1, <2>2, <1>7 DEF Waiting
    <2>4. Apart(e, fill) /\ Apart(fill, e)
      BY <2>2 DEF Apart, fill
    <2> QED BY <2>3, <2>4
  <1>16. ASSUME NEW e, e = fill PROVE Waiting(e)'
    <2>1. e.taker = taker /\ e.maker = maker /\ e.fill_seq = next_fill_seq[b]
      BY <1>16 DEF fill
    <2>2. next_fill_seq[b] < next_fill_seq'[b]
      BY <1>5, <1>9
    <2>3. e.fill_seq < next_fill_seq'[e.taker[1]]
      BY <2>1, <2>2
    <2>4. \A id \in Trades' : id[1][1] = e.taker[1] => id[2] # e.fill_seq
      BY <2>1, <1>7, <1>11
    <2> QED BY <2>1, <2>3, <2>4, <1>1, <1>7 DEF Waiting
  <1>17. \A i, j \in DOMAIN P : j # i => Apart(P[i], P[j])
    BY DEF IInv, IdsMinted, P
  <1>18. IdsMinted'
    <2>1. \A id \in Orders' : id[2] < next_order_seq'[id[1]]
      BY <1>1, <1>7 DEF IInv, IdsMinted
    <2>2. \A id \in Trades' : id[2] < next_fill_seq'[id[1][1]]
      BY <1>7, <1>11
    <2>3. \A i \in DOMAIN P' : i \in DOMAIN P \/ (i = Len(P) + 1 /\ P'[i] = fill)
      BY <1>12
    <2>4. \A i \in DOMAIN P' : Waiting(P[i])'
      BY <1>12, <1>15, <1>16, <2>3
    <2>5. ASSUME NEW i \in DOMAIN P', NEW j \in DOMAIN P', j # i
          PROVE  Apart(P'[i], P'[j])
      <3>1. CASE i \in DOMAIN P /\ j \in DOMAIN P
        BY <3>1, <2>5, <1>12, <1>17
      <3>2. CASE i \in DOMAIN P /\ j \notin DOMAIN P
        BY <3>2, <2>3, <1>12, <1>15
      <3>3. CASE i \notin DOMAIN P /\ j \in DOMAIN P
        BY <3>3, <2>3, <1>12, <1>15
      <3> QED BY <3>1, <3>2, <3>3, <2>3, <2>5
    <2>6. \A i, j \in DOMAIN P' : j # i => Apart(P[i], P[j])'
      BY <2>5 DEF Apart
    <2> QED BY <2>1, <2>2, <2>4, <2>6 DEF IdsMinted, P
  <1>19. IndexInLockstep'
    BY <1>1, <1>2, <1>70 DEF IInv, IndexInLockstep
  <1> QED BY <1>8, <1>18, <1>19 DEF IInv

\* Settling inserts two fresh trades: the fill sequence was the match's own, and
\* the legs differ by their orders.
LEMMA SettleInv == ASSUME IInv, Settle PROVE IInv'
  <1> DEFINE P == pending_settling_events
             fill == Head(P)
             tl == <<fill.taker, fill.fill_seq>>
             ml == <<fill.maker, fill.fill_seq>>
             to == Owner(fill.taker)
             mo == Owner(fill.maker)
             h1 == insert_once(trade_history, to, tl, None)
  <1>1. /\ P # <<>> /\ P' = Tail(P)
        /\ trade_history' = insert_once(h1, mo, ml, None)
        /\ bug' = (bug \/ fill.taker \notin Orders \/ fill.maker \notin Orders
                       \/ {tl, ml} \cap Trades # {} \/ tl = ml)
        /\ order_history' = order_history
        /\ settled' = Append(Append(settled, <<to, tl>>), <<mo, ml>>)
        /\ next_order_seq' = next_order_seq /\ next_fill_seq' = next_fill_seq
        /\ placed' = placed
    BY DEF Settle, SettleFill, append
  <1>2. placed \in Seq(Users \X OrderIds) /\ Lockstep(order_history, placed)
        /\ settled \in Seq(Users \X TradeIds) /\ Lockstep(trade_history, settled)
        /\ P \in Seq(Events) /\ next_fill_seq \in [Books -> Nat] /\ ~ bug
    BY DEF IInv, TypeOK, IndexInLockstep
  <1>3. 1 \in DOMAIN P /\ fill = P[1] /\ fill \in Events
    <2>1. P \in Seq(Events) /\ P # <<>>
      BY <1>1, <1>2
    <2> HIDE DEF P
    <2> QED BY <2>1
  <1>4. fill.taker \in Orders /\ fill.maker \in Orders /\ fill.taker # fill.maker
        /\ fill.maker[1] = fill.taker[1]
        /\ fill.fill_seq < next_fill_seq[fill.taker[1]]
        /\ \A id \in Trades : id[1][1] = fill.taker[1] => id[2] # fill.fill_seq
    BY <1>3 DEF IInv, IdsMinted, Waiting
  <1>5. tl \in TradeIds /\ ml \in TradeIds /\ to \in Users /\ mo \in Users
    <2>1. \A e \in Events : e.taker \in OrderIds /\ e.maker \in OrderIds /\ e.fill_seq \in Nat
      BY DEF Events
    <2>2. fill.taker \in OrderIds /\ fill.maker \in OrderIds /\ fill.fill_seq \in Nat
      BY <1>3, <2>1
    <2>3. tl \in TradeIds /\ ml \in TradeIds
      BY <2>2 DEF TradeIds
    <2>4. \A id \in Orders : Owner(id) \in Users
      BY DEF IInv, TypeOK, Owner
    <2> QED BY <2>3, <2>4, <1>4
  <1>6. tl # ml /\ tl \notin Trades /\ ml \notin Trades
    <2>1. tl[1] = fill.taker /\ ml[1] = fill.maker
          /\ tl[2] = fill.fill_seq /\ ml[2] = fill.fill_seq
      OBVIOUS
    <2> QED BY <2>1, <1>4
  <1>7. ~ bug'
    BY <1>1, <1>2, <1>4, <1>6
  <1>8. /\ DOMAIN h1.primary = Trades \cup {tl}
        /\ Trades' = Trades \cup {tl, ml}
    BY <1>1 DEF insert_once, Map, Trades
  <1> HIDE DEF P, fill, tl, ml, to, mo, h1
  <1>9. Lockstep(trade_history', settled') /\ settled' \in Seq(Users \X TradeIds)
    <2> DEFINE one == Append(settled, <<to, tl>>)
    <2>1. Lockstep(h1, one)
      BY <1>2, <1>6, InsertLockstep DEF h1, Trades
    <2>2. one \in Seq(Users \X TradeIds)
      BY <1>2, <1>5
    <2>3. ml \notin DOMAIN h1.primary
      BY <1>6, <1>8
    <2>4. settled' = Append(one, <<mo, ml>>)
      BY <1>1, <1>2, <1>5
    <2>5. settled' \in Seq(Users \X TradeIds)
      BY <2>2, <2>4, <1>5
    <2> HIDE DEF one
    <2> QED BY <1>1, <2>1, <2>2, <2>3, <2>4, <2>5, InsertLockstep
  <1>10. Lockstep(order_history', placed') /\ Orders' = Orders
         /\ \A id \in Orders : get(order_history', id) \in [owner : Users, fills : Nat]
    BY <1>1, <1>2 DEF Orders, IInv, TypeOK
  <1>11. P' \in Seq(Events) /\ Len(P) \in Nat /\ DOMAIN P = 1 .. Len(P)
         /\ DOMAIN P' = 1 .. Len(P) - 1 /\ \A i \in DOMAIN P' : P'[i] = P[i + 1]
    BY <1>1, <1>2
  <1>12. TypeOK'
    BY <1>1, <1>9, <1>10, <1>11 DEF IInv, TypeOK, P
  <1>13. \A i \in DOMAIN P' : i + 1 \in DOMAIN P /\ i + 1 # 1 /\ P'[i] = P[i + 1]
    BY <1>11
  <1>14. \A i \in DOMAIN P', j \in DOMAIN P' : j # i => j + 1 # i + 1
    BY <1>11
  <1>15. \A id \in Trades' : id[2] < next_fill_seq'[id[1][1]]
    <2>1. tl[2] < next_fill_seq[tl[1][1]] /\ ml[2] < next_fill_seq[ml[1][1]]
      BY <1>4 DEF tl, ml
    <2> QED BY <2>1, <1>1, <1>8 DEF IInv, IdsMinted
  <1>16. ASSUME NEW k \in DOMAIN P, k # 1
         PROVE  \A e : e = P[k] => Waiting(e)'
    <2> SUFFICES ASSUME NEW e, e = P[k] PROVE Waiting(e)'
      OBVIOUS
    <2>1. Waiting(e) /\ Apart(fill, e)
      BY <1>3, <1>16 DEF IInv, IdsMinted, P
    <2>2. \A id \in {tl, ml} : id[1][1] = fill.taker[1] /\ id[2] = fill.fill_seq
      BY <1>4 DEF tl, ml
    <2>3. \A id \in Trades' : id[1][1] = e.taker[1] => id[2] # e.fill_seq
      BY <2>1, <2>2, <1>8 DEF Waiting, Apart
    <2> QED BY <2>1, <2>3, <1>1, <1>10 DEF Waiting
  <1>17. \A i, j \in DOMAIN P' : j # i => Apart(P'[i], P'[j])
    <2>1. \A i, j \in DOMAIN P : j # i => Apart(P[i], P[j])
      BY DEF IInv, IdsMinted, P
    <2> QED BY <2>1, <1>13, <1>14
  <1>18. IdsMinted'
    <2>1. \A id \in Orders' : id[2] < next_order_seq'[id[1]]
      BY <1>1, <1>10 DEF IInv, IdsMinted
    <2>2. \A i \in DOMAIN P' : Waiting(P[i])'
      BY <1>13, <1>16
    <2>3. \A i, j \in DOMAIN P' : j # i => Apart(P[i], P[j])'
      BY <1>17 DEF Apart
    <2> QED BY <1>15, <2>1, <2>2, <2>3 DEF IdsMinted, P
  <1> QED BY <1>7, <1>9, <1>10, <1>12, <1>18 DEF IInv, IndexInLockstep

\* A step that leaves the stores alone, as every query does, keeps the invariant.
LEMMA QuietInv ==
    ASSUME IInv,
           UNCHANGED <<order_history, trade_history, next_order_seq, next_fill_seq,
                       pending_settling_events, bug, placed, settled>>
    PROVE  IInv'
  <1>1. Orders' = Orders /\ Trades' = Trades
    BY DEF Orders, Trades
  <1>2. TypeOK'
    BY <1>1 DEF IInv, TypeOK
  <1>3. IdsMinted'
    BY <1>1 DEF IInv, IdsMinted, Waiting, Apart
  <1>4. IndexInLockstep'
    BY DEF IInv, IndexInLockstep
  <1> QED BY <1>2, <1>3, <1>4 DEF IInv

\* The two histories stay in lockstep with what was inserted, and no assert of
\* insert_once fails, whatever the users, the books and the bounds are.
THEOREM HistoriesInLockstep == Spec => []IndexInLockstep
  <1>1. IInv /\ [Next]_vars => IInv'
    <2> SUFFICES ASSUME IInv, [Next]_vars PROVE IInv'
      OBVIOUS
    <2>1. CASE \E u \in Users : Register(u)
      BY <2>1, QuietInv DEF Register
    <2>2. CASE \E u \in Users, b \in Books : AddLimitOrder(u, b)
      BY <2>2, PlaceInv
    <2>3. CASE \E taker \in Orders, maker \in Orders : Match(taker, maker)
      BY <2>3, MatchInv
    <2>4. CASE Settle
      BY <2>4, SettleInv
    <2>5. CASE UNCHANGED store
      BY <2>5, QuietInv DEF store
    <2>6. CASE UNCHANGED vars
      BY <2>6, <2>5 DEF vars
    <2> QED
      BY <2>1, <2>2, <2>3, <2>4, <2>5, <2>6 DEF Next, StartWalk, NextPage, EndWalk
  <1>2. IInv => IndexInLockstep
    BY DEF IInv
  <1> QED BY <1>1, <1>2, InitInv, PTL DEF Spec
=============================================================================
