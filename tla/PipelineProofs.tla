--------------------------- MODULE PipelineProofs ---------------------------
(***************************************************************************)
(* Proofs about Pipeline, for every number of engines, accounts, shards    *)
(* and lanes, every capacity, and whatever the clients send.  Commands,    *)
(* events and orders are not typed: a queue is a sequence over some set,   *)
(* and an invariant speaks of the elements it holds.                       *)
(***************************************************************************)
EXTENDS Pipeline, WellFoundedInduction, TLAPS

(***************************************************************************)
(* Sequences and their elements.                                           *)
(***************************************************************************)
IsSeq(f) == \E S : f \in Seq(S)

\* The head of a sequence is one of its items, its tail has no other.
LEMMA HeadTail ==
  ASSUME NEW f, IsSeq(f), f # <<>>
  PROVE  IsSeq(Tail(f)) /\ Head(f) \in Range(f) /\ Range(Tail(f)) \subseteq Range(f)
  <1>1. PICK S : f \in Seq(S)
    BY DEF IsSeq
  <1>2. /\ Tail(f) \in Seq(S) /\ Head(f) = f[1] /\ Len(f) \in Nat /\ 1 \in 1 .. Len(f)
        /\ Len(Tail(f)) = Len(f) - 1
        /\ \A i \in 1 .. Len(f) - 1 : Tail(f)[i] = f[i + 1]
    BY <1>1
  <1>3. DOMAIN f = 1 .. Len(f) /\ DOMAIN Tail(f) = 1 .. Len(f) - 1
    BY <1>1, <1>2
  <1>4. ASSUME NEW i \in DOMAIN Tail(f) PROVE Tail(f)[i] \in Range(f)
    <2>1. i + 1 \in DOMAIN f /\ Tail(f)[i] = f[i + 1]
      BY <1>2, <1>3
    <2> QED BY <2>1 DEF Range
  <1> QED BY <1>2, <1>3, <1>4 DEF IsSeq, Range

\* Appending adds one item.
LEMMA Appended ==
  ASSUME NEW f, IsSeq(f), NEW e
  PROVE  IsSeq(Append(f, e)) /\ Range(Append(f, e)) = Range(f) \cup {e}
  <1>1. PICK S : f \in Seq(S)
    BY DEF IsSeq
  <1>2. f \in Seq(S \cup {e})
    BY <1>1
  <1> DEFINE t == Append(f, e)
  <1>3. /\ Len(f) \in Nat /\ DOMAIN f = 1 .. Len(f) /\ t \in Seq(S \cup {e})
        /\ DOMAIN t = 1 .. Len(f) + 1 /\ t[Len(f) + 1] = e
        /\ \A p \in 1 .. Len(f) : t[p] = f[p]
    BY <1>2
  <1> HIDE DEF t
  <1>4. 1 .. Len(f) + 1 = (1 .. Len(f)) \cup {Len(f) + 1}
    BY <1>3
  <1>5. {t[p] : p \in DOMAIN t} = {f[p] : p \in DOMAIN f} \cup {e}
    BY <1>3, <1>4
  <1>6. IsSeq(t) /\ Range(t) = Range(f) \cup {e}
    BY <1>3, <1>5 DEF IsSeq, Range
  <1> QED BY <1>6 DEF t

\* Concatenation adds no item of its own.
LEMMA Concatenated ==
  ASSUME NEW f, IsSeq(f), NEW g, IsSeq(g)
  PROVE  IsSeq(f \o g) /\ Range(f \o g) \subseteq Range(f) \cup Range(g)
  <1>1. PICK S, T : f \in Seq(S) /\ g \in Seq(T)
    BY DEF IsSeq
  <1>2. f \in Seq(S \cup T) /\ g \in Seq(S \cup T)
    BY <1>1
  <1> DEFINE u == f \o g
  <1>3. u \in Seq(S \cup T) /\ Len(u) = Len(f) + Len(g)
    BY <1>2
  <1>4. /\ \A i \in 1 .. Len(f) : u[i] = f[i]
        /\ \A j \in 1 .. Len(g) : u[Len(f) + j] = g[j]
    BY <1>2
  <1>5. /\ Len(f) \in Nat /\ Len(g) \in Nat /\ DOMAIN f = 1 .. Len(f)
        /\ DOMAIN g = 1 .. Len(g) /\ DOMAIN u = 1 .. Len(u)
    BY <1>2, <1>3
  <1> HIDE DEF u
  <1>6. ASSUME NEW i \in DOMAIN u PROVE u[i] \in Range(f) \cup Range(g)
    <2>1. CASE i <= Len(f)
      BY <1>3, <1>4, <1>5, <2>1 DEF Range
    <2>2. CASE ~(i <= Len(f))
      <3>1. PICK j \in 1 .. Len(g) : i = Len(f) + j
        <4>1. i - Len(f) \in 1 .. Len(g) /\ i = Len(f) + (i - Len(f))
          BY <1>3, <1>5, <2>2
        <4> QED BY <4>1
      <3> QED BY <1>4, <1>5, <3>1 DEF Range
    <2> QED BY <2>1, <2>2
  <1>7. IsSeq(u) /\ Range(u) \subseteq Range(f) \cup Range(g)
    BY <1>3, <1>6 DEF IsSeq, Range
  <1> QED BY <1>7 DEF u

\* The empty sequence has no item.
LEMMA Nothing == IsSeq(<<>>) /\ Range(<<>>) = {}
  <1>1. <<>> \in Seq({})
    OBVIOUS
  <1> QED BY <1>1 DEF IsSeq, Range

\* A sequence of one item has that item.
LEMMA Single ==
  ASSUME NEW e
  PROVE  IsSeq(<<e>>) /\ Range(<<e>>) = {e}
  <1>1. <<e>> \in Seq({e}) /\ DOMAIN <<e>> = {1} /\ <<e>>[1] = e
    OBVIOUS
  <1> QED BY <1>1, Zenon DEF IsSeq, Range

(***************************************************************************)
(* The book of an engine.                                                  *)
(***************************************************************************)

\* Induction up to a bound, for a set instead of a predicate.
LEMMA UpTo ==
  ASSUME NEW N \in Nat, NEW S, 0 \in S, \A n \in 0 .. N - 1 : n \in S => n + 1 \in S
  PROVE  N \in S
  <1> DEFINE R == OpToRel(<, Nat)
             T == {n \in 0 .. N : n \notin S}
  <1>1. IsWellFoundedOn(R, Nat)
    BY NatLessThanWellFounded, Zenon
  <1>2. ASSUME NEW x \in Nat, NEW y \in Nat, ~(<<y, x>> \in R)
        PROVE  x <= y
    BY <1>2 DEF OpToRel
  <1>3. T \subseteq Nat
    OBVIOUS
  <1> HIDE DEF R
  <1>4. SUFFICES ASSUME T # {} PROVE FALSE
    OBVIOUS
  <1>5. PICK k \in T : \A j \in T : ~(<<j, k>> \in R)
    BY <1>1, <1>3, <1>4, WFMin, Zenon
  <1>6. k \in Nat /\ k \in 0 .. N /\ k \notin S /\ k # 0
    OBVIOUS
  <1>7. k - 1 \in 0 .. N - 1 /\ k - 1 \in Nat /\ (k - 1) + 1 = k
    BY <1>6
  <1>8. k - 1 \in T
    BY <1>6, <1>7
  <1>9. k <= k - 1
    BY <1>2, <1>5, <1>6, <1>7, <1>8, Zenon
  <1> QED BY <1>6, <1>9

\* OrdersAt returns the orders at the positions given, and no others.
LEMMA OrdersAtPositions ==
  ASSUME NEW f, IsSeq(f), NEW I
  PROVE  /\ IsSeq(OrdersAt(f, I))
         /\ Range(OrdersAt(f, I)) \subseteq {f[i] : i \in I \cap DOMAIN f}
  <1> DEFINE N == Len(f)
             Def(v, n) == IF n \in I THEN Append(v, f[n]) ELSE v
             kept == CHOOSE g : g = [n \in 0 .. N |-> IF n = 0 THEN <<>> ELSE Def(g[n - 1], n)]
             P == {f[i] : i \in I \cap DOMAIN f}
  <1>1. N \in Nat /\ DOMAIN f = 1 .. N
    BY DEF IsSeq
  <1>2. OrdersAt(f, I) = kept[N]
    BY DEF OrdersAt
  <1>3. FiniteNatInductiveDefHypothesis(kept, <<>>, Def, 0, N)
    BY DEF FiniteNatInductiveDefHypothesis
  <1>4. ASSUME NEW v, IsSeq(v), Range(v) \subseteq P, NEW n \in 1 .. N
        PROVE  IsSeq(Def(v, n)) /\ Range(Def(v, n)) \subseteq P
    <2>1. CASE n \in I
      <3>1. f[n] \in P
        BY <1>1, <2>1
      <3> QED BY <1>4, <2>1, <3>1, Appended
    <2>2. CASE n \notin I
      BY <1>4, <2>2
    <2> QED BY <2>1, <2>2
  <1> HIDE DEF Def, kept, N, P
  <1>5. FiniteNatInductiveDefConclusion(kept, <<>>, Def, 0, N)
    BY <1>1, <1>3, FiniteNatInductiveDef
  <1>6. kept = [n \in 0 .. N |-> IF n = 0 THEN <<>> ELSE Def(kept[n - 1], n)]
    BY <1>5, Zenon DEF FiniteNatInductiveDefConclusion
  <1> DEFINE S == {n \in 0 .. N : IsSeq(kept[n]) /\ Range(kept[n]) \subseteq P}
  <1>7. 0 \in S
    <2>1. 0 \in 0 .. N /\ kept[0] = <<>>
      BY <1>1, <1>6
    <2> QED BY <2>1, Nothing
  <1>8. ASSUME NEW n \in 0 .. N - 1, n \in S PROVE n + 1 \in S
    <2>1. n + 1 \in 1 .. N /\ n + 1 \in 0 .. N /\ (n + 1) - 1 = n /\ n + 1 # 0
      BY <1>1
    <2>2. kept[n + 1] = Def(kept[n], n + 1)
      BY <1>6, <2>1, Zenon
    <2>3. IsSeq(kept[n]) /\ Range(kept[n]) \subseteq P
      BY <1>8
    <2>4. IsSeq(Def(kept[n], n + 1)) /\ Range(Def(kept[n], n + 1)) \subseteq P
      BY <1>4, <2>1, <2>3
    <2> QED BY <2>1, <2>2, <2>4
  <1>9. N \in S
    <2> HIDE DEF S
    <2> QED BY <1>1, <1>7, <1>8, UpTo
  <1> QED BY <1>2, <1>9 DEF P

\* The orders of a book and the accounts they belong to.
IsBook(f, accounts) ==
  IsSeq(f) /\ \A o \in Range(f) : "account" \in DOMAIN o /\ o.account \in accounts

\* A state of the matching loop over a book.
IsMatchState(st, accounts) ==
  /\ DOMAIN st = {"left", "kept", "events"}
  /\ IsBook(st.kept, accounts) /\ IsSeq(st.events)

\* Nothing but orders of the accounts that were in the book is kept.
LEMMA MatchOneKeeps ==
  ASSUME NEW sc, NEW st, NEW accounts, IsMatchState(st, accounts),
         NEW m, m.account \in accounts, "account" \in DOMAIN m
  PROVE  IsMatchState(MatchOne(sc, st, m), accounts)
  <1> DEFINE qty == Min({st.left, m.qty})
             less == [m EXCEPT !.qty = @ - qty]
             trade == [type |-> "Trade", seq |-> sc.seq, symbol |-> sc.cmd.symbol,
                       maker_order |-> m.id, maker_acct |-> m.account,
                       taker_acct |-> sc.cmd.account, maker_side |-> m.side,
                       price |-> m.price, qty |-> qty]
             first == st.left = 0 \/ m.side = sc.cmd.side
             own == st.left > 0 /\ m.side # sc.cmd.side /\ m.account = sc.cmd.account
  <1>1. less.account = m.account /\ "account" \in DOMAIN less
    OBVIOUS
  <1> HIDE DEF qty
  <1>2. CASE first
    <2>1. MatchOne(sc, st, m) = [st EXCEPT !.kept = Append(@, m)]
      BY <1>2 DEF MatchOne
    <2> QED BY <2>1, Appended DEF IsMatchState, IsBook
  <1>3. CASE own /\ ~first
    <2>1. MatchOne(sc, st, m) = [st EXCEPT !.events = Append(@, Cancelled(sc, m.id))]
      BY <1>3 DEF MatchOne
    <2> QED BY <2>1, Appended DEF IsMatchState, IsBook
  <1>4. CASE ~own /\ ~first
    <2>1. MatchOne(sc, st, m)
            = [left   |-> st.left - qty,
               kept   |-> IF qty = m.qty THEN st.kept ELSE Append(st.kept, less),
               events |-> Append(st.events, trade)]
      BY <1>4 DEF MatchOne, qty
    <2> HIDE DEF trade, less
    <2>2. IsSeq(Append(st.events, trade)) /\ IsSeq(Append(st.kept, less))
          /\ Range(Append(st.kept, less)) = Range(st.kept) \cup {less}
      BY Appended DEF IsMatchState, IsBook
    <2> QED BY <1>1, <2>1, <2>2 DEF IsMatchState, IsBook
  <1> QED BY <1>2, <1>3, <1>4

\* Matching leaves orders of the accounts that already had some.
LEMMA MatchAllKeeps ==
  ASSUME NEW sc, NEW f, NEW accounts, IsBook(f, accounts)
  PROVE  IsMatchState(MatchAll(sc, f), accounts)
  <1> DEFINE N == Len(f)
             Def(v, n) == MatchOne(sc, v, f[n])
             start == [left |-> sc.cmd.qty, kept |-> <<>>, events |-> <<>>]
             state == CHOOSE g : g = [n \in 0 .. N |-> IF n = 0 THEN start ELSE Def(g[n - 1], n)]
  <1>1. N \in Nat /\ DOMAIN f = 1 .. N
    BY DEF IsBook, IsSeq
  <1>2. MatchAll(sc, f) = state[N]
    BY DEF MatchAll
  <1>3. FiniteNatInductiveDefHypothesis(state, start, Def, 0, N)
    BY DEF FiniteNatInductiveDefHypothesis
  <1>4. ASSUME NEW v, IsMatchState(v, accounts), NEW n \in 1 .. N
        PROVE  IsMatchState(Def(v, n), accounts)
    <2>1. f[n].account \in accounts /\ "account" \in DOMAIN f[n]
      BY <1>1 DEF Range, IsBook
    <2> QED BY <1>4, <2>1, MatchOneKeeps
  <1>5. IsMatchState(start, accounts)
    BY Nothing DEF IsMatchState, IsBook
  <1> HIDE DEF Def, state, N, start
  <1>6. FiniteNatInductiveDefConclusion(state, start, Def, 0, N)
    BY <1>1, <1>3, FiniteNatInductiveDef
  <1>7. state = [n \in 0 .. N |-> IF n = 0 THEN start ELSE Def(state[n - 1], n)]
    BY <1>6, Zenon DEF FiniteNatInductiveDefConclusion
  <1> DEFINE S == {n \in 0 .. N : IsMatchState(state[n], accounts)}
  <1>8. 0 \in S
    <2>1. 0 \in 0 .. N /\ state[0] = start
      BY <1>1, <1>7
    <2> QED BY <1>5, <2>1
  <1>9. ASSUME NEW n \in 0 .. N - 1, n \in S PROVE n + 1 \in S
    <2>1. n + 1 \in 1 .. N /\ n + 1 \in 0 .. N /\ (n + 1) - 1 = n /\ n + 1 # 0
      BY <1>1
    <2>2. state[n + 1] = Def(state[n], n + 1)
      BY <1>7, <2>1, Zenon
    <2>3. IsMatchState(Def(state[n], n + 1), accounts)
      BY <1>4, <1>9, <2>1
    <2> QED BY <2>1, <2>2, <2>3
  <1>10. N \in S
    <2> HIDE DEF S
    <2> QED BY <1>1, <1>8, <1>9, UpTo
  <1> QED BY <1>2, <1>10

\* A new order adds to the book at most an order of its own account.
LEMMA NewOrderBook ==
  ASSUME NEW sc, NEW f, NEW accounts, IsBook(f, accounts)
  PROVE  /\ IsBook(ApplyNewOrder(sc, f).book, accounts \cup {sc.cmd.account})
         /\ IsSeq(ApplyNewOrder(sc, f).events)
  <1> DEFINE r == MatchAll(sc, f)
             order == [id |-> sc.seq, account |-> sc.cmd.account, side |-> sc.cmd.side,
                       price |-> sc.cmd.price, qty |-> r.left]
             accepted == [type |-> "Accepted", seq |-> sc.seq]
             top == BookTop(sc)
  <1>1. IsMatchState(r, accounts)
    BY MatchAllKeeps
  <1>2. ApplyNewOrder(sc, f) =
          IF r.left = 0 THEN [book |-> r.kept, events |-> Append(r.events, top)]
          ELSE [book |-> Append(r.kept, order), events |-> r.events \o <<accepted, top>>]
    BY DEF ApplyNewOrder
  <1>3. order.account = sc.cmd.account /\ "account" \in DOMAIN order
    OBVIOUS
  <1>4. IsSeq(<<accepted, top>>)
    <2>1. <<accepted, top>> \in Seq({accepted, top})
      OBVIOUS
    <2> QED BY <2>1, Zenon DEF IsSeq
  <1> HIDE DEF r, order, accepted, top
  <1>5. IsSeq(Append(r.events, top)) /\ IsSeq(r.events \o <<accepted, top>>)
    BY <1>1, <1>4, Appended, Concatenated DEF IsMatchState
  <1>6. IsBook(r.kept, accounts \cup {sc.cmd.account})
    BY <1>1 DEF IsMatchState, IsBook
  <1>7. IsBook(Append(r.kept, order), accounts \cup {sc.cmd.account})
    BY <1>3, <1>6, Appended DEF IsBook
  <1>8. CASE r.left = 0
    <2>1. ApplyNewOrder(sc, f) = [book |-> r.kept, events |-> Append(r.events, top)]
      BY <1>2, <1>8
    <2> QED BY <1>5, <1>6, <2>1
  <1>9. CASE r.left # 0
    <2>1. ApplyNewOrder(sc, f)
            = [book |-> Append(r.kept, order), events |-> r.events \o <<accepted, top>>]
      BY <1>2, <1>9
    <2> QED BY <1>5, <1>7, <2>1
  <1> QED BY <1>8, <1>9

\* A cancel adds nothing.
LEMMA CancelBook ==
  ASSUME NEW sc, NEW f, NEW accounts, IsBook(f, accounts)
  PROVE  IsBook(ApplyCancel(sc, f).book, accounts) /\ IsSeq(ApplyCancel(sc, f).events)
  <1> DEFINE mine == {i \in DOMAIN f : f[i].id = sc.cmd.order_id}
             i    == CHOOSE n \in mine : TRUE
             less == OrdersAt(f, DOMAIN f \ {i})
             none == <<Rejected(sc, "OrderNotFound")>>
             not  == <<Rejected(sc, "WrongAccount")>>
             done == <<Cancelled(sc, sc.cmd.order_id)>>
  <1>1. ApplyCancel(sc, f) =
          CASE mine = {} -> [book |-> f, events |-> none]
            [] mine # {} /\ f[i].account # sc.cmd.account -> [book |-> f, events |-> not]
            [] OTHER -> [book |-> less, events |-> done]
    BY DEF ApplyCancel
  <1>2. IsSeq(none) /\ IsSeq(not) /\ IsSeq(done)
    BY Single
  <1>3. IsSeq(less) /\ Range(less) \subseteq Range(f)
    <2>1. IsSeq(less) /\ Range(less) \subseteq {f[n] : n \in (DOMAIN f \ {i}) \cap DOMAIN f}
      BY OrdersAtPositions DEF IsBook
    <2> HIDE DEF less
    <2> QED BY <2>1 DEF Range
  <1> HIDE DEF mine, i, less, none, not, done
  <1>4. IsBook(less, accounts)
    BY <1>3 DEF IsBook
  <1> QED BY <1>1, <1>2, <1>4

(***************************************************************************)
(* The freeze comes before the Liquidate.                                  *)
(***************************************************************************)

\* The state of process_event: what was frozen before stays so, and an account
\* that is told to liquidate is frozen.
IsShardState(st, before) ==
  /\ DOMAIN st.account = Accounts /\ IsSeq(st.commands)
  /\ \A a \in Accounts : /\ "frozen" \in DOMAIN st.account[a]
                         /\ before[a].frozen = TRUE => st.account[a].frozen = TRUE
  /\ \A c \in Range(st.commands) : c.account \in Accounts /\ st.account[c.account].frozen = TRUE

\* A frozen account stays frozen, and a breach freezes.
LEMMA FreezeHolds ==
  ASSUME NEW was, NEW breach \in BOOLEAN
  PROVE  /\ was = TRUE => FrozenAfter(was, breach) = TRUE
         /\ breach => FrozenAfter(was, breach) = TRUE
  BY DEF FrozenAfter

\* One side of a trade never lifts a freeze, and freezes the account for which
\* it emits a Liquidate.
LEMMA SideFreezes ==
  ASSUME NEW st, NEW before, IsShardState(st, before),
         NEW a \in Accounts, NEW side, NEW ev, NEW deposit, NEW fraction
  PROVE  IsShardState(ApplySide(st, a, side, ev, deposit, fraction), before)
  <1> DEFINE ps     == [st.positions[a] EXCEPT ![ev.symbol] = apply_fill(@, side, ev.price, ev.qty)]
             m      == recompute_margin(deposit, ps, NoMarks, fraction)
             breach == m.used_margin > m.balance
             was    == st.account[a].frozen
             acc    == [st.account EXCEPT ![a].balance = m.balance,
                                          ![a].used_margin = m.used_margin,
                                          ![a].frozen = FrozenAfter(@, breach)]
             liq    == [type |-> "Liquidate", account |-> a, symbol |-> ev.symbol]
             cmds   == IF ~breach THEN st.commands ELSE Append(st.commands, liq)
             res    == ApplySide(st, a, side, ev, deposit, fraction)
  <1>1. res.account = acc /\ res.commands = cmds
    BY DEF ApplySide
  <1>2. DOMAIN acc = Accounts
    BY DEF IsShardState
  <1>3. ASSUME NEW b \in Accounts, b # a PROVE acc[b] = st.account[b]
    BY <1>3 DEF IsShardState
  <1>4. "frozen" \in DOMAIN acc[a] /\ acc[a].frozen = FrozenAfter(was, breach)
    BY DEF IsShardState
  <1>5. breach \in BOOLEAN
    OBVIOUS
  <1>6. liq.account = a
    OBVIOUS
  <1> HIDE DEF ps, m, breach, was, acc, liq, res
  <1>7. IsSeq(cmds) /\ \A c \in Range(cmds) : c \in Range(st.commands) \/ (breach /\ c = liq)
    BY Appended DEF IsShardState
  <1>8. /\ was = TRUE => acc[a].frozen = TRUE
        /\ breach => acc[a].frozen = TRUE
    BY <1>4, <1>5, FreezeHolds, Zenon
  <1> HIDE DEF cmds
  <1>9. ASSUME NEW b \in Accounts
        PROVE  /\ "frozen" \in DOMAIN acc[b]
               /\ st.account[b].frozen = TRUE => acc[b].frozen = TRUE
    <2>1. CASE b = a
      BY <1>4, <1>8, <2>1 DEF was
    <2>2. CASE b # a
      BY <1>3, <2>2 DEF IsShardState
    <2> QED BY <2>1, <2>2, Zenon
  <1>10. ASSUME NEW c \in Range(cmds)
         PROVE  c.account \in Accounts /\ acc[c.account].frozen = TRUE
    <2>1. CASE c \in Range(st.commands)
      BY <1>9, <2>1, Zenon DEF IsShardState
    <2>2. CASE breach /\ c = liq
      BY <1>6, <1>8, <2>2
    <2> QED BY <1>7, <2>1, <2>2, Zenon
  <1>11. ASSUME NEW b \in Accounts
         PROVE  before[b].frozen = TRUE => acc[b].frozen = TRUE
    BY <1>9, Zenon DEF IsShardState
  <1> QED BY <1>1, <1>2, <1>7, <1>9, <1>10, <1>11, Zenon DEF IsShardState, res

\* process_event never thaws, and freezes whom it liquidates.
LEMMA EventFreezes ==
  ASSUME NEW st, NEW before, IsShardState(st, before), NEW owned \in SUBSET Accounts,
         NEW ev, NEW deposits, NEW fraction
  PROVE  IsShardState(ProcessEvent(st, ev, owned, deposits, fraction), before)
  <1> DEFINE side(x, a, sd) == IF a \in owned THEN ApplySide(x, a, sd, ev, deposits[a], fraction)
                               ELSE x
             maker == side(st, ev.maker_acct, ev.maker_side)
             both  == side(maker, ev.taker_acct, opposite(ev.maker_side))
  <1>1. ProcessEvent(st, ev, owned, deposits, fraction) = IF ev.type # "Trade" THEN st ELSE both
    BY DEF ProcessEvent
  <1>2. ASSUME NEW x, IsShardState(x, before), NEW a, NEW sd
        PROVE  IsShardState(side(x, a, sd), before)
    <2>1. CASE a \in owned
      <3>1. a \in Accounts
        BY <2>1
      <3>2. IsShardState(ApplySide(x, a, sd, ev, deposits[a], fraction), before)
        BY <1>2, <3>1, SideFreezes
      <3> QED BY <2>1, <3>2
    <2>2. CASE a \notin owned
      BY <1>2, <2>2
    <2> QED BY <2>1, <2>2
  <1> HIDE DEF side
  <1>3. IsShardState(both, before)
    BY <1>2
  <1> QED BY <1>1, <1>3

\* The least of a set of naturals.
LEMMA MinIsLeast ==
  ASSUME NEW S \in SUBSET Nat, S # {}
  PROVE  Min(S) \in S /\ \A k \in S : Min(S) <= k
  <1> DEFINE R == OpToRel(<, Nat)
  <1>1. IsWellFoundedOn(R, Nat)
    BY NatLessThanWellFounded, Zenon
  <1>2. ASSUME NEW x \in Nat, NEW y \in Nat, ~(<<y, x>> \in R)
        PROVE  x <= y
    BY <1>2 DEF OpToRel
  <1> HIDE DEF R
  <1>3. PICK k \in S : \A j \in S : ~(<<j, k>> \in R)
    BY <1>1, WFMin, Zenon
  <1>4. \A j \in S : k <= j
    BY <1>2, <1>3, Zenon
  <1> QED BY <1>4, Zenon DEF Min

\* FirstFailed is not Ok as soon as one of the tests fails.
LEMMA FailedIsNotOk ==
  ASSUME NEW tests, DOMAIN tests \in SUBSET Nat, NEW k \in DOMAIN tests, tests[k][1],
         \A i \in DOMAIN tests : tests[i][2] # "Ok"
  PROVE  FirstFailed(tests) # "Ok"
  <1> DEFINE failed == {i \in DOMAIN tests : tests[i][1]}
  <1>1. failed \in SUBSET Nat /\ failed # {} /\ failed \subseteq DOMAIN tests
    OBVIOUS
  <1>2. FirstFailed(tests) = IF failed = {} THEN "Ok" ELSE tests[Min(failed)][2]
    BY DEF FirstFailed
  <1> HIDE DEF failed
  <1>3. Min(failed) \in DOMAIN tests
    BY <1>1, MinIsLeast, Zenon
  <1> QED BY <1>1, <1>2, <1>3, Zenon

\* The engine's inline check sees a freeze that the shard has published.
LEMMA CheckSeesFreeze ==
  ASSUME NEW order, NEW limits, NEW acc, acc.frozen = TRUE, NEW ref
  PROVE  check_new_order(order, limits, acc, ref) # "Ok"
  <1> DEFINE t3 == order.qty > limits.max_order_qty
             t4 == notional_of(order.price, order.qty) > limits.max_order_notional
             t5 == limits.price_band_bps > 0 /\ \E r \in ref :
                     price_out_of_band(order.price, r, limits.price_band_bps)
             t6 == acc.open_order_count >= limits.max_open_orders
             t7 == abs(projected_position(acc.position, order.side, order.qty))
                     > limits.max_position_abs
             tests == << <<acc.halted, "AccountHalted">>, <<acc.frozen, "AccountFrozen">>,
                         <<t3, "MaxOrderQtyExceeded">>, <<t4, "MaxOrderNotionalExceeded">>,
                         <<t5, "PriceOutOfBand">>, <<t6, "OpenOrderLimitExceeded">>,
                         <<t7, "PositionLimitExceeded">> >>
  <1>1. check_new_order(order, limits, acc, ref) = FirstFailed(tests)
    BY DEF check_new_order
  <1> HIDE DEF t3, t4, t5, t6, t7
  <1>2. DOMAIN tests = 1 .. 7
    OBVIOUS
  <1>3. tests[2][1]
    OBVIOUS
  <1>4. \A i \in 1 .. 7 : tests[i][2] # "Ok"
    OBVIOUS
  <1> HIDE DEF tests
  <1>5. DOMAIN tests \in SUBSET Nat /\ 2 \in DOMAIN tests
    BY <1>2
  <1> QED BY <1>1, <1>2, <1>3, <1>4, <1>5, FailedIsNotOk

(***************************************************************************)
(* The round robin of the Sequencer.                                       *)
(***************************************************************************)

\* There is at least one lane.
LEMMA LanesFacts == Len(Lanes) \in Nat \ {0} /\ DOMAIN Lanes = 1 .. Len(Lanes)
  BY LoopAssumption

\* The lane k places after cursor c, and the one that is served next.
LaneAt(c, k) == Lanes[((c + k) % Len(Lanes)) + 1]
Lane(k) == LaneAt(gw_cursor, k)

ServedNext(k) ==
  /\ k \in 0 .. Len(Lanes) - 1 /\ lanes[Lane(k)] # <<>>
  /\ \A j \in 0 .. k - 1 : lanes[Lane(j)] = <<>>

DispatchFrom(k) ==
  /\ gw_cursor' = CursorAfter((gw_cursor + k) % Len(Lanes))
  /\ sending' = [sc |-> <<[seq |-> seq + 1, cmd |-> Head(lanes[Lane(k)])]>>,
                 to |-> Targets(Head(lanes[Lane(k)])),
                 marker |-> IF should_fire(seq + 1) THEN <<seq + 1>> ELSE <<>>]
  /\ lanes' = [lanes EXCEPT ![Lane(k)] = Tail(@)]
  /\ overtaken' = [p \in DOMAIN lanes |->
                     IF p = Lane(k) \/ lanes[p] = <<>> THEN 0 ELSE overtaken[p] + 1]

\* poll_inbound serves the first lane from the cursor on that is not empty.
LEMMA Served ==
  ASSUME SeqDispatch
  PROVE  \E k \in Nat : ServedNext(k) /\ DispatchFrom(k)
  <1> DEFINE ready == {k \in 0 .. Len(Lanes) - 1 : lanes[Lane(k)] # <<>>}
             k == Min(ready)
  <1>1. ready # {} /\ DispatchFrom(k)
    BY Zenon DEF SeqDispatch, DispatchFrom, Lane, LaneAt
  <1>2. ready \in SUBSET Nat
    BY LanesFacts
  <1>3. k \in ready /\ \A j \in ready : k <= j
    BY <1>1, <1>2, MinIsLeast, Zenon
  <1>4. k \in Nat /\ k \in 0 .. Len(Lanes) - 1 /\ lanes[Lane(k)] # <<>>
    BY <1>3, LanesFacts
  <1>5. ASSUME NEW j \in 0 .. k - 1 PROVE lanes[Lane(j)] = <<>>
    <2>1. j \in 0 .. Len(Lanes) - 1 /\ ~(k <= j)
      BY <1>4, LanesFacts
    <2> QED BY <1>3, <2>1
  <1> HIDE DEF k, ready
  <1> QED BY <1>1, <1>4, <1>5 DEF ServedNext

\* The remainder of a number below two turns.
LEMMA Wraps ==
  ASSUME NEW n \in Nat \ {0}, NEW a \in 0 .. 2 * n - 1
  PROVE  a % n = IF a < n THEN a ELSE a - n
  <1>1. /\ a % n \in 0 .. n - 1 /\ a \div n \in Int
        /\ a = n * (a \div n) + (a % n)
    OBVIOUS
  <1>2. PICK q \in Int, r \in 0 .. n - 1 : q = a \div n /\ r = a % n /\ a = n * q + r
    BY <1>1
  <1>3. q = 0 \/ q = 1
    <2>1. CASE q < 0
      <3>1. n * q <= -n
        BY <2>1
      <3> QED BY <1>2, <3>1
    <2>2. CASE q > 1
      <3>1. n * q >= 2 * n
        BY <2>2
      <3> QED BY <1>2, <3>1
    <2> QED BY <2>1, <2>2
  <1> QED BY <1>2, <1>3

\* The lane k places after cursor c.
LEMMA LaneOf ==
  ASSUME NEW c \in 0 .. Len(Lanes) - 1, NEW k \in 0 .. Len(Lanes) - 1
  PROVE  /\ LaneAt(c, k) \in Range(Lanes)
         /\ (c + k) % Len(Lanes) \in 0 .. Len(Lanes) - 1
         /\ (c + k) % Len(Lanes) = IF c + k < Len(Lanes) THEN c + k ELSE c + k - Len(Lanes)
  <1>1. PICK n \in Nat \ {0} : n = Len(Lanes)
    BY LanesFacts, Zenon
  <1>2. c + k \in 0 .. 2 * n - 1
    BY <1>1
  <1>3. PICK a \in 0 .. 2 * n - 1 : a = c + k
    BY <1>2
  <1>4. a % n = IF a < n THEN a ELSE a - n
    BY Wraps, Zenon
  <1>5. a % n \in 0 .. n - 1
    BY <1>4
  <1>6. ((c + k) % Len(Lanes)) + 1 \in DOMAIN Lanes
    BY <1>1, <1>3, <1>5, LanesFacts
  <1> QED BY <1>1, <1>3, <1>4, <1>5, <1>6 DEF LaneAt, Range

IsAfter(d, c, k) == d = CursorAfter((c + k) % Len(Lanes))

\* Moving the cursor past a lane brings the others nearer by as much.
LEMMA LaneMoves ==
  ASSUME NEW c \in 0 .. Len(Lanes) - 1, NEW k \in 0 .. Len(Lanes) - 1,
         NEW d, IsAfter(d, c, k)
  PROVE  /\ d \in 0 .. Len(Lanes) - 1
         /\ \A j \in 0 .. Len(Lanes) - 1 :
              LaneAt(d, j) = IF k + 1 + j < Len(Lanes) THEN LaneAt(c, k + 1 + j)
                             ELSE LaneAt(c, k + 1 + j - Len(Lanes))
  <1>1. PICK n \in Nat \ {0} : n = Len(Lanes)
    BY LanesFacts, Zenon
  <1>2. PICK i \in 0 .. n - 1 : i = (c + k) % Len(Lanes)
    BY <1>1, LaneOf
  <1>6. i = IF c + k < n THEN c + k ELSE c + k - n
    BY <1>1, <1>2, LaneOf
  <1>3. d = IF i + 1 < n THEN i + 1 ELSE 0
    <2>1. PICK a \in 0 .. 2 * n - 1 : a = i + 1
      OBVIOUS
    <2>2. a % n = IF a < n THEN a ELSE a - n
      BY Wraps, Zenon
    <2>3. d = a % n
      BY <1>1, <1>2, <2>1 DEF CursorAfter, IsAfter
    <2> QED BY <2>1, <2>2, <2>3
  <1>4. d \in 0 .. Len(Lanes) - 1
    BY <1>1, <1>3
  <1>5. ASSUME NEW j \in 0 .. Len(Lanes) - 1
        PROVE  LaneAt(d, j) = IF k + 1 + j < Len(Lanes) THEN LaneAt(c, k + 1 + j)
                              ELSE LaneAt(c, k + 1 + j - Len(Lanes))
    <2>0. c \in 0 .. n - 1 /\ k \in 0 .. n - 1 /\ d \in 0 .. n - 1 /\ j \in 0 .. n - 1
      BY <1>1, <1>4
    <2>1. PICK u \in 0 .. n - 1 : u = (d + j) % Len(Lanes)
      BY <1>1, <1>4, LaneOf, Zenon
    <2>2. u = IF d + j < n THEN d + j ELSE d + j - n
      BY <1>1, <1>4, <2>1, LaneOf, Zenon
    <2>3. PICK m \in 0 .. n - 1 : m = IF k + 1 + j < n THEN k + 1 + j ELSE k + 1 + j - n
      <3>1. (IF k + 1 + j < n THEN k + 1 + j ELSE k + 1 + j - n) \in 0 .. n - 1
        BY <2>0
      <3> QED BY <3>1, Zenon
    <2>4. PICK v \in 0 .. n - 1 : v = (c + m) % Len(Lanes)
      BY <1>1, <2>3, LaneOf, Zenon
    <2>5. v = IF c + m < n THEN c + m ELSE c + m - n
      BY <1>1, <2>3, <2>4, LaneOf, Zenon
    <2>6. u = v
      BY <1>3, <1>6, <2>0, <2>2, <2>3, <2>5
    <2>7. LaneAt(d, j) = LaneAt(c, m)
      BY <2>1, <2>4, <2>6 DEF LaneAt
    <2> QED BY <1>1, <2>3, <2>7
  <1> QED BY <1>4, <1>5

\* Where the cursor stands, and how often a lane may have been passed over:
\* the further it is from the cursor, the less.
TurnsInv ==
  /\ DOMAIN lanes = Range(Lanes)
  /\ gw_cursor \in 0 .. Len(Lanes) - 1
  /\ overtaken \in [Range(Lanes) -> Nat]
  /\ \A k \in 0 .. Len(Lanes) - 1 : overtaken[Lane(k)] + k <= Len(Lanes) - 1

\* One dispatch of the sequencer advances the round robin past the lane it took.
LEMMA DispatchTurns ==
  ASSUME TurnsInv, SeqDispatch
  PROVE  TurnsInv'
  <1>1. PICK k \in Nat : ServedNext(k) /\ DispatchFrom(k)
    BY Served
  <1>2. PICK n \in Nat \ {0} : n = Len(Lanes)
    BY LanesFacts, Zenon
  <1>3. /\ gw_cursor \in 0 .. n - 1 /\ k \in 0 .. n - 1
        /\ overtaken \in [Range(Lanes) -> Nat] /\ DOMAIN lanes = Range(Lanes)
    BY <1>1, <1>2 DEF TurnsInv, ServedNext
  <1>4. /\ gw_cursor' \in 0 .. n - 1
        /\ \A j \in 0 .. n - 1 :
             Lane(j)' = IF k + 1 + j < n THEN Lane(k + 1 + j) ELSE Lane(k + 1 + j - n)
    <2>1. PICK d : d = gw_cursor' /\ IsAfter(d, gw_cursor, k)
      BY <1>1 DEF DispatchFrom, IsAfter
    <2>2. gw_cursor \in 0 .. Len(Lanes) - 1 /\ k \in 0 .. Len(Lanes) - 1
      BY <1>2, <1>3
    <2>3. /\ d \in 0 .. Len(Lanes) - 1
          /\ \A j \in 0 .. Len(Lanes) - 1 :
               LaneAt(d, j) = IF k + 1 + j < Len(Lanes)
                                         THEN LaneAt(gw_cursor, k + 1 + j)
                                         ELSE LaneAt(gw_cursor, k + 1 + j - Len(Lanes))
      BY <2>1, <2>2, LaneMoves
    <2> QED BY <1>2, <2>1, <2>3 DEF Lane
  <1>5. /\ overtaken' = [p \in Range(Lanes) |->
                          IF p = Lane(k) \/ lanes[p] = <<>> THEN 0 ELSE overtaken[p] + 1]
        /\ DOMAIN lanes' = Range(Lanes)
    BY <1>1, <1>3 DEF DispatchFrom
  <1>6. overtaken' \in [Range(Lanes) -> Nat]
    BY <1>3, <1>5
  <1>7. ASSUME NEW j \in 0 .. n - 1
        PROVE  overtaken'[Lane(j)'] + j <= n - 1
    <2>1. PICK p \in Range(Lanes) : p = Lane(j)'
      BY <1>2, <1>4, LaneOf, Zenon DEF Lane
    <2>2. CASE p = Lane(k) \/ lanes[p] = <<>>
      BY <1>5, <2>1, <2>2
    <2>3. CASE ~(p = Lane(k) \/ lanes[p] = <<>>)
      <3>1. overtaken'[p] = overtaken[p] + 1 /\ overtaken[p] \in Nat
        BY <1>3, <1>5, <2>3
      <3>2. CASE k + 1 + j < n
        <4>1. k + 1 + j \in 0 .. n - 1 /\ p = Lane(k + 1 + j)
          BY <1>3, <1>4, <2>1, <3>2
        <4>2. overtaken[p] + (k + 1 + j) <= n - 1
          BY <1>2, <4>1 DEF TurnsInv
        <4> QED BY <1>3, <2>1, <3>1, <4>2
      <3>3. CASE ~(k + 1 + j < n)
        <4>1. k + 1 + j - n \in 0 .. k /\ p = Lane(k + 1 + j - n)
          BY <1>3, <1>4, <2>1, <3>3
        <4>2. CASE k + 1 + j - n = k
          BY <2>3, <4>1, <4>2
        <4>3. CASE k + 1 + j - n \in 0 .. k - 1
          BY <1>1, <2>3, <4>1, <4>3 DEF ServedNext
        <4> QED BY <1>3, <4>1, <4>2, <4>3
      <3> QED BY <3>2, <3>3
    <2> QED BY <2>2, <2>3
  <1> QED BY <1>2, <1>4, <1>5, <1>6, <1>7, Zenon DEF TurnsInv

\* TurnsInv is inductive.
LEMMA NextTurns ==
  ASSUME TurnsInv, [Next]_vars
  PROVE  TurnsInv'
  <1>1. CASE SeqDispatch
    BY <1>1, DispatchTurns
  <1>2. CASE UNCHANGED <<gw_cursor, overtaken>> /\ DOMAIN lanes' = DOMAIN lanes
    BY <1>2 DEF TurnsInv, Lane
  <1>3. ASSUME NEW h \in Shards, ShardEmit(h)
        PROVE  UNCHANGED <<gw_cursor, overtaken>> /\ DOMAIN lanes' = DOMAIN lanes
    BY <1>3 DEF ShardEmit
  <1>4. SeqDispatch \/ (\E h \in Shards : ShardEmit(h)) \/ UNCHANGED <<gw_cursor, overtaken, lanes>>
    BY Zenon DEF Next, Threads, SeqStep, EngineStep, ShardStep, SeqRoute, SeqFinish, SubscriberPop,
           EngineHandle, PublishToRisk, AppendEvent, PublishOut, BridgePop, ShardProcess, vars,
           seq_vars
  <1> QED BY <1>1, <1>2, <1>3, <1>4

\* TurnsInv holds before the first dispatch.
LEMMA InitTurns == Init => TurnsInv
  <1> SUFFICES ASSUME Init PROVE TurnsInv
    OBVIOUS
  <1>1. /\ gw_cursor = 0 /\ overtaken = [q \in Range(Lanes) |-> 0]
        /\ DOMAIN lanes = Range(Lanes)
    BY DEF Init
  <1>2. gw_cursor \in 0 .. Len(Lanes) - 1
    BY <1>1, LanesFacts
  <1>3. ASSUME NEW k \in 0 .. Len(Lanes) - 1 PROVE overtaken[Lane(k)] = 0
    BY <1>1, <1>2, LaneOf DEF Lane
  <1> QED BY <1>1, <1>2, <1>3, LanesFacts DEF TurnsInv

\* A lane with a command in it is passed over at most once by each other lane:
\* poll_inbound moves the cursor past the lane it served, so a flood of client
\* orders cannot hold up a shard's Liquidate, however many lanes there are.
THEOREM AlwaysRoundRobinFair == Spec => []RoundRobinFair
  <1>1. Init => TurnsInv
    BY InitTurns
  <1>2. TurnsInv /\ [Next]_vars => TurnsInv'
    BY NextTurns
  <1>3. TurnsInv => RoundRobinFair
    <2> SUFFICES ASSUME TurnsInv, NEW q \in Range(Lanes) PROVE overtaken[q] < Len(Lanes)
      BY DEF RoundRobinFair
    <2>1. PICK n \in Nat \ {0} : n = Len(Lanes)
      BY LanesFacts, Zenon
    <2>2. PICK i \in 1 .. n : Lanes[i] = q
      BY <2>1, LanesFacts DEF Range
    <2>3. gw_cursor \in 0 .. n - 1 /\ overtaken[q] \in Nat
      BY <2>1 DEF TurnsInv
    <2>8. (IF i - 1 >= gw_cursor THEN i - 1 - gw_cursor ELSE i - 1 - gw_cursor + n) \in 0 .. n - 1
      BY <2>3
    <2>4. PICK k \in 0 .. n - 1 : k = IF i - 1 >= gw_cursor THEN i - 1 - gw_cursor
                                     ELSE i - 1 - gw_cursor + n
      BY <2>8
    <2>5. (gw_cursor + k) % Len(Lanes) = i - 1
      <3>1. PICK u \in 0 .. n - 1 : u = (gw_cursor + k) % Len(Lanes)
        BY <2>1, <2>3, LaneOf
      <3>2. u = IF gw_cursor + k < n THEN gw_cursor + k ELSE gw_cursor + k - n
        BY <2>1, <2>3, <3>1, LaneOf, Zenon
      <3>3. u = i - 1
        BY <2>3, <2>4, <3>2
      <3> QED BY <3>1, <3>3
    <2>6. Lane(k) = q
      BY <2>2, <2>5 DEF Lane, LaneAt
    <2>7. overtaken[q] + k <= n - 1
      BY <2>1, <2>6 DEF TurnsInv
    <2> QED BY <2>1, <2>3, <2>7
  <1> QED BY <1>1, <1>2, <1>3, PTL DEF Spec

(***************************************************************************)
(* The invariant of the loop.                                              *)
(***************************************************************************)

\* A Liquidate under way is for an account whose freeze is published.
CommandOK(c) ==
  c.type = "Liquidate" => c.account \in Accounts /\ account[c.account].frozen = TRUE

Commands(f)  == IsSeq(f) /\ \A c \in Range(f) : CommandOK(c)
Sequenced(f) == IsSeq(f) /\ \A x \in Range(f) : CommandOK(x.cmd)

\* The commands that Targets gives an engine.
Routed(f) == \A x \in Range(f) : x.cmd.type \in {"NewOrder", "Cancel", "Liquidate"}

\* An event on its way: it is in the event log before it is to go out.
IsItem(t)  == DOMAIN t = {"ev", "stage", "logged"} /\ (t.stage = "out" => t.logged = TRUE)
IsQueue(f) == IsSeq(f) /\ \A t \in Range(f) : IsItem(t)

AllLogged(f) == IsSeq(f) /\ \A b \in Range(f) : b = TRUE

AccountInv == DOMAIN account = Accounts /\ \A a \in Accounts : "frozen" \in DOMAIN account[a]

LanesInv == DOMAIN lanes = Range(Lanes) /\ \A q \in Range(Lanes) : Commands(lanes[q])

EmittingInv == DOMAIN emitting = Shards /\ \A h \in Shards : Commands(emitting[h])

SendingInv ==
  /\ DOMAIN sending = {"sc", "to", "marker"} /\ Sequenced(sending.sc)
  /\ sending.to # <<>> => Routed(sending.sc)

InboundInv ==
  DOMAIN inbound = Symbols /\ \A s \in Symbols : Sequenced(inbound[s]) /\ Routed(inbound[s])

\* An account that was liquidated is frozen and has no order in the book.
BookInv ==
  /\ DOMAIN book = Symbols /\ \A s \in Symbols : IsBook(book[s], Accounts)
  /\ \A s \in Symbols, a \in Accounts : <<s, a>> \in liquidated =>
       account[a].frozen = TRUE /\ IsBook(book[s], Accounts \ {a})

LogInv ==
  /\ DOMAIN pending = Symbols /\ \A s \in Symbols : IsQueue(pending[s])
  /\ DOMAIN outbound = Symbols /\ \A s \in Symbols : AllLogged(outbound[s])

LoopInv ==
  /\ TurnsInv /\ AccountInv /\ LanesInv /\ EmittingInv /\ SendingInv /\ InboundInv
  /\ BookInv /\ LogInv

\* LoopInv holds of empty lanes, rings and books.
LEMMA InitLoop == Init => LoopInv
  <1> SUFFICES ASSUME Init PROVE LoopInv
    OBVIOUS
  <1> USE DEF Init
  <1>1. AccountInv
    BY DEF AccountInv
  <1>2. LanesInv
    <2>1. PICK script \in Scripts :
            lanes = [q \in Range(Lanes) |-> IF q = "clients" THEN script ELSE <<>>]
      OBVIOUS
    <2>2. IsSeq(script) /\ \A cmd \in Range(script) : cmd.type # "Liquidate"
      BY LoopAssumption DEF IsSeq
    <2>3. Commands(script) /\ Commands(<<>>)
      BY <2>2, Nothing DEF Commands, CommandOK
    <2> QED BY <2>1, <2>3 DEF LanesInv
  <1>3. EmittingInv
    BY Nothing DEF EmittingInv, Commands
  <1>4. SendingInv
    BY Nothing DEF SendingInv, Sequenced, Idle
  <1>5. InboundInv
    BY Nothing DEF InboundInv, Sequenced, Routed
  <1>6. BookInv
    <2>1. ASSUME NEW s \in Symbols PROVE IsBook(book[s], Accounts)
      <3>1. book[s] \in Seq(Orders)
        BY LoopAssumption
      <3>2. \A i \in DOMAIN book[s] : book[s][i] \in Orders
        BY <3>1
      <3> QED BY <3>1, <3>2 DEF IsBook, IsSeq, Range, Orders
    <2>2. DOMAIN book = Symbols /\ liquidated = {}
      BY LoopAssumption
    <2> QED BY <2>1, <2>2 DEF BookInv
  <1>7. LogInv
    BY Nothing DEF LogInv, IsQueue, AllLogged
  <1>8. TurnsInv
    BY InitTurns
  <1> QED BY <1>1, <1>2, <1>3, <1>4, <1>5, <1>6, <1>7, <1>8 DEF LoopInv

(***************************************************************************)
(* handle_command.                                                         *)
(***************************************************************************)

\* The events of a command start out unlogged and not yet to go out.
LEMMA QueuedIsQueue ==
  ASSUME NEW events, IsSeq(events), NEW stage, stage # "out"
  PROVE  IsQueue(Queued(events, stage))
  <1> DEFINE item(i) == [ev |-> events[i], stage |-> stage, logged |-> FALSE]
             T == {item(i) : i \in DOMAIN events}
  <1>1. PICK n \in Nat : DOMAIN events = 1 .. n
    BY DEF IsSeq
  <1>2. Queued(events, stage) = [i \in 1 .. n |-> item(i)]
    BY <1>1 DEF Queued
  <1>4. ASSUME NEW i \in 1 .. n PROVE IsItem(item(i))
    BY DEF IsItem
  <1>5. \A i \in 1 .. n : item(i) \in T
    BY <1>1, Zenon
  <1> HIDE DEF item, T
  <1>3. Queued(events, stage) \in Seq(T)
    BY <1>2, <1>5
  <1> QED BY <1>2, <1>3, <1>4, Zenon DEF IsQueue, IsSeq, Range

\* A new order adds at most its own account to the book, and nothing if rejected.
LEMMA HandleNewOrder ==
  ASSUME NEW s, NEW sc, NEW X, IsBook(book[s], X), sc.cmd.type = "NewOrder"
  PROVE  /\ IsQueue(Outcome(s, sc).items)
         /\ IF RiskResult(s, sc.cmd) = "Ok"
              THEN IsBook(Outcome(s, sc).book, X \cup {sc.cmd.account})
              ELSE Outcome(s, sc).book = book[s]
  <1> DEFINE new == ApplyNewOrder(sc, book[s])
             no  == <<Rejected(sc, RiskResult(s, sc.cmd))>>
  <1>1. Outcome(s, sc) = IF RiskResult(s, sc.cmd) = "Ok"
                           THEN [book |-> new.book, items |-> Queued(new.events, "risk")]
                           ELSE [book |-> book[s], items |-> Queued(no, "log")]
    BY DEF Outcome
  <1>2. IsBook(new.book, X \cup {sc.cmd.account}) /\ IsSeq(new.events)
    BY NewOrderBook, Zenon
  <1>3. IsSeq(no)
    BY Single
  <1> HIDE DEF new, no
  <1>4. IsQueue(Queued(new.events, "risk")) /\ IsQueue(Queued(no, "log"))
    BY <1>2, <1>3, QueuedIsQueue
  <1>5. CASE RiskResult(s, sc.cmd) = "Ok"
    <2>1. Outcome(s, sc) = [book |-> new.book, items |-> Queued(new.events, "risk")]
      BY <1>1, <1>5
    <2> QED BY <1>2, <1>4, <1>5, <2>1
  <1>6. CASE RiskResult(s, sc.cmd) # "Ok"
    <2>1. Outcome(s, sc) = [book |-> book[s], items |-> Queued(no, "log")]
      BY <1>1, <1>6
    <2> QED BY <1>4, <1>6, <2>1
  <1> QED BY <1>5, <1>6

\* A cancel adds no account to the book.
LEMMA HandleCancel ==
  ASSUME NEW s, NEW sc, NEW X, IsBook(book[s], X), sc.cmd.type = "Cancel"
  PROVE  IsQueue(Outcome(s, sc).items) /\ IsBook(Outcome(s, sc).book, X)
  <1> DEFINE cxl == ApplyCancel(sc, book[s])
  <1>1. Outcome(s, sc) = [book |-> cxl.book, items |-> Queued(cxl.events, "risk")]
    BY DEF Outcome
  <1>2. IsBook(cxl.book, X) /\ IsSeq(cxl.events)
    BY CancelBook
  <1> HIDE DEF cxl
  <1>3. IsQueue(Queued(cxl.events, "risk"))
    BY <1>2, QueuedIsQueue
  <1> QED BY <1>1, <1>2, <1>3

\* A Liquidate leaves no order of its account.
LEMMA HandleLiquidate ==
  ASSUME NEW s, NEW sc, NEW X, IsBook(book[s], X), sc.cmd.type = "Liquidate"
  PROVE  IsQueue(Outcome(s, sc).items) /\ IsBook(Outcome(s, sc).book, X \ {sc.cmd.account})
  <1> DEFINE f    == book[s]
             mine == OwnedBy(f, sc.cmd.account)
             open == OrdersAt(f, mine)
             rest == OrdersAt(f, DOMAIN f \ mine)
             gone == [i \in DOMAIN open |-> Cancelled(sc, open[i].id)]
  <1>1. Outcome(s, sc) = [book |-> rest, items |-> Queued(gone, "risk")]
    BY DEF Outcome
  <1>2. IsSeq(f)
    BY DEF IsBook
  <1>3. IsSeq(rest) /\ Range(rest) \subseteq {f[i] : i \in (DOMAIN f \ mine) \cap DOMAIN f}
    BY <1>2, OrdersAtPositions
  <1>4. IsSeq(open)
    BY <1>2, OrdersAtPositions
  <1> HIDE DEF open, rest
  <1>5. IsSeq(gone)
    <2> DEFINE T == {Cancelled(sc, open[i].id) : i \in DOMAIN open}
    <2>1. PICK n \in Nat : DOMAIN open = 1 .. n
      BY <1>4 DEF IsSeq
    <2>2. gone \in Seq(T)
      BY <2>1
    <2> QED BY <2>2 DEF IsSeq
  <1>6. ASSUME NEW o \in Range(rest) PROVE "account" \in DOMAIN o /\ o.account \in X \ {sc.cmd.account}
    <2>1. PICK i \in DOMAIN f \ mine : o = f[i]
      BY <1>3
    <2>2. o.account # sc.cmd.account
      BY <2>1 DEF OwnedBy
    <2>3. o \in Range(f)
      BY <2>1 DEF Range
    <2> QED BY <2>2, <2>3 DEF IsBook
  <1>7. IsBook(rest, X \ {sc.cmd.account})
    BY <1>3, <1>6 DEF IsBook
  <1> HIDE DEF gone
  <1>8. IsQueue(Queued(gone, "risk"))
    BY <1>5, QueuedIsQueue
  <1> QED BY <1>1, <1>7, <1>8

(***************************************************************************)
(* Every step keeps the invariant of the loop.                             *)
(***************************************************************************)

\* A freeze is never lifted, so a Liquidate that was right stays right.
LEMMA NextAccount ==
  ASSUME LoopInv, [Next]_vars
  PROVE  /\ AccountInv'
         /\ \A a \in Accounts : account[a].frozen = TRUE => account'[a].frozen = TRUE
         /\ \A c : CommandOK(c) => CommandOK(c)'
  <1>1. ASSUME NEW h \in Shards, ShardProcess(h)
        PROVE  /\ AccountInv'
               /\ \A a \in Accounts : account[a].frozen = TRUE => account'[a].frozen = TRUE
    <2> DEFINE st == [positions |-> positions, account |-> account, commands |-> <<>>]
               r  == process_event(h, Head(fan[h]))
    <2>1. IsShardState(st, account)
      BY Nothing DEF IsShardState, LoopInv, AccountInv
    <2>2. IsShardState(r, account)
      BY <2>1, EventFreezes DEF process_event
    <2>3. account' = r.account
      BY <1>1 DEF ShardProcess
    <2> HIDE DEF r
    <2> QED BY <2>2, <2>3 DEF IsShardState, AccountInv
  <1>2. ASSUME UNCHANGED account
        PROVE  /\ AccountInv'
               /\ \A a \in Accounts : account[a].frozen = TRUE => account'[a].frozen = TRUE
    BY <1>2 DEF LoopInv, AccountInv
  <1>3. (\E h \in Shards : ShardProcess(h)) \/ UNCHANGED account
    BY Zenon DEF Next, Threads, SeqStep, EngineStep, ShardStep, SeqDispatch, SeqRoute, SeqFinish,
           SubscriberPop, EngineHandle, PublishToRisk, AppendEvent, PublishOut, BridgePop,
           ShardEmit, vars, shard_vars
  <1>4. /\ AccountInv'
        /\ \A a \in Accounts : account[a].frozen = TRUE => account'[a].frozen = TRUE
    BY <1>1, <1>2, <1>3, Zenon
  <1> QED BY <1>4 DEF CommandOK

\* The lanes carry liquidations only of frozen accounts.
LEMMA NextLanes ==
  ASSUME LoopInv, [Next]_vars
  PROVE  LanesInv'
  <1>0. \A c : CommandOK(c) => CommandOK(c)'
    BY NextAccount, Zenon
  <1>00. /\ DOMAIN lanes = Range(Lanes) /\ \A q \in Range(Lanes) : Commands(lanes[q])
         /\ gw_cursor \in 0 .. Len(Lanes) - 1
    BY DEF LoopInv, LanesInv, TurnsInv
  <1>1. CASE SeqDispatch
    <2>1. PICK k \in Nat : ServedNext(k) /\ DispatchFrom(k)
      BY <1>1, Served
    <2>2. PICK q \in Range(Lanes) : q = Lane(k) /\ lanes[q] # <<>>
      BY <1>00, <2>1, LaneOf DEF ServedNext, Lane
    <2>3. lanes' = [lanes EXCEPT ![q] = Tail(lanes[q])]
      BY <2>1, <2>2 DEF DispatchFrom
    <2>4. IsSeq(Tail(lanes[q])) /\ Range(Tail(lanes[q])) \subseteq Range(lanes[q])
      BY <1>00, <2>2, HeadTail DEF Commands
    <2>5. ASSUME NEW p \in Range(Lanes)
          PROVE  IsSeq(lanes'[p]) /\ Range(lanes'[p]) \subseteq Range(lanes[p])
      BY <1>00, <2>3, <2>4 DEF Commands
    <2>6. DOMAIN lanes' = Range(Lanes)
      BY <1>00, <2>3
    <2> QED BY <1>0, <1>00, <2>5, <2>6 DEF LanesInv, Commands
  <1>2. ASSUME NEW h \in Shards, ShardEmit(h)
        PROVE  LanesInv'
    <2> DEFINE c == Head(emitting[h])
    <2>1. emitting[h] # <<>> /\ lanes' = [lanes EXCEPT ![h] = Append(lanes[h], c)]
      BY <1>2 DEF ShardEmit
    <2>2. c \in Range(emitting[h])
      BY <2>1, HeadTail DEF LoopInv, EmittingInv, Commands
    <2>3. CommandOK(c)
      BY <2>2 DEF LoopInv, EmittingInv, Commands
    <2> HIDE DEF c
    <2>4. ASSUME NEW q \in Range(Lanes)
          PROVE  IsSeq(lanes'[q]) /\ Range(lanes'[q]) \subseteq Range(lanes[q]) \cup {c}
      <3>1. IsSeq(lanes[q]) /\ IsSeq(Append(lanes[q], c))
            /\ Range(Append(lanes[q], c)) = Range(lanes[q]) \cup {c}
        BY <1>00, Appended DEF Commands
      <3>2. lanes'[q] = lanes[q] \/ lanes'[q] = Append(lanes[q], c)
        BY <1>00, <2>1
      <3> QED BY <3>1, <3>2, Zenon
    <2>5. DOMAIN lanes' = Range(Lanes)
      BY <1>00, <2>1
    <2> QED BY <1>0, <1>00, <2>3, <2>4, <2>5 DEF LanesInv, Commands
  <1>3. CASE UNCHANGED lanes
    BY <1>0, <1>00, <1>3 DEF LanesInv, Commands
  <1>4. SeqDispatch \/ (\E h \in Shards : ShardEmit(h)) \/ UNCHANGED lanes
    BY Zenon DEF Next, Threads, SeqStep, EngineStep, ShardStep, SeqRoute, SeqFinish, SubscriberPop,
           EngineHandle, PublishToRisk, AppendEvent, PublishOut, BridgePop, ShardProcess, vars,
           seq_vars
  <1> QED BY <1>1, <1>2, <1>3, <1>4

\* process_event returns Liquidates only for accounts it has frozen.
LEMMA NextEmitting ==
  ASSUME LoopInv, [Next]_vars
  PROVE  EmittingInv'
  <1>0. \A c : CommandOK(c) => CommandOK(c)'
    BY NextAccount, Zenon
  <1>00. DOMAIN emitting = Shards /\ \A h \in Shards : Commands(emitting[h])
    BY DEF LoopInv, EmittingInv
  <1>1. ASSUME NEW h \in Shards, ShardProcess(h)
        PROVE  EmittingInv'
    <2> DEFINE st == [positions |-> positions, account |-> account, commands |-> <<>>]
               r  == process_event(h, Head(fan[h]))
    <2>1. IsShardState(st, account)
      BY Nothing DEF IsShardState, LoopInv, AccountInv
    <2>2. IsShardState(r, account)
      BY <2>1, EventFreezes DEF process_event
    <2>3. account' = r.account /\ emitting' = [emitting EXCEPT ![h] = r.commands]
      BY <1>1 DEF ShardProcess
    <2> HIDE DEF r
    <2>6. PICK cs : cs = r.commands
      OBVIOUS
    <2>4. IsSeq(cs) /\ \A c \in Range(cs) : CommandOK(c)'
      BY <2>2, <2>3, <2>6 DEF IsShardState, CommandOK
    <2>5. ASSUME NEW k \in Shards PROVE Commands(emitting[k])'
      <3>1. CASE k = h
        BY <1>00, <2>3, <2>4, <2>6, <3>1 DEF Commands
      <3>2. CASE k # h
        BY <1>0, <1>00, <2>3, <3>2 DEF Commands
      <3> QED BY <3>1, <3>2
    <2> QED BY <1>00, <2>3, <2>5 DEF EmittingInv
  <1>2. ASSUME NEW h \in Shards, ShardEmit(h)
        PROVE  EmittingInv'
    <2>1. emitting[h] # <<>> /\ emitting' = [emitting EXCEPT ![h] = Tail(emitting[h])]
      BY <1>2 DEF ShardEmit
    <2>2. IsSeq(Tail(emitting[h])) /\ Range(Tail(emitting[h])) \subseteq Range(emitting[h])
      BY <1>00, <2>1, HeadTail DEF Commands
    <2>3. ASSUME NEW k \in Shards PROVE Commands(emitting[k])'
      BY <1>0, <1>00, <2>1, <2>2 DEF Commands
    <2> QED BY <1>00, <2>1, <2>3 DEF EmittingInv
  <1>3. CASE UNCHANGED emitting
    BY <1>0, <1>00, <1>3 DEF EmittingInv, Commands
  <1>4. (\E h \in Shards : ShardProcess(h) \/ ShardEmit(h)) \/ UNCHANGED emitting
    BY Zenon DEF Next, Threads, SeqStep, EngineStep, ShardStep, SeqDispatch, SeqRoute, SeqFinish,
           SubscriberPop, EngineHandle, PublishToRisk, AppendEvent, PublishOut, BridgePop, vars,
           shard_vars
  <1> QED BY <1>1, <1>2, <1>3, <1>4

\* So do the commands the risk shards have yet to send.
LEMMA NextSending ==
  ASSUME LoopInv, [Next]_vars
  PROVE  SendingInv'
  <1>0. \A c : CommandOK(c) => CommandOK(c)'
    BY NextAccount, Zenon
  <1>00. /\ DOMAIN sending = {"sc", "to", "marker"} /\ Sequenced(sending.sc)
         /\ sending.to # <<>> => Routed(sending.sc)
    BY DEF LoopInv, SendingInv
  <1>1. CASE SeqDispatch
    <2>1. PICK k \in Nat : ServedNext(k) /\ DispatchFrom(k)
      BY <1>1, Served
    <2>2. PICK q \in Range(Lanes) : q = Lane(k) /\ lanes[q] # <<>>
      BY <2>1, LaneOf DEF ServedNext, Lane, LoopInv, TurnsInv
    <2>3. PICK c : c = Head(lanes[q])
      OBVIOUS
    <2>4. CommandOK(c)
      <3>1. Commands(lanes[q])
        BY DEF LoopInv, LanesInv
      <3>2. c \in Range(lanes[q])
        BY <2>2, <2>3, <3>1, HeadTail DEF Commands
      <3> QED BY <3>1, <3>2 DEF Commands
    <2>5. PICK x : x = [seq |-> seq + 1, cmd |-> c]
      BY Zenon
    <2>6. /\ DOMAIN sending' = {"sc", "to", "marker"}
          /\ sending'.sc = <<x>> /\ sending'.to = Targets(c)
      BY <2>1, <2>2, <2>3, <2>5 DEF DispatchFrom
    <2>7. IsSeq(<<x>>) /\ Range(<<x>>) = {x} /\ x.cmd = c
      BY <2>5, Single
    <2>8. Targets(c) # <<>> => c.type \in {"NewOrder", "Cancel", "Liquidate"}
      BY DEF Targets
    <2> QED BY <1>0, <2>4, <2>6, <2>7, <2>8 DEF SendingInv, Sequenced, Routed
  <1>2. CASE SeqRoute
    <2>1. sending.to # <<>> /\ sending' = [sending EXCEPT !.to = Tail(@)]
      BY <1>2 DEF SeqRoute
    <2>2. DOMAIN sending' = {"sc", "to", "marker"} /\ sending'.sc = sending.sc
      BY <1>00, <2>1
    <2> QED BY <1>0, <1>00, <2>1, <2>2 DEF SendingInv, Sequenced, Routed
  <1>3. CASE SeqFinish
    <2>1. /\ DOMAIN sending' = {"sc", "to", "marker"}
          /\ sending'.sc = <<>> /\ sending'.to = <<>>
      BY <1>3 DEF SeqFinish, Idle
    <2> QED BY <2>1, Nothing DEF SendingInv, Sequenced
  <1>4. CASE UNCHANGED sending
    BY <1>0, <1>00, <1>4 DEF SendingInv, Sequenced, Routed
  <1>5. SeqDispatch \/ SeqRoute \/ SeqFinish \/ UNCHANGED sending
    BY Zenon DEF Next, Threads, SeqStep, EngineStep, ShardStep, SubscriberPop, EngineHandle,
           PublishToRisk, AppendEvent, PublishOut, BridgePop, ShardProcess, ShardEmit, vars,
           seq_vars
  <1> QED BY <1>1, <1>2, <1>3, <1>4, <1>5

\* And the commands the matching engines have yet to handle.
LEMMA NextInbound ==
  ASSUME LoopInv, [Next]_vars
  PROVE  InboundInv'
  <1>0. \A c : CommandOK(c) => CommandOK(c)'
    BY NextAccount, Zenon
  <1>00. /\ DOMAIN inbound = Symbols
         /\ \A s \in Symbols : Sequenced(inbound[s]) /\ Routed(inbound[s])
    BY DEF LoopInv, InboundInv
  <1>1. CASE SeqRoute
    <2> DEFINE to == Head(sending.to)
    <2>1. sending.to # <<>> /\ inbound' = [inbound EXCEPT ![to] = inbound[to] \o sending.sc]
      BY <1>1 DEF SeqRoute
    <2>2. Sequenced(sending.sc) /\ Routed(sending.sc)
      BY <2>1, Zenon DEF LoopInv, SendingInv
    <2> HIDE DEF to
    <2>3. ASSUME NEW s \in Symbols
          PROVE  IsSeq(inbound'[s]) /\ Range(inbound'[s]) \subseteq Range(inbound[s]) \cup Range(sending.sc)
      <3>1. IsSeq(inbound[s]) /\ IsSeq(sending.sc)
        BY <1>00, <2>2 DEF Sequenced
      <3>2. /\ IsSeq(inbound[s] \o sending.sc)
            /\ Range(inbound[s] \o sending.sc) \subseteq Range(inbound[s]) \cup Range(sending.sc)
        BY <3>1, Concatenated
      <3>3. inbound'[s] = inbound[s] \/ inbound'[s] = inbound[s] \o sending.sc
        BY <1>00, <2>1, Zenon
      <3> QED BY <3>1, <3>2, <3>3, Zenon
    <2>4. DOMAIN inbound' = Symbols
      BY <1>00, <2>1
    <2> QED BY <1>0, <1>00, <2>2, <2>3, <2>4, Zenon DEF InboundInv, Sequenced, Routed
  <1>2. ASSUME NEW s \in Symbols, EngineHandle(s)
        PROVE  InboundInv'
    <2>1. inbound[s] # <<>> /\ inbound' = [inbound EXCEPT ![s] = Tail(inbound[s])]
      BY <1>2 DEF EngineHandle
    <2>2. IsSeq(Tail(inbound[s])) /\ Range(Tail(inbound[s])) \subseteq Range(inbound[s])
      BY <1>00, <2>1, HeadTail DEF Sequenced
    <2>3. ASSUME NEW k \in Symbols
          PROVE  IsSeq(inbound'[k]) /\ Range(inbound'[k]) \subseteq Range(inbound[k])
      BY <1>00, <2>1, <2>2 DEF Sequenced
    <2>4. DOMAIN inbound' = Symbols
      BY <1>00, <2>1
    <2> QED BY <1>0, <1>00, <2>3, <2>4 DEF InboundInv, Sequenced, Routed
  <1>3. CASE UNCHANGED inbound
    BY <1>0, <1>00, <1>3 DEF InboundInv, Sequenced, Routed
  <1>4. SeqRoute \/ (\E s \in Symbols : EngineHandle(s)) \/ UNCHANGED inbound
    BY Zenon DEF Next, Threads, SeqStep, EngineStep, ShardStep, SeqDispatch, SeqFinish, SubscriberPop,
           PublishToRisk, AppendEvent, PublishOut, BridgePop, ShardProcess, ShardEmit, vars,
           engine_vars
  <1> QED BY <1>1, <1>2, <1>3, <1>4

\* A new order of a frozen account does not pass the inline check.
LEMMA FrozenRejected ==
  ASSUME NEW s, NEW cmd, NEW a \in Accounts, account[a].frozen = TRUE,
         RiskResult(s, cmd) = "Ok"
  PROVE  cmd.account \in Accounts /\ cmd.account # a
  <1>1. cmd.account \in Accounts
    BY DEF RiskResult
  <1>2. check_new_order(cmd, Limits, account[cmd.account], reference[s]) = "Ok"
    BY <1>1 DEF RiskResult
  <1>3. ~(account[cmd.account].frozen = TRUE)
    BY <1>2, CheckSeesFreeze, Zenon
  <1> QED BY <1>1, <1>3

\* handle_command: rejected or of an account that is not frozen, a new order
\* leaves liquidated accounts flat, and a Liquidate makes its account flat.
LEMMA HandleBook ==
  ASSUME LoopInv, NEW s \in Symbols, EngineHandle(s)
  PROVE  BookInv'
  <1> DEFINE sc == Head(inbound[s])
             out == Outcome(s, sc)
  <1>1. /\ inbound[s] # <<>> /\ book' = [book EXCEPT ![s] = out.book] /\ account' = account
        /\ liquidated' = IF sc.cmd.type = "Liquidate"
                           THEN liquidated \cup {<<s, sc.cmd.account>>} ELSE liquidated
    BY DEF EngineHandle, shard_vars
  <1>2. CommandOK(sc.cmd) /\ sc.cmd.type \in {"NewOrder", "Cancel", "Liquidate"}
    <2>1. Sequenced(inbound[s]) /\ Routed(inbound[s])
      BY DEF LoopInv, InboundInv
    <2>2. sc \in Range(inbound[s])
      BY <1>1, <2>1, HeadTail DEF Sequenced
    <2> QED BY <2>1, <2>2 DEF Sequenced, Routed
  <1>3. /\ DOMAIN book = Symbols /\ \A k \in Symbols : IsBook(book[k], Accounts)
        /\ \A k \in Symbols, a \in Accounts : <<k, a>> \in liquidated =>
             account[a].frozen = TRUE /\ IsBook(book[k], Accounts \ {a})
    BY DEF LoopInv, BookInv
  <1> HIDE DEF sc, out
  <1>4. /\ IsBook(out.book, Accounts)
        /\ \A a \in Accounts : account[a].frozen = TRUE /\ IsBook(book[s], Accounts \ {a})
             => IsBook(out.book, Accounts \ {a})
        /\ sc.cmd.type = "Liquidate" => IsBook(out.book, Accounts \ {sc.cmd.account})
    <2>1. CASE sc.cmd.type = "NewOrder" /\ RiskResult(s, sc.cmd) = "Ok"
      <3>1. sc.cmd.account \in Accounts
        BY <2>1 DEF RiskResult
      <3>2. IsBook(out.book, Accounts \cup {sc.cmd.account})
        BY <1>3, <2>1, HandleNewOrder DEF out
      <3>3. IsBook(out.book, Accounts)
        BY <3>1, <3>2 DEF IsBook
      <3>4. ASSUME NEW a \in Accounts, account[a].frozen = TRUE, IsBook(book[s], Accounts \ {a})
            PROVE  IsBook(out.book, Accounts \ {a})
        <4>1. sc.cmd.account # a
          BY <2>1, <3>4, FrozenRejected, Zenon
        <4>2. IsBook(out.book, (Accounts \ {a}) \cup {sc.cmd.account})
          BY <2>1, <3>4, HandleNewOrder DEF out
        <4> QED BY <3>1, <4>1, <4>2 DEF IsBook
      <3> QED BY <2>1, <3>3, <3>4, Zenon
    <2>2. CASE sc.cmd.type = "NewOrder" /\ RiskResult(s, sc.cmd) # "Ok"
      <3>1. out.book = book[s]
        BY <1>3, <2>2, HandleNewOrder, Zenon DEF out
      <3> QED BY <1>3, <2>2, <3>1
    <2>3. CASE sc.cmd.type = "Cancel"
      <3>1. ASSUME NEW X, IsBook(book[s], X) PROVE IsBook(out.book, X)
        BY <2>3, <3>1, HandleCancel DEF out
      <3> QED BY <1>3, <2>3, <3>1
    <2>4. CASE sc.cmd.type = "Liquidate"
      <3>1. ASSUME NEW X, IsBook(book[s], X) PROVE IsBook(out.book, X \ {sc.cmd.account})
        BY <2>4, <3>1, HandleLiquidate DEF out
      <3>2. ASSUME NEW X, IsBook(book[s], X) PROVE IsBook(out.book, X)
        BY <3>1, <3>2 DEF IsBook
      <3> QED BY <1>3, <3>1, <3>2
    <2> QED BY <1>2, <2>1, <2>2, <2>3, <2>4, Zenon
  <1>5. \A k \in Symbols : IsBook(book'[k], Accounts)
    BY <1>1, <1>3, <1>4
  <1>8. book'[s] = out.book
    BY <1>1, <1>3
  <1>9. account' = account
    BY <1>1
  <1>6. ASSUME NEW k \in Symbols, NEW a \in Accounts, <<k, a>> \in liquidated'
        PROVE  account'[a].frozen = TRUE /\ IsBook(book'[k], Accounts \ {a})
    <2>1. CASE <<k, a>> \in liquidated
      <3>1. account[a].frozen = TRUE /\ IsBook(book[k], Accounts \ {a})
        BY <1>3, <2>1
      <3>2. CASE k = s
        <4>1. IsBook(out.book, Accounts \ {a})
          BY <1>4, <3>1, <3>2
        <4> QED BY <1>8, <1>9, <3>1, <3>2, <4>1
      <3>3. CASE k # s
        BY <1>1, <1>3, <3>1, <3>3
      <3> QED BY <3>2, <3>3, Zenon
    <2>2. CASE <<k, a>> \notin liquidated
      <3>1. sc.cmd.type = "Liquidate" /\ k = s /\ a = sc.cmd.account
        BY <1>1, <1>6, <2>2
      <3>2. account[a].frozen = TRUE
        BY <1>2, <3>1 DEF CommandOK
      <3>3. IsBook(out.book, Accounts \ {a})
        BY <1>4, <3>1
      <3> QED BY <1>8, <1>9, <3>1, <3>2, <3>3
    <2> QED BY <2>1, <2>2, Zenon
  <1>7. DOMAIN book' = Symbols
    BY <1>1, <1>3
  <1> QED BY <1>5, <1>6, <1>7, Zenon DEF BookInv

\* No account liquidated in a book has an order in it.
LEMMA NextBook ==
  ASSUME LoopInv, [Next]_vars
  PROVE  BookInv'
  <1>0. \A a \in Accounts : account[a].frozen = TRUE => account'[a].frozen = TRUE
    BY NextAccount, Zenon
  <1>1. CASE \E s \in Symbols : EngineHandle(s)
    BY <1>1, HandleBook
  <1>2. CASE UNCHANGED <<book, liquidated>>
    BY <1>0, <1>2 DEF LoopInv, BookInv
  <1>3. (\E s \in Symbols : EngineHandle(s)) \/ UNCHANGED <<book, liquidated>>
    BY Zenon DEF Next, Threads, SeqStep, EngineStep, ShardStep, SeqDispatch, SeqRoute, SeqFinish,
           SubscriberPop, PublishToRisk, AppendEvent, PublishOut, BridgePop, ShardProcess,
           ShardEmit, vars, engine_vars
  <1> QED BY <1>1, <1>2, <1>3

\* A queue without its head, or with another item in its place.
LEMMA QueueHead ==
  ASSUME NEW f, IsQueue(f), f # <<>>
  PROVE  /\ IsItem(Head(f)) /\ IsQueue(Tail(f))
         /\ \A t : IsItem(t) => IsQueue(<<t>> \o Tail(f))
  <1>1. IsSeq(Tail(f)) /\ Head(f) \in Range(f) /\ Range(Tail(f)) \subseteq Range(f)
    BY HeadTail DEF IsQueue
  <1>2. ASSUME NEW t, IsItem(t) PROVE IsQueue(<<t>> \o Tail(f))
    <2>1. IsSeq(<<t>>) /\ Range(<<t>>) = {t}
      BY Single
    <2>2. IsSeq(<<t>> \o Tail(f)) /\ Range(<<t>> \o Tail(f)) \subseteq {t} \cup Range(Tail(f))
      BY <1>1, <2>1, Concatenated
    <2> QED BY <1>1, <1>2, <2>2 DEF IsQueue
  <1> QED BY <1>1, <1>2 DEF IsQueue

\* publish_and_log appends before it pushes, and pushes nothing that the log
\* refused.
LEMMA NextLog ==
  ASSUME LoopInv, [Next]_vars
  PROVE  LogInv'
  <1>0. /\ DOMAIN pending = Symbols /\ \A s \in Symbols : IsQueue(pending[s])
        /\ DOMAIN outbound = Symbols /\ \A s \in Symbols : AllLogged(outbound[s])
    BY DEF LoopInv, LogInv
  <1>1. ASSUME NEW s \in Symbols, NEW f, IsQueue(f), pending' = [pending EXCEPT ![s] = f],
               UNCHANGED outbound
        PROVE  LogInv'
    BY <1>0, <1>1 DEF LogInv
  <1>2. ASSUME NEW s \in Symbols, EngineHandle(s)
        PROVE  LogInv'
    <2> DEFINE sc == Head(inbound[s])
    <2>1. /\ inbound[s] # <<>> /\ pending' = [pending EXCEPT ![s] = Outcome(s, sc).items]
          /\ UNCHANGED outbound
      BY <1>2 DEF EngineHandle
    <2>2. sc.cmd.type \in {"NewOrder", "Cancel", "Liquidate"}
      <3>1. Sequenced(inbound[s]) /\ Routed(inbound[s])
        BY DEF LoopInv, InboundInv
      <3>2. sc \in Range(inbound[s])
        BY <2>1, <3>1, HeadTail DEF Sequenced
      <3> QED BY <3>1, <3>2 DEF Routed
    <2>3. IsBook(book[s], Accounts)
      BY DEF LoopInv, BookInv
    <2> HIDE DEF sc
    <2>4. IsQueue(Outcome(s, sc).items)
      BY <2>2, <2>3, HandleNewOrder, HandleCancel, HandleLiquidate, Zenon
    <2> QED BY <1>1, <2>1, <2>4, Zenon
  <1>3. ASSUME NEW s \in Symbols, PublishToRisk(s)
        PROVE  LogInv'
    <2> DEFINE t == [Head(pending[s]) EXCEPT !.stage = "log"]
               f == IF map_engine_event(Head(pending[s]).ev) = {} THEN Tail(pending[s])
                    ELSE <<t>> \o Tail(pending[s])
    <2>1. /\ pending[s] # <<>> /\ pending' = [pending EXCEPT ![s] = f] /\ UNCHANGED outbound
      BY <1>3 DEF PublishToRisk, Advance
    <2>2. IsItem(Head(pending[s]))
      BY <1>0, <2>1, QueueHead
    <2>3. IsItem(t)
      BY <2>2 DEF IsItem
    <2> HIDE DEF t
    <2>4. IsQueue(f)
      BY <1>0, <2>1, <2>3, QueueHead
    <2> HIDE DEF f
    <2> QED BY <1>1, <2>1, <2>4, Zenon
  <1>4. ASSUME NEW s \in Symbols, AppendEvent(s)
        PROVE  LogInv'
    <2> DEFINE t == [Head(pending[s]) EXCEPT !.stage = "out", !.logged = TRUE]
    <2>1. /\ pending[s] # <<>> /\ UNCHANGED outbound
          /\ \/ pending' = [pending EXCEPT ![s] = <<t>> \o Tail(pending[s])]
             \/ pending' = [pending EXCEPT ![s] = Tail(pending[s])]
      BY <1>4 DEF AppendEvent, AfterFailedAppend
    <2>2. IsItem(Head(pending[s]))
      BY <1>0, <2>1, QueueHead
    <2>3. IsItem(t)
      BY <2>2 DEF IsItem
    <2> HIDE DEF t
    <2>4. IsQueue(Tail(pending[s])) /\ IsQueue(<<t>> \o Tail(pending[s]))
      BY <1>0, <2>1, <2>3, QueueHead
    <2> QED BY <1>1, <2>1, <2>4, Zenon
  <1>5. ASSUME NEW s \in Symbols, PublishOut(s)
        PROVE  LogInv'
    <2> DEFINE b == Head(pending[s]).logged
    <2>1. /\ pending[s] # <<>> /\ Head(pending[s]).stage = "out"
          /\ pending' = [pending EXCEPT ![s] = Tail(pending[s])]
          /\ outbound' = [outbound EXCEPT ![s] = IF Len(outbound[s]) < OutboundCap
                                                   THEN Append(outbound[s], b) ELSE outbound[s]]
      BY <1>5 DEF PublishOut
    <2>2. IsItem(Head(pending[s])) /\ IsQueue(Tail(pending[s]))
      BY <1>0, <2>1, QueueHead
    <2>3. b = TRUE
      BY <2>1, <2>2 DEF IsItem
    <2> HIDE DEF b
    <2>4. AllLogged(Append(outbound[s], b)) /\ AllLogged(outbound[s])
      <3>1. AllLogged(outbound[s]) /\ IsSeq(outbound[s])
        BY <1>0 DEF AllLogged
      <3>2. /\ IsSeq(Append(outbound[s], b))
            /\ Range(Append(outbound[s], b)) = Range(outbound[s]) \cup {b}
        BY <3>1, Appended
      <3> QED BY <2>3, <3>1, <3>2, Zenon DEF AllLogged
    <2>5. PICK g : /\ g = IF Len(outbound[s]) < OutboundCap THEN Append(outbound[s], b)
                          ELSE outbound[s]
                   /\ AllLogged(g)
      BY <2>4, Zenon
    <2>6. outbound' = [outbound EXCEPT ![s] = g]
      BY <2>1, <2>5
    <2> QED BY <1>0, <2>1, <2>2, <2>5, <2>6 DEF LogInv
  <1>6. ASSUME NEW s \in Symbols, BridgePop(s)
        PROVE  LogInv'
    <2>1. /\ outbound[s] # <<>> /\ outbound' = [outbound EXCEPT ![s] = Tail(outbound[s])]
          /\ UNCHANGED pending
      BY <1>6 DEF BridgePop
    <2>2. AllLogged(Tail(outbound[s]))
      BY <1>0, <2>1, HeadTail DEF AllLogged
    <2> QED BY <1>0, <2>1, <2>2 DEF LogInv
  <1>7. CASE UNCHANGED <<pending, outbound>>
    BY <1>0, <1>7 DEF LogInv
  <1>8. \/ \E s \in Symbols : EngineStep(s) \/ BridgePop(s)
        \/ UNCHANGED <<pending, outbound>>
    BY Zenon DEF Next, Threads, SeqStep, ShardStep, SeqDispatch, SeqRoute, SeqFinish, SubscriberPop,
           ShardProcess, ShardEmit, vars, engine_vars
  <1> QED BY <1>2, <1>3, <1>4, <1>5, <1>6, <1>7, <1>8 DEF EngineStep

\* The loop of threads keeps its invariant.
LEMMA LoopAlways == Spec => []LoopInv
  <1>1. LoopInv /\ [Next]_vars => LoopInv'
    <2> SUFFICES ASSUME LoopInv, [Next]_vars PROVE LoopInv'
      OBVIOUS
    <2>1. TurnsInv'
      BY NextTurns DEF LoopInv
    <2> QED BY <2>1, NextAccount, NextLanes, NextEmitting, NextSending, NextInbound, NextBook,
               NextLog, Zenon DEF LoopInv
  <1> QED BY <1>1, InitLoop, PTL DEF Spec

\* Once an engine has handled Liquidate for an account, the account never again
\* has a resting order there: the shard publishes the freeze before it emits
\* the Liquidate, no fill lifts it, and the engine's inline check sees it.
THEOREM LiquidatedAlwaysFlat == Spec => []LiquidatedStaysFlat
  <1>1. LoopInv => LiquidatedStaysFlat
    <2> SUFFICES ASSUME LoopInv, NEW s \in Symbols, NEW a \in Accounts, <<s, a>> \in liquidated,
                        NEW i \in DOMAIN book[s]
                 PROVE  book[s][i].account # a
      BY DEF LiquidatedStaysFlat
    <2>1. IsBook(book[s], Accounts \ {a})
      BY DEF LoopInv, BookInv
    <2>2. book[s][i] \in Range(book[s])
      BY DEF Range
    <2> QED BY <2>1, <2>2 DEF IsBook
  <1> QED BY <1>1, LoopAlways, PTL

\* No event is on its way to a client that is not in the event log, whatever
\* the log refuses and the full ring drops (publish_and_log).
THEOREM AlwaysPublishedWasLogged == Spec => []PublishedWasLogged
  <1>1. LoopInv => PublishedWasLogged
    <2> SUFFICES ASSUME LoopInv, NEW s \in Symbols, NEW i \in DOMAIN outbound[s]
                 PROVE  outbound[s][i]
      BY DEF PublishedWasLogged
    <2>1. AllLogged(outbound[s])
      BY DEF LoopInv, LogInv
    <2>2. outbound[s][i] \in Range(outbound[s])
      BY DEF Range
    <2> QED BY <2>1, <2>2 DEF AllLogged
  <1> QED BY <1>1, LoopAlways, PTL

(***************************************************************************)
(* Tier-0.                                                                 *)
(***************************************************************************)

\* Each of the five tests of tier-0 passes for an order it lets through.
LEMMA AllTestsPass ==
  ASSUME NEW acc, NEW limits, NEW price, NEW qty,
         check(acc, limits, price, qty) = "Ok"
  PROVE  /\ ~acc.frozen
         /\ ~(order_notional(price, qty) > limits.max_order_notional)
         /\ qty # 0 /\ ~(price <= 0)
         /\ ~(quot(saturating_mul(order_notional(price, qty), limits.initial_margin_fraction),
                   FracScale) > available_margin(acc))
  <1> DEFINE t1 == order_notional(price, qty) > limits.max_order_notional
             t2 == qty = 0
             t3 == price <= 0
             tests == << <<t1, "NotionalTooLarge">>, <<t2, "InvalidQty">>,
                         <<t3, "InvalidPrice">> >>
             static   == tier0_order_check(price, qty, limits)
             required == quot(saturating_mul(order_notional(price, qty),
                                             limits.initial_margin_fraction), FracScale)
             short    == required > available_margin(acc)
  <1>1. static = FirstFailed(tests)
    BY DEF tier0_order_check
  <1>2. check(acc, limits, price, qty) =
          IF acc.frozen THEN "AccountFrozen"
          ELSE IF static # "Ok" THEN static
          ELSE IF short THEN "InsufficientMargin" ELSE "Ok"
    BY DEF check
  <1> HIDE DEF t1, t2, t3, static, short
  <1>3. ~acc.frozen /\ static = "Ok" /\ ~short
    BY <1>2
  <1>4. DOMAIN tests = 1 .. 3
    OBVIOUS
  <1>5. \A i \in 1 .. 3 : tests[i][2] # "Ok"
    OBVIOUS
  <1>6. tests[1][1] = t1 /\ tests[2][1] = t2 /\ tests[3][1] = t3
    OBVIOUS
  <1> HIDE DEF tests
  <1>7. \A i \in 1 .. 3 : ~tests[i][1]
    <2>1. DOMAIN tests \in SUBSET Nat /\ FirstFailed(tests) = "Ok"
      BY <1>1, <1>3, <1>4
    <2> SUFFICES ASSUME NEW i \in DOMAIN tests PROVE ~tests[i][1]
      BY <1>4, Zenon
    <2> QED BY <1>4, <1>5, <2>1, FailedIsNotOk, Zenon
  <1>8. ~t1 /\ ~t2 /\ ~t3
    BY <1>6, <1>7
  <1> QED BY <1>3, <1>8 DEF t1, t2, t3, short

\* Division of naturals, by its remainder.
LEMMA QuotientWithin ==
  ASSUME NEW n \in Nat, NEW d \in Nat \ {0}
  PROVE  n \div d \in Nat /\ d * (n \div d) <= n /\ n < d * (n \div d) + d
  OBVIOUS

\* An order that tier-0 (check in tier0.rs) lets through is affordable in exact
\* arithmetic, for any account: neither the saturating products nor the
\* saturating difference turn a rejection into an acceptance, provided that the
\* quantity fits an i64, that the order limit is below i64::MAX / scale and that
\* the margin of an order at the limit fits.
THEOREM Tier0Sound ==
  ASSUME PriceScale \in Nat \ {0}, FracScale \in Nat \ {0}, IntMax \in Nat,
         NEW acc, acc.balance \in Int, acc.used_margin \in Int,
         NEW limits, limits.max_order_notional \in Nat, limits.initial_margin_fraction \in Nat,
         limits.max_order_notional < IntMax \div PriceScale,
         limits.max_order_notional * limits.initial_margin_fraction <= IntMax,
         NEW price \in Int, NEW qty \in 0 .. IntMax,
         check(acc, limits, price, qty) = "Ok"
  PROVE  /\ ~acc.frozen /\ price > 0 /\ qty > 0
         /\ price * qty < (limits.max_order_notional + 1) * PriceScale
         /\ quot(quot(price * qty, PriceScale) * limits.initial_margin_fraction, FracScale)
              <= acc.balance - acc.used_margin
  <1> DEFINE gross    == price * qty
             max      == limits.max_order_notional
             fraction == limits.initial_margin_fraction
             free     == acc.balance - acc.used_margin
             value    == gross \div PriceScale
             margin   == value * fraction
  <1>1. /\ ~acc.frozen
        /\ ~(order_notional(price, qty) > max)
        /\ qty # 0 /\ ~(price <= 0)
        /\ ~(quot(saturating_mul(order_notional(price, qty), fraction), FracScale)
               > available_margin(acc))
    BY AllTestsPass
  <1>2. price > 0 /\ qty > 0 /\ price \in Nat /\ qty \in Nat
    BY <1>1
  <1>3. gross \in Nat
    BY <1>2
  <1>4. as_i64(qty) = qty
    BY DEF as_i64
  <1>5. order_notional(price, qty) = quot(saturated(gross), PriceScale)
    BY <1>4 DEF order_notional, saturating_mul
  <1> HIDE DEF gross
  <1>6. gross <= IntMax
    <2> SUFFICES ASSUME gross > IntMax PROVE FALSE
      BY <1>3
    <2>1. order_notional(price, qty) = IntMax \div PriceScale
      BY <1>3, <1>5 DEF saturated, quot
    <2>2. IntMax \div PriceScale \in Nat
      BY QuotientWithin
    <2> QED BY <1>1, <2>1, <2>2
  <1>7. order_notional(price, qty) = value /\ quot(gross, PriceScale) = value
    BY <1>3, <1>5, <1>6 DEF saturated, quot
  <1>8. value \in Nat /\ PriceScale * value <= gross /\ gross < PriceScale * value + PriceScale
    BY <1>3, QuotientWithin
  <1> HIDE DEF value
  <1>9. value <= max
    BY <1>1, <1>7, <1>8
  <1>10. gross < (max + 1) * PriceScale
    <2>1. PriceScale * value <= PriceScale * max
      BY <1>8, <1>9
    <2>2. (max + 1) * PriceScale = PriceScale * max + PriceScale
      OBVIOUS
    <2>3. PriceScale * value \in Int /\ PriceScale * max \in Int
      BY <1>8
    <2> QED BY <1>3, <1>8, <2>1, <2>2, <2>3
  <1>11. margin \in Nat /\ margin <= IntMax
    <2>1. margin \in Nat /\ max * fraction \in Nat /\ margin <= max * fraction
      BY <1>8, <1>9
    <2> QED BY <2>1
  <1>12. saturating_mul(value, fraction) = margin
    BY <1>11 DEF saturating_mul, saturated
  <1> HIDE DEF margin
  <1>13. quot(margin, FracScale) = margin \div FracScale
    BY <1>11 DEF quot
  <1>14. margin \div FracScale \in Nat /\ margin \div FracScale <= IntMax
    <2>1. margin \div FracScale \in Nat /\ FracScale * (margin \div FracScale) <= margin
      BY <1>11, QuotientWithin
    <2>2. margin \div FracScale <= FracScale * (margin \div FracScale)
      BY <2>1
    <2> QED BY <1>11, <2>1, <2>2
  <1>15. free \in Int /\ available_margin(acc) = saturated(free)
    BY DEF available_margin
  <1> HIDE DEF free
  <1>16. margin \div FracScale <= saturated(free)
    BY <1>1, <1>7, <1>12, <1>13, <1>14, <1>15 DEF saturated
  <1>17. margin \div FracScale <= free
    BY <1>14, <1>15, <1>16 DEF saturated
  <1>18. quot(quot(gross, PriceScale) * fraction, FracScale) <= free
    BY <1>7, <1>13, <1>17 DEF margin
  <1> QED BY <1>1, <1>2, <1>10, <1>18 DEF gross, free
=============================================================================
