------------------------- MODULE RedisControlsProofs -------------------------
(* Proofs that hold for every number of calls, scopes and limits, and for    *)
(* every calendar whose windows are no longer than their counters live.      *)
EXTENDS RedisControls, FiniteSetTheorems, TLAPS

LEMMA ClockType ==
  /\ Second \in Nat \ {0}
  /\ \A t \in Times : t \in Nat
  /\ \A s \in Scopes : Life(s) \in Nat \ {0}
  <1>1. ASSUME NEW s \in Scopes PROVE Second * PeriodOf[s] \in Nat \ {0}
    <2>1. PeriodOf[s] \in Nat \ {0} /\ Second \in Nat \ {0}
      BY ControlsAssumption
    <2> QED BY <2>1
  <1> QED BY <1>1, ControlsAssumption DEF Life

LEMMA KeyType ==
  ASSUME NEW k \in CounterKey
  PROVE  /\ k[1] \in Scopes /\ k[2] \in Nat \ {0}
         /\ k = <<k[1], k[2]>>
         /\ LimitOf[k[1]] \in Nat
  <1>1. PICK s \in Scopes, t \in Times : k = <<s, WindowEnd[s][t]>>
    BY DEF CounterKey
  <1>2. WindowEnd[s][t] \in Nat \ {0} /\ LimitOf[s] \in Nat
    BY ClockType, ControlsAssumption
  <1> QED BY <1>1, <1>2

LEMMA CountType ==
  ASSUME NEW k
  PROVE  /\ IsFiniteSet(Timely(k)) /\ Cardinality(Timely(k)) \in Nat
         /\ IsFiniteSet(Taken(k)) /\ Cardinality(Taken(k)) \in Nat
  <1>1. Timely(k) \subseteq Calls /\ Taken(k) \subseteq Calls
    BY DEF Timely, Taken
  <1>2. IsFiniteSet(Timely(k)) /\ IsFiniteSet(Taken(k))
    BY <1>1, FS_Subset, ControlsAssumption
  <1> QED BY <1>2, FS_CardinalityType

LEMMA InitControls == ControlsInit => ControlsInv
  <1> SUFFICES ASSUME ControlsInit PROVE ControlsInv
    OBVIOUS
  <1> USE DEF ControlsInit
  <1>1. ControlsTypeOK
    BY ControlsAssumption DEF ControlsTypeOK, CallState, Counter
  <1>2. \A k : Timely(k) = {}
    BY DEF Timely
  <1>3. CountersCount /\ WindowsNear /\ RefusedWhenSpent
    <2>1. \A c \in Calls : Life(ScopeOf[c]) \in Nat
      BY ClockType, ControlsAssumption
    <2> QED BY <1>2, <2>1 DEF CountersCount, WindowsNear, RefusedWhenSpent
  <1>4. CountersEarned
    BY DEF CountersEarned, Alive
  <1>5. BudgetsGivenBack
    BY KeyType DEF BudgetsGivenBack
  <1>6. WithinLimit
    <2> SUFFICES ASSUME NEW k \in CounterKey
                 PROVE  Cardinality(Timely(k)) <= LimitOf[k[1]]
      BY DEF WithinLimit
    <2>1. Cardinality(Timely(k)) = 0
      BY <1>2, FS_EmptySet
    <2> QED BY <2>1, KeyType
  <1> QED BY <1>1, <1>3, <1>4, <1>5, <1>6 DEF ControlsInv

\* A step that neither gives nor takes a unit changes no count.
LEMMA SameCounts ==
  ASSUME ControlsInv, NEW c \in Calls, NEW state, NEW window,
         calls[c].taken = "none",
         calls' = [calls EXCEPT ![c] = [@ EXCEPT !.state = state, !.window = window]]
  PROVE  \A k : Timely(k)' = Timely(k) /\ Taken(k)' = Taken(k)
  <1>1. \A d \in Calls : calls'[d].taken = calls[d].taken
    BY DEF ControlsInv, ControlsTypeOK
  <1>2. \A d \in Calls : calls[d].taken # "none" => Key(d)' = Key(d)
    BY DEF ControlsInv, ControlsTypeOK, Key
  <1> QED BY <1>1, <1>2 DEF Timely, Taken

LEMMA FormatControls ==
  ASSUME ControlsInv, NEW c \in Calls, Format(c)
  PROVE  ControlsInv'
  <1> DEFINE s == ScopeOf[c]
             w == WindowEnd[s][now]
  <1> USE DEF ControlsInv
  <1>1. s \in Scopes /\ now \in Times /\ now \in Nat
    BY ClockType, ControlsAssumption DEF ControlsTypeOK
  <1>2. w \in Nat /\ w <= now + Life(s) /\ <<s, w>> \in CounterKey
    BY <1>1, ClockType, ControlsAssumption DEF CounterKey
  <1>3. calls' = [calls EXCEPT ![c] = [@ EXCEPT !.state = "sent", !.window = w]]
        /\ now' = now /\ counters' = counters /\ calls[c].taken = "none"
    BY DEF Format, ControlsTypeOK
  <1> HIDE DEF s, w
  <1>4. \A k : Timely(k)' = Timely(k) /\ Taken(k)' = Taken(k)
    BY <1>3, SameCounts
  <1>5. ControlsTypeOK'
    BY <1>2, <1>3 DEF ControlsTypeOK, CallState, s
  <1>6. WindowsNear'
    BY <1>2, <1>3 DEF WindowsNear, ControlsTypeOK, s
  <1>7. (CountersCount /\ CountersEarned /\ BudgetsGivenBack /\ WithinLimit)'
    BY <1>3, <1>4 DEF CountersCount, CountersEarned, BudgetsGivenBack, WithinLimit, Alive
  <1>8. RefusedWhenSpent'
    BY <1>3, <1>4 DEF RefusedWhenSpent, ControlsTypeOK, Key
  <1> QED BY <1>5, <1>6, <1>7, <1>8

LEMMA UnreachableControls ==
  ASSUME ControlsInv, NEW c \in Calls, Unreachable(c)
  PROVE  ControlsInv'
  <1> USE DEF ControlsInv
  <1>1. calls' = [calls EXCEPT ![c] =
            [@ EXCEPT !.state = "unavailable", !.window = calls[c].window]]
        /\ now' = now /\ counters' = counters /\ calls[c].taken = "none"
    BY DEF Unreachable, ControlsTypeOK
  <1>2. \A k : Timely(k)' = Timely(k) /\ Taken(k)' = Taken(k)
    BY <1>1, SameCounts
  <1>3. ControlsTypeOK'
    BY DEF Unreachable, ControlsTypeOK, CallState
  <1>4. WindowsNear'
    BY <1>1 DEF WindowsNear, ControlsTypeOK
  <1>5. (CountersCount /\ CountersEarned /\ BudgetsGivenBack /\ WithinLimit)'
    BY <1>1, <1>2 DEF CountersCount, CountersEarned, BudgetsGivenBack, WithinLimit, Alive
  <1>6. RefusedWhenSpent'
    BY <1>1, <1>2 DEF RefusedWhenSpent, ControlsTypeOK, Key
  <1> QED BY <1>3, <1>4, <1>5, <1>6

LEMMA TickControls ==
  ASSUME ControlsInv, Tick
  PROVE  ControlsInv'
  <1> USE DEF ControlsInv, Tick
  <1>1. \A k : Timely(k)' = Timely(k) /\ Taken(k)' = Taken(k)
    BY DEF Timely, Taken, Key
  <1>2. now' \in Times /\ now \in Nat /\ now' \in Nat /\ now < now'
    BY ClockType DEF ControlsTypeOK
  <1>3. ControlsTypeOK'
    BY <1>2 DEF ControlsTypeOK
  <1>4. WindowsNear'
    <2>1. \A d \in Calls : Life(ScopeOf[d]) \in Nat /\ calls[d].window \in Nat
      BY ClockType, ControlsAssumption DEF ControlsTypeOK
    <2> QED BY <1>2, <2>1 DEF WindowsNear
  <1>5. CountersCount'
    BY <1>1, <1>2, KeyType DEF CountersCount
  <1>6. CountersEarned'
    BY <1>1, <1>2 DEF CountersEarned, Alive, ControlsTypeOK, Counter
  <1>7. (BudgetsGivenBack /\ WithinLimit /\ RefusedWhenSpent)'
    BY <1>1 DEF BudgetsGivenBack, WithinLimit, RefusedWhenSpent, Key
  <1> QED BY <1>3, <1>4, <1>5, <1>6, <1>7

\* The script, whether or not its reply arrives.
LEMMA ScriptControls ==
  ASSUME ControlsInv, NEW c \in Calls, calls[c].state = "sent",
         NEW k, k = Key(c), Script(k), now' = now,
         NEW state \in {"admitted", "refused", "unavailable"},
         state = "admitted" => Admits(k),
         state = "refused" => ~Admits(k),
         calls' = [calls EXCEPT ![c] = [@ EXCEPT !.state = state, !.taken = Unit(c)]]
  PROVE  ControlsInv'
  <1> DEFINE L == LimitOf[k[1]]
             P == Life(k[1])
  <1> USE DEF ControlsInv
  <1>1. /\ k \in CounterKey /\ k[1] \in Scopes /\ L \in Nat
        /\ P \in Nat \ {0} /\ k[1] = ScopeOf[c]
        /\ k[2] = calls[c].window /\ k[2] \in Nat /\ k[2] <= now + P
    BY KeyType, ClockType, ControlsAssumption DEF ControlsTypeOK, Key, WindowsNear
  <1>2. /\ now \in Nat
        /\ counters[k].value \in Nat /\ counters[k].expires \in Nat
        /\ Current(k) \in Nat \ {0}
        /\ calls[c].taken = "none"
    <2>1. counters[k] \in Counter
      BY <1>1 DEF ControlsTypeOK
    <2>2. counters[k].value \in Nat /\ counters[k].expires \in Nat
      BY <2>1 DEF Counter
    <2>3. now \in Nat
      BY ClockType DEF ControlsTypeOK
    <2>4. Current(k) \in Nat \ {0}
      BY <2>2 DEF Current
    <2>5. calls[c].taken = "none"
      BY DEF ControlsTypeOK
    <2> QED BY <2>2, <2>3, <2>4, <2>5
  <1>3. /\ counters' = [counters EXCEPT ![k] = [value |-> Left(k), expires |-> Expiry(k)]]
        /\ Left(k) \in Nat /\ Expiry(k) \in Nat
        /\ \A j \in CounterKey : j # k => counters'[j] = counters[j]
        /\ counters'[k].value = Left(k) /\ counters'[k].expires = Expiry(k)
    BY <1>1, <1>2 DEF Script, Left, Expiry, ControlsTypeOK
  <1>4. /\ \A d \in Calls : Key(d)' = Key(d)
        /\ \A d \in Calls : d # c => calls'[d] = calls[d]
        /\ calls'[c].taken = Unit(c) /\ calls'[c].state = state
        /\ calls'[c].window = calls[c].window
    BY DEF Key, ControlsTypeOK
  <1>5. Unit(c) \in {"none", "timely", "late"} /\ (Unit(c) = "none" <=> ~Admits(k))
        /\ (Unit(c) = "timely" => Admits(k) /\ now < k[2])
        /\ (now < k[2] => Unit(c) # "late")
    BY <1>1 DEF Unit
  <1>6. \A j : j # k => Timely(j)' = Timely(j) /\ Taken(j)' = Taken(j)
    BY <1>4 DEF Timely, Taken
  <1>7. /\ Timely(k)' = IF Unit(c) = "timely" THEN Timely(k) \cup {c} ELSE Timely(k)
        /\ Taken(k)' = IF Unit(c) # "none" THEN Taken(k) \cup {c} ELSE Taken(k)
        /\ c \notin Timely(k) /\ c \notin Taken(k)
    BY <1>2, <1>4 DEF Timely, Taken
  <1>8. /\ Cardinality(Timely(k)') =
              IF Unit(c) = "timely" THEN Cardinality(Timely(k)) + 1
              ELSE Cardinality(Timely(k))
        /\ Cardinality(Taken(k)') =
              IF Unit(c) # "none" THEN Cardinality(Taken(k)) + 1
              ELSE Cardinality(Taken(k))
        /\ Cardinality(Timely(k)) \in Nat /\ Cardinality(Taken(k)) \in Nat
    <2>1. \A S : IsFiniteSet(S) /\ c \notin S =>
                Cardinality(S \cup {c}) = Cardinality(S) + 1
      BY FS_AddElement
    <2> QED BY <1>7, <2>1, CountType
  <1>0. Timely(k) = {} => Cardinality(Timely(k)) = 0
    BY FS_EmptySet
  <1>9. Admits(k) <=> Current(k) <= L
    BY DEF Admits
  <1>10. ControlsTypeOK'
    <2>1. calls' \in [Calls -> [state : CallState, window : Nat,
                                taken : {"none", "timely", "late"}]]
      BY <1>5 DEF ControlsTypeOK, CallState
    <2>2. counters' \in [CounterKey -> Counter]
      BY <1>1, <1>3 DEF ControlsTypeOK, Counter
    <2> QED BY <1>4, <1>5, <2>1, <2>2 DEF ControlsTypeOK
  <1>11. WindowsNear'
    BY <1>4 DEF WindowsNear
  <1> HIDE DEF L, P
  <1>12. CountersCount'
    <2> SUFFICES ASSUME NEW j \in CounterKey, now < j[2]
                 PROVE  \/ counters'[j].expires = 0 /\ Timely(j)' = {}
                        \/ /\ counters'[j].expires >= j[2]
                           /\ Cardinality(Timely(j)') <= counters'[j].value
      BY DEF CountersCount
    <2>1. CASE j # k
      BY <1>3, <1>6, <2>1 DEF CountersCount
    <2>2. CASE j = k
      <3>1. Cardinality(Timely(k)) <= Current(k) - 1
        BY <1>0, <1>1, <1>2, <1>8, <2>2 DEF CountersCount, Current, Alive
      <3>2. Expiry(k) >= k[2]
        <4>1. CASE Current(k) = 1
          BY <1>1, <4>1 DEF Expiry, P
        <4>2. CASE Current(k) # 1
          BY <1>1, <1>2, <2>2, <4>2 DEF Expiry, Current, Alive, CountersCount
        <4> QED BY <4>1, <4>2
      <3>3. Cardinality(Timely(k)') <= Left(k)
        BY <1>2, <1>5, <1>8, <3>1 DEF Left
      <3> QED BY <1>3, <2>2, <3>2, <3>3
    <2> QED BY <2>1, <2>2
  <1>13. CountersEarned'
    <2> SUFFICES ASSUME NEW j \in CounterKey, Alive(j)'
                 PROVE  \/ counters'[j].value <= Cardinality(Taken(j)')
                        \/ LimitOf[j[1]] <= Cardinality(Taken(j)')
      BY DEF CountersEarned
    <2>1. CASE j # k
      BY <1>3, <1>6, <2>1 DEF CountersEarned, Alive
    <2>2. CASE j = k
      <3>1. \/ Current(k) <= Cardinality(Taken(k)) + 1
            \/ L <= Cardinality(Taken(k))
        BY <1>1, <1>2, <1>8 DEF CountersEarned, Current, L
      <3>2. \/ Left(k) <= Cardinality(Taken(k)')
            \/ L <= Cardinality(Taken(k)')
        BY <1>1, <1>2, <1>5, <1>8, <1>9, <3>1 DEF Left
      <3> QED BY <1>3, <2>2, <3>2 DEF L
    <2> QED BY <2>1, <2>2
  <1>14. BudgetsGivenBack'
    <2> SUFFICES ASSUME NEW j \in CounterKey, j[1] \in Budgets
                 PROVE  counters'[j].value <= LimitOf[j[1]]
      BY DEF BudgetsGivenBack
    <2>1. CASE j # k
      BY <1>3, <2>1 DEF BudgetsGivenBack
    <2>2. CASE j = k
      <3>1. Current(k) - 1 <= L
        BY <1>1, <1>2, <2>2 DEF BudgetsGivenBack, Current, L
      <3>2. Left(k) <= L
        BY <1>1, <1>2, <1>9, <2>2, <3>1 DEF Left
      <3> QED BY <1>3, <2>2, <3>2 DEF L
    <2> QED BY <2>1, <2>2
  <1>15. WithinLimit'
    <2> SUFFICES ASSUME NEW j \in CounterKey
                 PROVE  Cardinality(Timely(j)') <= LimitOf[j[1]]
      BY DEF WithinLimit
    <2>1. CASE j # k \/ Unit(c) # "timely"
      BY <1>6, <1>7, <2>1 DEF WithinLimit
    <2>2. CASE j = k /\ Unit(c) = "timely"
      <3>1. Cardinality(Timely(k)) <= Current(k) - 1
        BY <1>0, <1>1, <1>2, <1>5, <1>8, <2>2
        DEF CountersCount, Current, Alive
      <3>2. Cardinality(Timely(k)') <= L
        BY <1>1, <1>2, <1>5, <1>8, <1>9, <2>2, <3>1
      <3> QED BY <2>2, <3>2 DEF L
    <2> QED BY <2>1, <2>2
  <1>16. RefusedWhenSpent'
    <2> SUFFICES ASSUME NEW d \in Calls, calls'[d].state = "refused",
                        NEW j, j = Key(d)
                 PROVE  LimitOf[ScopeOf[d]] <= Cardinality(Taken(j)')
      BY <1>4 DEF RefusedWhenSpent, Taken
    <2>1. LimitOf[ScopeOf[d]] \in Nat
      BY ControlsAssumption
    <2>2. CASE d # c
      <3>1. LimitOf[ScopeOf[d]] <= Cardinality(Taken(j))
        BY <1>4, <2>2 DEF RefusedWhenSpent
      <3>2. CASE j = k
        BY <1>8, <2>1, <3>1, <3>2
      <3>3. CASE j # k
        BY <1>6, <3>1, <3>3
      <3> QED BY <3>2, <3>3
    <2>3. CASE d = c
      <3>1. j = k /\ ~Admits(k) /\ Unit(c) = "none"
        BY <1>4, <1>5, <2>3
      <3>2. L <= Cardinality(Taken(k))
        BY <1>1, <1>2, <1>8, <1>9, <3>1 DEF CountersEarned, Current, L
      <3>3. L = LimitOf[ScopeOf[d]]
        BY <1>1, <2>3 DEF L
      <3> QED BY <1>8, <3>1, <3>2, <3>3
    <2> QED BY <2>2, <2>3
  <1> QED BY <1>10, <1>11, <1>12, <1>13, <1>14, <1>15, <1>16

LEMMA StepControls == ControlsInv /\ [ControlsNext]_controls => ControlsInv'
  <1> SUFFICES ASSUME ControlsInv, [ControlsNext]_controls
               PROVE  ControlsInv'
    OBVIOUS
  <1>1. ASSUME NEW c \in Calls, Format(c)
        PROVE  ControlsInv'
    BY <1>1, FormatControls
  <1>2. ASSUME NEW c \in Calls, Reply(c)
        PROVE  ControlsInv'
    <2> DEFINE state == IF Admits(Key(c)) THEN "admitted" ELSE "refused"
    <2>1. state \in {"admitted", "refused", "unavailable"}
          /\ (state = "admitted" => Admits(Key(c)))
          /\ (state = "refused" => ~Admits(Key(c)))
      OBVIOUS
    <2>2. calls' = [calls EXCEPT ![c] = [@ EXCEPT !.state = state, !.taken = Unit(c)]]
          /\ calls[c].state = "sent" /\ Script(Key(c)) /\ now' = now
      BY <1>2 DEF Reply
    <2> HIDE DEF state
    <2> QED BY <2>1, <2>2, ScriptControls
  <1>3. ASSUME NEW c \in Calls, LoseReply(c)
        PROVE  ControlsInv'
    <2>1. calls' = [calls EXCEPT ![c] =
                [@ EXCEPT !.state = "unavailable", !.taken = Unit(c)]]
          /\ calls[c].state = "sent" /\ Script(Key(c)) /\ now' = now
      BY <1>3 DEF LoseReply
    <2> QED BY <2>1, ScriptControls
  <1>4. ASSUME NEW c \in Calls, Unreachable(c)
        PROVE  ControlsInv'
    BY <1>4, UnreachableControls
  <1>5. ASSUME Tick PROVE ControlsInv'
    BY <1>5, TickControls
  <1>6. ASSUME UNCHANGED controls PROVE ControlsInv'
    BY <1>6 DEF controls, ControlsInv, ControlsTypeOK, WindowsNear, CountersCount,
        CountersEarned, BudgetsGivenBack, WithinLimit, RefusedWhenSpent, Timely,
        Taken, Key, Alive
  <1> QED BY <1>1, <1>2, <1>3, <1>4, <1>5, <1>6 DEF ControlsNext

\* The counters count what they are meant to: the inductive invariant.
THEOREM ControlsInvariant == ControlsSpec => []ControlsInv
  BY InitControls, StepControls, PTL DEF ControlsSpec

\* In one window no more calls get through than the limit, and nobody is refused
\* before the limit is used up, for any number of concurrent calls.
THEOREM LimitsExact == ControlsSpec => [](WithinLimit /\ RefusedWhenSpent)
  <1>1. ControlsInv => WithinLimit /\ RefusedWhenSpent
    BY DEF ControlsInv
  <1> QED BY <1>1, ControlsInvariant, PTL

\* What rounding to the nearest multiple loses is less than half of one.
LEMMA Rounded ==
  ASSUME NEW x \in Nat, NEW s \in Nat \ {0}
  PROVE  LET q == (x + s \div 2) \div s IN
         q \in Nat /\ 2 * x < 2 * (s * q) + s
  <1>1. PICK h \in Nat : h = s \div 2 /\ s <= 2 * h + 1
    OBVIOUS
  <1>2. PICK y \in Nat : y = x + h
    OBVIOUS
  <1>3. PICK q \in Nat : q = y \div s /\ y < s * q + s
    OBVIOUS
  <1>4. PICK m \in Nat : m = s * q
    BY <1>3
  <1>5. 2 * x < 2 * m + s
    BY <1>1, <1>2, <1>3, <1>4
  <1> QED BY <1>1, <1>2, <1>3, <1>4, <1>5

\* What a refusal tells the caller.
LEMMA RefusalHelps ==
  ASSUME ControlsInv, NEW c \in Calls, Reply(c)
  PROVE  2 * calls[c].window < 2 * (now + Second * RetryAfter(Key(c))') + Second
  <1> DEFINE k == Key(c)
             P == Life(k[1])
  <1>1. /\ k \in CounterKey /\ P \in Nat \ {0} /\ k[1] = ScopeOf[c]
        /\ k[2] = calls[c].window /\ k[2] \in Nat /\ k[2] <= now + P /\ now \in Nat
    BY KeyType, ClockType, ControlsAssumption
        DEF Reply, ControlsInv, ControlsTypeOK, Key, WindowsNear
  <1>2. counters[k].expires \in Nat
    <2>1. counters[k] \in Counter
      BY <1>1 DEF ControlsInv, ControlsTypeOK
    <2> QED BY <2>1 DEF Counter
  <1>3. Key(c)' = k /\ now' = now /\ counters'[k].expires = Expiry(k)
    BY <1>1 DEF Reply, Script, Key, ControlsInv, ControlsTypeOK
  <1> HIDE DEF k, P
  <1>4. Expiry(k) \in Nat /\ now < Expiry(k) /\ (now < k[2] => k[2] <= Expiry(k))
    <2>1. CASE Current(k) = 1
      BY <1>1, <2>1 DEF Expiry, P
    <2>2. CASE Current(k) # 1
      <3>1. Expiry(k) = counters[k].expires /\ counters[k].expires > now
        BY <2>2 DEF Expiry, Current, Alive
      <3> QED BY <1>1, <1>2, <3>1 DEF ControlsInv, CountersCount
    <2> QED BY <2>1, <2>2
  <1>5. PICK left \in Nat : left = Expiry(k) - now
    BY <1>1, <1>4
  <1>6. PICK ttl \in Nat :
            ttl = TTL(Key(c))' /\ 2 * left < 2 * (Second * ttl) + Second
    <2>1. TTL(Key(c))' = (left + Second \div 2) \div Second
      BY <1>3, <1>5 DEF TTL
    <2> QED BY <1>5, <2>1, ClockType, Rounded
  <1>7. RetryAfter(Key(c))' = IF ttl > 1 THEN ttl ELSE 1
    BY <1>3, <1>6 DEF RetryAfter
  <1>8. PICK wait \in Nat : wait = Second * RetryAfter(Key(c))' /\ Second * ttl <= wait
    <2>1. Second \in Nat /\ Second * 0 = 0 /\ Second * 1 = Second /\ Second * ttl \in Nat
      BY ClockType
    <2> QED BY <1>7, <2>1
  <1>9. 2 * k[2] < 2 * (now + wait) + Second
    <2>1. PICK rest \in Nat : rest = Second * ttl
      BY ClockType
    <2>2. k[2] <= now + left
      BY <1>1, <1>4, <1>5
    <2> QED BY <1>1, <1>6, <1>8, <2>1, <2>2, ClockType
  <1> QED BY <1>1, <1>8, <1>9

\* A caller who waits as long as Retry-After says comes back in a later window, or
\* less than half a second before its end, whatever the limits and periods are.
THEOREM WaitingHelps == ControlsSpec => RetryHelps
  <1>1. ControlsInv /\ [ControlsNext]_controls =>
            [\A c \in Calls : calls[c].state = "sent" /\ calls'[c].state = "refused" =>
                2 * calls[c].window
                    < 2 * (now + Second * RetryAfter(Key(c))') + Second]_controls
    <2> SUFFICES ASSUME ControlsInv, ControlsNext,
                        NEW c \in Calls, calls[c].state = "sent",
                        calls'[c].state = "refused"
                 PROVE  2 * calls[c].window
                            < 2 * (now + Second * RetryAfter(Key(c))') + Second
      OBVIOUS
    <2>1. Reply(c)
      BY DEF ControlsNext, Format, LoseReply, Unreachable, Reply, Tick, ControlsInv,
          ControlsTypeOK
    <2> QED BY <2>1, RefusalHelps
  <1> QED BY <1>1, ControlsInvariant, PTL DEF ControlsSpec, RetryHelps
=============================================================================
