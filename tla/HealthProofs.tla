---------------------------- MODULE HealthProofs ----------------------------
(* Theorems about HealthProbe. *)
EXTENDS HealthProbe, QuotaProofs, SequenceTheorems

\* Counter and status of one state agree.
Sound(st) ==
    CASE st.status = "healthy"  -> st.consecutive_failures = 0
      [] st.status = "degraded" -> st.consecutive_failures \in 1..(DownAt - 1)
      [] st.status = "down"     -> st.consecutive_failures >= DownAt
      [] OTHER -> TRUE

SoundStates == {f \in [Keys -> HealthState] : \A k \in Keys : Sound(f[k])}

\* Whatever a ping or a skip writes over a state is a health state, and sound.
LEMMA ResultSound ==
  ASSUME NEW st \in HealthState
  PROVE  /\ Healthy(st) \in HealthState /\ Sound(Healthy(st))
         /\ Failing(st) \in HealthState /\ Sound(Failing(st))
         /\ Unknown(st) \in HealthState /\ Sound(Unknown(st))
<1>1. DownAt \in Nat \ {0} /\ MaxFails \in Nat /\ DownAt < MaxFails
  BY HealthAssumption DEF HealthAssumption
<1>2. Healthy(st) \in HealthState /\ Sound(Healthy(st))
  BY <1>1 DEF Healthy, HealthState, Sound
<1>3. Failing(st) \in HealthState /\ Sound(Failing(st))
  <2> DEFINE n == AtMost(st.consecutive_failures + 1)
  <2>1. n \in 1..MaxFails
    BY <1>1 DEF HealthState, AtMost
  <2> HIDE DEF n
  <2>2. CASE n < DownAt
    BY <1>1, <2>1, <2>2 DEF Failing, HealthState, Sound, n
  <2>3. CASE ~(n < DownAt)
    BY <1>1, <2>1, <2>3 DEF Failing, HealthState, Sound, n
  <2> QED
    BY <2>2, <2>3
<1>4. Unknown(st) \in HealthState /\ Unknown(st).status = "unknown"
  BY DEF Unknown, HealthState
<1>5. Sound(Unknown(st))
  BY <1>4 DEF Sound
<1> QED
  BY <1>2, <1>3, <1>4, <1>5

\* Passing keys over keeps the states sound.
LEMMA PassedOverSound ==
  ASSUME NEW list, NEW n, NEW sts \in SoundStates
  PROVE  PassedOver(list, n, sts) \in SoundStates
<1>1. \A k \in Keys : /\ sts[k] \in HealthState /\ Sound(sts[k])
                      /\ Unknown(sts[k]) \in HealthState /\ Sound(Unknown(sts[k]))
  BY ResultSound DEF SoundStates
<1>2. PassedOver(list, n, sts) \in [Keys -> HealthState]
  BY <1>1 DEF PassedOver
<1>3. \A k \in Keys : PassedOver(list, n, sts)[k] \in {sts[k], Unknown(sts[k])}
  BY DEF PassedOver
<1> QED
  BY <1>1, <1>2, <1>3 DEF SoundStates

\* A walk over the rest of a list keeps the types of what it writes.
LEMMA GoEffect ==
  ASSUME NEW p \in Passes, NEW list \in Seq(Keys), NEW sts \in SoundStates,
         pass \in [Passes -> Pass \cup {Resting}], Go(p, list, sts)
  PROVE  /\ states' \in SoundStates
         /\ pass' \in [Passes -> Pass \cup {Resting}]
<1>1. CASE WalkRaises(p, list, sts)
  BY <1>1, PassedOverSound DEF WalkRaises
<1>2. ASSUME Walk(p, list, sts)
      PROVE  states' \in SoundStates /\ pass' \in [Passes -> Pass \cup {Resting}]
  <2>1. PICK n \in 0..Len(list) :
          /\ states' = PassedOver(list, n, sts)
          /\ \/ n = Len(list) /\ pass' = [pass EXCEPT ![p] = Resting]
             \/ /\ n < Len(list)
                /\ pass' = [pass EXCEPT ![p] =
                     [at |-> "ping", key |-> list[n + 1], sentUp |-> list[n + 1] \in up,
                      rest |-> SubSeq(list, n + 2, Len(list))]]
    BY <1>2 DEF Walk
  <2>2. states' \in SoundStates
    BY <2>1, PassedOverSound
  <2>3. CASE pass' = [pass EXCEPT ![p] = Resting]
    BY <2>2, <2>3
  <2>4. ASSUME n < Len(list)
        PROVE  [at |-> "ping", key |-> list[n + 1], sentUp |-> list[n + 1] \in up,
                rest |-> SubSeq(list, n + 2, Len(list))] \in Pass
    <3>1. Len(list) \in Nat /\ n + 1 \in 1..Len(list) /\ n + 2 \in 1..(Len(list) + 1)
      BY <2>4
    <3>2. list[n + 1] \in Keys
      BY <3>1, ElementOfSeq
    <3>3. SubSeq(list, n + 2, Len(list)) \in Seq(Keys)
      BY <3>1, SubSeqProperties
    <3>4. (list[n + 1] \in up) \in BOOLEAN
      OBVIOUS
    <3> QED
      BY <3>2, <3>3, <3>4, Zenon DEF Pass
  <2> QED
    BY <2>1, <2>2, <2>3, <2>4
<1> QED
  BY <1>1, <1>2 DEF Go

\* The invariant: types, and the soundness of every state
HealthInv == HealthTypeOK /\ states \in SoundStates

\* No step of a pass, of a provider or of a reload breaks it.
LEMMA HealthStep == HealthInv /\ [HealthNext]_healthVars => HealthInv'
<1> SUFFICES ASSUME HealthInv, [HealthNext]_healthVars PROVE HealthInv'
  OBVIOUS
<1>0. /\ QuotaTypeOK /\ looping \in BOOLEAN /\ keys \in KeyLists /\ firstOf \in FirstModels /\ up \subseteq Keys
      /\ states \in SoundStates /\ states \in [Keys -> HealthState]
      /\ pass \in [Passes -> Pass \cup {Resting}] /\ keys \in Seq(Keys)
  BY HealthAssumption DEF HealthInv, HealthTypeOK, HealthAssumption
<1>1. ASSUME NEW p \in Passes, NEW list \in Seq(Keys), NEW sts \in SoundStates, Go(p, list, sts)
      PROVE  HealthInv'
  <2>1. states' \in SoundStates /\ pass' \in [Passes -> Pass \cup {Resting}]
    BY <1>0, <1>1, GoEffect
  <2>2. UNCHANGED <<now, events, lastId, looping, keys, firstOf, up>>
    BY <1>1 DEF Go
  <2> QED
    BY <1>0, <2>1, <2>2 DEF HealthInv, HealthTypeOK, QuotaTypeOK, SoundStates
<1>2. ASSUME NEW p \in Passes, StartPass(p) PROVE HealthInv'
  BY <1>0, <1>1, <1>2 DEF StartPass
<1>3. ASSUME NEW p \in Passes, PingReturns(p) PROVE HealthInv'
  <2>1. pass[p] \in Pass
    BY <1>0, <1>3 DEF PingReturns
  <2>2. pass[p].rest \in Seq(Keys)
    BY <2>1 DEF Pass
  <2>3. PICK ok : Go(p, pass[p].rest,
            [states EXCEPT ![pass[p].key] = IF ok THEN Healthy(@) ELSE Failing(@)])
    BY <1>3 DEF PingReturns
  <2> DEFINE sts == [states EXCEPT ![pass[p].key] = IF ok THEN Healthy(@) ELSE Failing(@)]
  <2>4. sts \in SoundStates
    <3>1. pass[p].key \in Keys
      BY <2>1 DEF Pass
    <3>2. \A k \in Keys : states[k] \in HealthState /\ Sound(states[k])
      BY <1>0 DEF SoundStates
    <3>3. \A k \in Keys : sts[k] \in {states[k], Healthy(states[k]), Failing(states[k])}
      BY <1>0, <3>1
    <3>4. \A k \in Keys : sts[k] \in HealthState /\ Sound(sts[k])
      BY <3>2, <3>3, ResultSound
    <3>5. sts \in [Keys -> HealthState]
      BY <1>0, <3>1, <3>2, ResultSound
    <3> QED
      BY <3>4, <3>5 DEF SoundStates
  <2> HIDE DEF sts
  <2> QED
    BY <1>1, <2>2, <2>3, <2>4 DEF sts
<1>4. ASSUME NEW k \in Keys, ProviderFlips(k) PROVE HealthInv'
  BY <1>0, <1>4 DEF ProviderFlips, HealthInv, HealthTypeOK, QuotaTypeOK, SoundStates
<1>8. CASE Stop
  BY <1>0, <1>8 DEF Stop, Passes, HealthInv, HealthTypeOK, QuotaTypeOK, SoundStates
<1>5. CASE HealthReload
  BY <1>0, <1>5 DEF HealthReload, HealthInv, HealthTypeOK, QuotaTypeOK, SoundStates
<1>6. CASE OtherUse
  <2>1. QuotaTypeOK'
    BY <1>0, <1>6 DEF OtherUse, RecordRequest, RequestRow, Row, Tick, QuotaTypeOK
  <2> QED
    BY <1>0, <1>6, <2>1 DEF OtherUse, HealthInv, HealthTypeOK, SoundStates
<1>7. CASE UNCHANGED healthVars
  BY <1>0, <1>7 DEF healthVars, HealthInv, HealthTypeOK, QuotaTypeOK, SoundStates
<1> QED
  BY <1>2, <1>3, <1>4, <1>5, <1>6, <1>7, <1>8 DEF HealthNext

\* HealthInv holds in every reachable state.
LEMMA HealthInvariant == HealthSpec => []HealthInv
<1>1. HealthInit => HealthInv
  <2> SUFFICES ASSUME HealthInit PROVE HealthInv
    OBVIOUS
  <2>1. NoState \in HealthState /\ Sound(NoState)
    BY HealthAssumption DEF NoState, HealthState, Sound, HealthAssumption
  <2>2. states = [k \in Keys |-> NoState]
    BY DEF HealthInit
  <2>3. states \in SoundStates /\ states \in [Keys -> HealthState]
    BY <2>1, <2>2 DEF SoundStates
  <2>4. pass \in [Passes -> Pass \cup {Resting}]
    BY DEF HealthInit
  <2> QED
    BY <2>3, <2>4 DEF HealthInit, QuotaInit, QuotaTypeOK, HealthInv, HealthTypeOK
<1> QED
  BY <1>1, HealthStep, PTL DEF HealthSpec

\* Every reachable state of the probe is type-correct, for all keys and lists.
THEOREM HealthTypeCorrect == HealthSpec => []HealthTypeOK
BY HealthInvariant, PTL DEF HealthInv

\* Status and counter agree however many passes overlap and in whatever order
\* their results come back.
THEOREM StatusIsSound == HealthSpec => []StatusSound
<1>1. HealthInv => StatusSound
  BY DEF HealthInv, StatusSound, SoundStates, Sound
<1> QED
  BY <1>1, HealthInvariant, PTL
=============================================================================
