------------------------- MODULE WifiManager_proofs -------------------------
(* Theorems about WifiManager, for every number of networks, length of the  *)
(* saved list, limit of retries and number of calls.                        *)
EXTENDS WifiManager, SequenceTheorems, TLAPS

-----------------------------------------------------------------------------
(* Lists of networks *)

\* What a list of Lists is.
LEMMA ListFacts ==
  ASSUME NEW list \in Lists
  PROVE  /\ list \in Seq(Nets)
         /\ Len(list) \in 0 .. MaxSaved
         /\ \A i, j \in 1 .. Len(list) : list[i] = list[j] => i = j
<1>1. PICK n \in 0 .. MaxSaved : list \in [1 .. n -> Nets]
  BY DEF Lists
<1>2. n \in Nat /\ MaxSaved \in Nat
  BY BoundsAssumption
<1>3. list \in Seq(Nets) /\ Len(list) = n /\ DOMAIN list = 1 .. n
  BY <1>1, <1>2
<1>4. \A i, j \in DOMAIN list : list[i] = list[j] => i = j
  BY DEF Lists
<1> QED
  BY <1>3, <1>4

\* How a sequence is shown to be one.
LEMMA ListIntro ==
  ASSUME NEW list \in Seq(Nets), Len(list) <= MaxSaved,
         \A i, j \in 1 .. Len(list) : list[i] = list[j] => i = j
  PROVE  list \in Lists
<1>1. Len(list) \in 0 .. MaxSaved
  BY BoundsAssumption
<1>2. DOMAIN list = 1 .. Len(list) /\ list \in [1 .. Len(list) -> Nets]
  OBVIOUS
<1>3. list \in UNION {[1 .. n -> Nets] : n \in 0 .. MaxSaved}
  BY <1>1, <1>2
<1> QED
  BY <1>2, <1>3 DEF Lists

\* Place is an index of the sweep.
LEMMA PlaceType ==
  ASSUME NEW list \in Lists, NEW n
  PROVE  Place(list, n) \in 1 .. MaxSaved
<1>1. /\ list \in Seq(Nets) /\ Len(list) \in 0 .. MaxSaved
      /\ MaxSaved \in Nat \ {0}
  BY ListFacts, BoundsAssumption
<1>2. CASE n \in Elements(list)
  <2>1. PICK i \in 1 .. Len(list) : list[i] = n
    BY <1>2 DEF Elements
  <2>2. (CHOOSE k \in 1 .. Len(list) : list[k] = n) \in 1 .. Len(list)
    BY <2>1
  <2>3. Place(list, n) \in 1 .. Len(list)
    BY <1>2, <2>2 DEF Place
  <2> QED
    BY <1>1, <2>3
<1>3. CASE n \notin Elements(list)
  BY <1>1, <1>3 DEF Place
<1> QED
  BY <1>2, <1>3

\* A sequence with a new element at its end.
LEMMA AppendNew ==
  ASSUME NEW s \in Seq(Nets), NEW n \in Nets,
         \A i, j \in 1 .. Len(s) : s[i] = s[j] => i = j,
         \A i \in 1 .. Len(s) : s[i] # n
  PROVE  /\ Append(s, n) \in Seq(Nets)
         /\ Len(Append(s, n)) = Len(s) + 1
         /\ \A i, j \in 1 .. Len(Append(s, n)) :
              Append(s, n)[i] = Append(s, n)[j] => i = j
<1> DEFINE t == Append(s, n)
<1>1. t \in Seq(Nets) /\ Len(t) = Len(s) + 1 /\ Len(s) \in Nat
  OBVIOUS
<1>2. \A i \in 1 .. Len(s) : t[i] = s[i]
  OBVIOUS
<1>3. t[Len(s) + 1] = n
  OBVIOUS
<1> HIDE DEF t
<1>4. ASSUME NEW i \in 1 .. Len(t), NEW j \in 1 .. Len(t), t[i] = t[j]
      PROVE  i = j
  <2>1. CASE i = Len(s) + 1 /\ j # Len(s) + 1
    <3>1. j \in 1 .. Len(s)
      BY <1>1, <2>1
    <3> QED
      BY <1>2, <1>3, <1>4, <2>1, <3>1
  <2>2. CASE i # Len(s) + 1 /\ j = Len(s) + 1
    <3>1. i \in 1 .. Len(s)
      BY <1>1, <2>2
    <3> QED
      BY <1>2, <1>3, <1>4, <2>2, <3>1
  <2>3. CASE i # Len(s) + 1 /\ j # Len(s) + 1
    <3>1. i \in 1 .. Len(s) /\ j \in 1 .. Len(s)
      BY <1>1, <2>3
    <3>2. s[i] = s[j]
      BY <1>2, <1>4, <3>1
    <3> QED
      BY <3>1, <3>2
  <2> QED
    BY <2>1, <2>2, <2>3
<1> QED
  BY <1>1, <1>4 DEF t

\* creds_update() keeps a list a list, and drops none of its rows.
LEMMA WithNetType ==
  ASSUME NEW list \in Lists, NEW n \in Nets
  PROVE  WithNet(list, n) \in Lists /\ Len(WithNet(list, n)) >= Len(list)
<1>1. /\ list \in Seq(Nets) /\ Len(list) \in 0 .. MaxSaved
      /\ \A i, j \in 1 .. Len(list) : list[i] = list[j] => i = j
      /\ MaxSaved \in Nat \ {0}
  BY ListFacts, BoundsAssumption
<1>2. CASE n \in Elements(list)
  BY <1>1, <1>2 DEF WithNet
<1>3. CASE n \notin Elements(list) /\ Len(list) < MaxSaved
  <2>1. WithNet(list, n) = Append(list, n)
    BY <1>3 DEF WithNet
  <2>2. \A i \in 1 .. Len(list) : list[i] # n
    BY <1>3 DEF Elements
  <2>3. /\ Append(list, n) \in Seq(Nets)
        /\ Len(Append(list, n)) = Len(list) + 1
        /\ \A i, j \in 1 .. Len(Append(list, n)) :
             Append(list, n)[i] = Append(list, n)[j] => i = j
    BY <1>1, <2>2, AppendNew
  <2>4. Len(Append(list, n)) <= MaxSaved
    BY <1>1, <1>3, <2>3
  <2>5. Append(list, n) \in Lists
    BY <2>3, <2>4, ListIntro
  <2> QED
    BY <1>1, <2>1, <2>3, <2>5
<1>4. CASE n \notin Elements(list) /\ ~(Len(list) < MaxSaved)
  <2> DEFINE rest == Tail(list)
  <2>1. WithNet(list, n) = Append(rest, n)
    BY <1>4 DEF WithNet
  <2>2. \A i \in 1 .. Len(list) : list[i] # n
    BY <1>4 DEF Elements
  <2>3. Len(list) = MaxSaved /\ list # <<>>
    BY <1>1, <1>4
  <2>4. /\ rest \in Seq(Nets) /\ Len(rest) = Len(list) - 1
        /\ \A i \in 1 .. Len(list) - 1 : rest[i] = list[i + 1]
    BY <1>1, <2>3
  <2>5. /\ \A i, j \in 1 .. Len(rest) : rest[i] = rest[j] => i = j
        /\ \A i \in 1 .. Len(rest) : rest[i] # n
    <3>1. \A i \in 1 .. Len(rest) :
            i + 1 \in 1 .. Len(list) /\ rest[i] = list[i + 1]
      BY <1>1, <2>4
    <3>2. ASSUME NEW i \in 1 .. Len(rest), NEW j \in 1 .. Len(rest),
                 rest[i] = rest[j]
          PROVE  i = j
      <4>1. /\ list[i + 1] = list[j + 1]
            /\ i + 1 \in 1 .. Len(list) /\ j + 1 \in 1 .. Len(list)
        BY <3>1, <3>2
      <4>2. i + 1 = j + 1
        BY <1>1, <4>1
      <4> QED
        BY <4>2, <2>4, <1>1
    <3> QED
      BY <3>1, <3>2, <2>2
  <2> HIDE DEF rest
  <2>6. /\ Append(rest, n) \in Seq(Nets)
        /\ Len(Append(rest, n)) = Len(rest) + 1
        /\ \A i, j \in 1 .. Len(Append(rest, n)) :
             Append(rest, n)[i] = Append(rest, n)[j] => i = j
    BY <2>4, <2>5, AppendNew
  <2>7. Len(Append(rest, n)) = Len(list) /\ Len(Append(rest, n)) <= MaxSaved
    BY <1>1, <2>3, <2>4, <2>6
  <2>8. Append(rest, n) \in Lists
    BY <2>6, <2>7, ListIntro
  <2> QED
    BY <1>1, <2>1, <2>7, <2>8
<1> QED
  BY <1>2, <1>3, <1>4

\* wifi_manager_forget() keeps a list a list.
LEMMA ForgottenType ==
  ASSUME NEW list \in Lists, NEW i \in 1 .. Len(list)
  PROVE  SubSeq(list, 1, i - 1) \o SubSeq(list, i + 1, Len(list)) \in Lists
<1> DEFINE rest == SubSeq(list, 1, i - 1) \o SubSeq(list, i + 1, Len(list))
<1>1. /\ list \in Seq(Nets) /\ Len(list) \in 0 .. MaxSaved
      /\ \A j, k \in 1 .. Len(list) : list[j] = list[k] => j = k
      /\ MaxSaved \in Nat \ {0}
  BY ListFacts, BoundsAssumption
<1> DEFINE front == SubSeq(list, 1, i - 1)
           back  == SubSeq(list, i + 1, Len(list))
<1>2. /\ front \in Seq(Nets) /\ Len(front) = i - 1
      /\ \A j \in 1 .. i - 1 : front[j] = list[j]
  BY <1>1
<1>3. /\ back \in Seq(Nets) /\ Len(back) = Len(list) - i
      /\ \A j \in 1 .. Len(list) - i : back[j] = list[i + j]
  BY <1>1
<1>r. rest = front \o back
  OBVIOUS
<1> HIDE DEF rest, front, back
<1>4. rest \in Seq(Nets) /\ Len(rest) = Len(list) - 1
  <2>1. front \in Seq(Nets) /\ back \in Seq(Nets)
    BY <1>2, <1>3
  <2>2. /\ front \o back \in Seq(Nets)
        /\ Len(front \o back) = Len(front) + Len(back)
    BY <2>1
  <2>3. Len(front) = i - 1 /\ Len(back) = Len(list) - i
    BY <1>2, <1>3
  <2> QED
    BY <1>1, <1>r, <2>2, <2>3
<1>5. ASSUME NEW j \in 1 .. Len(rest)
      PROVE  \/ j < i /\ rest[j] = list[j]
             \/ j >= i /\ rest[j] = list[j + 1]
  <2>1. CASE j < i
    <3>1. j \in 1 .. Len(front)
      BY <1>1, <1>2, <1>4, <2>1
    <3>2. rest[j] = front[j]
      BY <1>2, <1>3, <1>r, <3>1
    <3> QED
      BY <1>1, <1>2, <2>1, <3>1, <3>2
  <2>2. CASE ~(j < i)
    <3>1. j - (i - 1) \in 1 .. Len(list) - i /\ i + (j - (i - 1)) = j + 1
      BY <1>1, <1>4, <2>2
    <3>2. rest[j] = back[j - (i - 1)]
      BY <1>1, <1>2, <1>3, <1>4, <1>r, <2>2
    <3>3. rest[j] = list[j + 1]
      BY <1>3, <3>1, <3>2
    <3> QED
      BY <1>1, <1>4, <2>2, <3>3
  <2> QED
    BY <2>1, <2>2
<1>6. \A j, k \in 1 .. Len(rest) : rest[j] = rest[k] => j = k
  <2> SUFFICES ASSUME NEW j \in 1 .. Len(rest), NEW k \in 1 .. Len(rest),
                      rest[j] = rest[k]
               PROVE  j = k
    OBVIOUS
  <2> DEFINE at(m) == IF m < i THEN m ELSE m + 1
  <2>1. at(j) \in 1 .. Len(list) /\ at(k) \in 1 .. Len(list)
    BY <1>1, <1>4
  <2>2. rest[j] = list[at(j)] /\ rest[k] = list[at(k)]
    BY <1>1, <1>4, <1>5
  <2>3. at(j) = at(k)
    BY <1>1, <2>1, <2>2
  <2> QED
    BY <1>1, <1>4, <2>3
<1>7. rest \in Lists
  BY <1>1, <1>4, <1>6, ListIntro
<1> QED
  BY <1>7 DEF rest
-----------------------------------------------------------------------------
(* NVS is current *)

\* The invariant says it all: whoever changes the list is about to store it.
LEMMA NvsStep ==
  NvsIsCurrent /\ [Next]_vars => NvsIsCurrent'
<1> SUFFICES ASSUME NvsIsCurrent, [Next]_vars
             PROVE  NvsIsCurrent'
  OBVIOUS
<1> USE DEF NvsIsCurrent, nvsVars
<1>1. CASE Driver
  BY <1>1 DEF Driver, credVars, uiVars
<1>2. CASE Reboot
  BY <1>2 DEF Reboot, Boot, Idle
<1>3. CASE StaStart /\ UNCHANGED uiVars
  BY <1>3 DEF StaStart, credVars, uiVars, Handle
<1>4. CASE Dropped /\ UNCHANGED uiVars
  BY <1>4 DEF Dropped, credVars, uiVars, Handle
<1>5. CASE Switched /\ UNCHANGED uiVars
  BY <1>5 DEF Switched, credVars, uiVars, Handle
<1>6. CASE Retry /\ UNCHANGED uiVars
  BY <1>6 DEF Retry, credVars, uiVars, Failure, Handle
<1>7. CASE UnsavedFails /\ UNCHANGED uiVars
  BY <1>7 DEF UnsavedFails, uiVars, Failure, Handle
<1>8. CASE NextNetwork /\ UNCHANGED uiVars
  BY <1>8 DEF NextNetwork, uiVars, Failure, Handle
<1>9. CASE GiveUp /\ UNCHANGED uiVars
  BY <1>9 DEF GiveUp, credVars, uiVars, Failure, Handle
<1>10. CASE ScanDone /\ UNCHANGED uiVars
  BY <1>10 DEF ScanDone, credVars, uiVars, Handle
<1>11. CASE GotIp /\ UNCHANGED uiVars
  BY <1>11 DEF GotIp, uiVars, Handle
<1>12. CASE HandlerConnects /\ UNCHANGED uiVars
  BY <1>12 DEF HandlerConnects, credVars, uiVars
<1>13. CASE HandlerStores /\ UNCHANGED uiVars
  BY <1>13 DEF HandlerStores, credVars, uiVars, StoreList, StoreFails
<1>14. CASE Remember /\ UNCHANGED uiVars
  BY <1>14 DEF Remember, uiVars
<1>15. CASE Reanchor /\ UNCHANGED uiVars
  BY <1>15 DEF Reanchor, credVars, uiVars
<1>16. CASE RadioOn
  BY <1>16 DEF RadioOn, credVars, Call, Idle
<1>17. CASE RadioOff
  BY <1>17 DEF RadioOff, Call, Idle, At
<1>18. CASE ConnectBegins
  BY <1>18 DEF ConnectBegins, credVars, Call, Idle
<1>19. CASE Forget
  BY <1>19 DEF Forget, Call, Idle
<1>20. CASE Disconnect
  BY <1>20 DEF Disconnect, Call, Idle
<1>21. CASE Scan
  BY <1>21 DEF Scan, credVars, Call, Idle, At
<1>22. CASE PollResult
  BY <1>22 DEF PollResult, credVars, Idle
<1>23. CASE RadioStops
  BY <1>23 DEF RadioStops, credVars, Idle
<1>24. CASE Choose
  BY <1>24 DEF Choose
<1>25. CASE KeepLink
  BY <1>25 DEF KeepLink, Idle
<1>26. CASE StopAttempt
  BY <1>26 DEF StopAttempt, credVars, Idle
<1>27. CASE ApplyNet
  BY <1>27 DEF ApplyNet, credVars, Idle, At
<1>28. CASE SwitchNet
  BY <1>28 DEF SwitchNet, credVars, Idle
<1>29. CASE ConnectNet
  BY <1>29 DEF ConnectNet, credVars, Idle
<1>30. CASE ForgetStores
  BY <1>30 DEF ForgetStores, credVars, Idle, At, StoreList, StoreFails
<1>31. CASE ForgetClears
  BY <1>31 DEF ForgetClears, Idle
<1>32. CASE ScanFlag
  BY <1>32 DEF ScanFlag, credVars, At
<1>33. CASE ScanStarts
  BY <1>33 DEF ScanStarts, credVars, Idle
<1>34. CASE UNCHANGED vars
  BY <1>34 DEF vars, credVars, uiVars
<1> QED
  BY <1>1, <1>2, <1>3, <1>4, <1>5, <1>6, <1>7, <1>8, <1>9, <1>10, <1>11,
     <1>12, <1>13, <1>14, <1>15, <1>16, <1>17, <1>18, <1>19, <1>20, <1>21,
     <1>22, <1>23, <1>24, <1>25, <1>26, <1>27, <1>28, <1>29, <1>30, <1>31,
     <1>32, <1>33, <1>34
  DEF Next, Handler, Lvgl, CallStep

\* wifi_manager.c creds_store(): NVS holds the list in RAM unless a task is
\* about to store it or NVS refused to.
THEOREM NvsCurrent == Spec => []NvsIsCurrent
<1>1. Init => NvsIsCurrent
  BY DEF Init, NvsIsCurrent
<1> QED
  BY <1>1, NvsStep, PTL DEF Spec
-----------------------------------------------------------------------------
(* The saved list *)

\* What keeps SavedListSound: only a network is ever about to be added, and a
\* call is always at some step.
AttemptIsNet ==
  /\ pending \in NetOrNone
  /\ lv.at = "choose" /\ lv.new => lv.net \in Nets
  /\ "at" \in DOMAIN lv

\* The inductive invariant.
ListInv == SavedListSound /\ AttemptIsNet

\* Only creds_update() and wifi_manager_forget() change the list.
LEMMA ListStep ==
  ListInv /\ [Next]_vars => ListInv'
<1> SUFFICES ASSUME ListInv, [Next]_vars
             PROVE  ListInv'
  OBVIOUS
<1> USE DEF ListInv, SavedListSound, AttemptIsNet, NetOrNone
<1>1. CASE Driver
  BY <1>1 DEF Driver, credVars, nvsVars, uiVars
<1>2. CASE Reboot
  BY <1>2 DEF Reboot, Boot, Idle
<1>3. CASE StaStart /\ UNCHANGED uiVars
  BY <1>3 DEF StaStart, credVars, nvsVars, uiVars
<1>4. CASE Dropped /\ UNCHANGED uiVars
  BY <1>4 DEF Dropped, credVars, nvsVars, uiVars
<1>5. CASE Switched /\ UNCHANGED uiVars
  BY <1>5 DEF Switched, credVars, nvsVars, uiVars
<1>6. CASE Retry /\ UNCHANGED uiVars
  BY <1>6 DEF Retry, credVars, nvsVars, uiVars
<1>7. CASE UnsavedFails /\ UNCHANGED uiVars
  BY <1>7 DEF UnsavedFails, nvsVars, uiVars
<1>8. CASE NextNetwork /\ UNCHANGED uiVars
  BY <1>8 DEF NextNetwork, nvsVars, uiVars
<1>9. CASE GiveUp /\ UNCHANGED uiVars
  BY <1>9 DEF GiveUp, credVars, nvsVars, uiVars
<1>10. CASE ScanDone /\ UNCHANGED uiVars
  BY <1>10 DEF ScanDone, credVars, nvsVars, uiVars
<1>11. CASE GotIp /\ UNCHANGED uiVars
  <2>1. CASE UNCHANGED creds
    BY <1>11, <2>1 DEF GotIp, nvsVars, uiVars
  <2>2. CASE pending # None /\ creds' = WithNet(creds, pending)
    <3>1. WithNet(creds, pending) \in Lists
          /\ Len(WithNet(creds, pending)) >= Len(creds)
      BY <2>2, WithNetType
    <3>2. Len(creds') \in Nat /\ Len(creds) \in Nat
      BY <2>2, <3>1, ListFacts
    <3>3. UNCHANGED <<nvs, lv, pending>>
      BY <1>11 DEF GotIp, nvsVars, uiVars
    <3> QED
      BY <2>2, <3>1, <3>2, <3>3
  <2> QED
    BY <1>11, <2>1, <2>2 DEF GotIp
<1>12. CASE HandlerConnects /\ UNCHANGED uiVars
  BY <1>12 DEF HandlerConnects, credVars, nvsVars, uiVars
<1>13. CASE HandlerStores /\ UNCHANGED uiVars
  BY <1>13 DEF HandlerStores, StoreList, StoreFails, credVars, nvsVars, uiVars
<1>14. CASE Remember /\ UNCHANGED uiVars
  BY <1>14 DEF Remember, uiVars
<1>15. CASE Reanchor /\ UNCHANGED uiVars
  BY <1>15 DEF Reanchor, credVars, nvsVars, uiVars
<1>16. CASE RadioOn
  BY <1>16 DEF RadioOn, Call, Idle, credVars, nvsVars, uiVars
<1>17. CASE RadioOff
  BY <1>17 DEF RadioOff, Call, At, Idle, nvsVars, uiVars
<1>18. CASE ConnectBegins
  <2>1. UNCHANGED <<creds, nvs, pending>>
    BY <1>18 DEF ConnectBegins, credVars, nvsVars
  <2>2. "at" \in DOMAIN lv'
    BY <1>18 DEF ConnectBegins, Idle
  <2>3. \/ lv'.at = "choose" /\ lv'.new /\ lv'.net \in Nets
        \/ lv'.at = "choose" /\ ~lv'.new /\ lv'.row \in 1 .. Len(creds)
    BY <1>18 DEF ConnectBegins, Idle
  <2> QED
    BY <2>1, <2>2, <2>3
<1>19. CASE Forget
  <2>1. PICK i \in 1 .. Len(creds) :
          /\ creds' = SubSeq(creds, 1, i - 1)
                      \o SubSeq(creds, i + 1, Len(creds))
          /\ pending' \in {None, pending}
          /\ lv'.at = "store" /\ "at" \in DOMAIN lv'
    BY <1>19 DEF Forget, Idle
  <2>2. creds' \in Lists
    BY <2>1, ForgottenType
  <2> QED
    BY <1>19, <2>1, <2>2 DEF Forget, nvsVars
<1>20. CASE Disconnect
  BY <1>20 DEF Disconnect, Call, Idle, nvsVars, uiVars
<1>21. CASE Scan
  BY <1>21 DEF Scan, Call, At, Idle, credVars, nvsVars, uiVars
<1>22. CASE PollResult
  BY <1>22 DEF PollResult, Idle, credVars, nvsVars, uiVars
<1>23. CASE RadioStops
  BY <1>23 DEF RadioStops, Idle, credVars, nvsVars, uiVars
<1>24. CASE Choose
  BY <1>24 DEF Choose, Chosen, nvsVars, uiVars
<1>25. CASE KeepLink
  BY <1>25 DEF KeepLink, Idle, nvsVars, uiVars
<1>26. CASE StopAttempt
  BY <1>26 DEF StopAttempt, Idle, credVars, nvsVars, uiVars
<1>27. CASE ApplyNet
  <2>1. lv' \in {Idle, At("switch"), At("connect")}
    BY <1>27 DEF ApplyNet
  <2>2. lv'.at # "choose" /\ "at" \in DOMAIN lv'
    BY <2>1 DEF At, Idle
  <2>3. UNCHANGED <<creds, nvs, pending>>
    BY <1>27 DEF ApplyNet, credVars, nvsVars
  <2> QED
    BY <2>2, <2>3
<1>28. CASE SwitchNet
  BY <1>28 DEF SwitchNet, Idle, credVars, nvsVars, uiVars
<1>29. CASE ConnectNet
  BY <1>29 DEF ConnectNet, Idle, credVars, nvsVars, uiVars
<1>30. CASE ForgetStores
  <2>1. lv' \in {Idle, At("clear")}
    BY <1>30 DEF ForgetStores
  <2>2. lv'.at # "choose" /\ "at" \in DOMAIN lv'
    BY <2>1 DEF At, Idle
  <2>3. nvs' \in {nvs, creds} /\ UNCHANGED <<creds, pending>>
    BY <1>30 DEF ForgetStores, StoreList, StoreFails, credVars
  <2> QED
    BY <2>2, <2>3
<1>31. CASE ForgetClears
  BY <1>31 DEF ForgetClears, Idle
<1>32. CASE ScanFlag
  BY <1>32 DEF ScanFlag, At, credVars, nvsVars, uiVars
<1>33. CASE ScanStarts
  BY <1>33 DEF ScanStarts, Idle, credVars, nvsVars, uiVars
<1>34. CASE UNCHANGED vars
  BY <1>34 DEF vars, credVars, nvsVars, uiVars
<1> QED
  BY <1>1, <1>2, <1>3, <1>4, <1>5, <1>6, <1>7, <1>8, <1>9, <1>10, <1>11,
     <1>12, <1>13, <1>14, <1>15, <1>16, <1>17, <1>18, <1>19, <1>20, <1>21,
     <1>22, <1>23, <1>24, <1>25, <1>26, <1>27, <1>28, <1>29, <1>30, <1>31,
     <1>32, <1>33, <1>34
  DEF Next, Handler, Lvgl, CallStep

\* The saved list of a started system.
LEMMA ListInit == Init => ListInv
BY BoundsAssumption
DEF Init, Idle, ListInv, SavedListSound, AttemptIsNet, NetOrNone

\* wifi_manager.c creds_update(), wifi_manager_forget(): the saved list stays
\* within its array and names no network twice, and a row chosen on the page is
\* still there when wifi_manager_connect_saved() reads it.
THEOREM SavedListIsSound == Spec => []SavedListSound
<1>1. Init => ListInv
  BY ListInit
<1>2. ListInv => SavedListSound
  BY DEF ListInv
<1> QED
  BY <1>1, <1>2, ListStep, PTL DEF Spec

-----------------------------------------------------------------------------
(* The events on their way *)

\* An event of this kind is on its way to the event task.
Pending(kind) == \E i \in 1 .. Len(events) : events[i].kind = kind

Kinds == {"STA_START", "DISCONNECTED", "SCAN_DONE", "GOT_IP"}

\* No kind twice; an address is told before the end of the link it is of; the
\* driver that starts has nothing else to tell.
QueueInv ==
  /\ \A i, j \in 1 .. Len(events) : events[i].kind = events[j].kind => i = j
  /\ \A i, j \in 1 .. Len(events) :
       events[i].kind = "GOT_IP" /\ events[j].kind = "DISCONNECTED" => i < j
  /\ Pending("STA_START") => Len(events) = 1

\* An event is posted.
LEMMA Posted ==
  ASSUME events \in Seq(Events), NEW e \in Events, events' = Append(events, e)
  PROVE  /\ events' \in Seq(Events)
         /\ \A k \in Kinds : Pending(k)' <=> Pending(k) \/ k = e.kind
         /\ /\ QueueInv /\ ~Pending(e.kind) /\ ~Pending("STA_START")
            /\ e.kind = "GOT_IP" => ~Pending("DISCONNECTED")
            /\ e.kind = "STA_START" => events = << >>
            => QueueInv'
<1>1. /\ events' \in Seq(Events) /\ Len(events) \in Nat
      /\ Len(events') = Len(events) + 1
      /\ \A i \in 1 .. Len(events) : events'[i] = events[i]
      /\ events'[Len(events) + 1] = e
  OBVIOUS
<1>2. ASSUME NEW k \in Kinds
      PROVE  Pending(k)' <=> Pending(k) \/ k = e.kind
  <2>1. Pending(k)' <=> \E i \in 1 .. Len(events) + 1 : events'[i].kind = k
    BY <1>1 DEF Pending
  <2>2. \A i \in 1 .. Len(events) + 1 : i \in 1 .. Len(events) \/ i = Len(events) + 1
    BY <1>1
  <2>3. /\ Len(events) + 1 \in 1 .. Len(events) + 1
        /\ \A i \in 1 .. Len(events) : i \in 1 .. Len(events) + 1
    BY <1>1
  <2>4. Pending(k)' => Pending(k) \/ k = e.kind
    BY <1>1, <2>1, <2>2 DEF Pending
  <2>5. Pending(k) => Pending(k)'
    BY <1>1, <2>1, <2>3 DEF Pending
  <2>6. k = e.kind => Pending(k)'
    BY <1>1, <2>1, <2>3
  <2> QED BY <2>4, <2>5, <2>6
<1>3. ASSUME QueueInv, ~Pending(e.kind), ~Pending("STA_START"),
             e.kind = "GOT_IP" => ~Pending("DISCONNECTED"),
             e.kind = "STA_START" => events = << >>
      PROVE  QueueInv'
  <2> DEFINE n == Len(events)
             old == 1 .. n
  <2>1. \A i \in 1 .. Len(events') :
          \/ i \in old /\ events'[i] = events[i] /\ i < n + 1
          \/ i = n + 1 /\ events'[i] = e
    BY <1>1
  <2>2. \A i \in old : events[i].kind # e.kind
    BY <1>3 DEF Pending
  <2>3. e.kind = "GOT_IP" => \A i \in old : events[i].kind # "DISCONNECTED"
    BY <1>3 DEF Pending
  <2>4. /\ \A i, j \in old : events[i].kind = events[j].kind => i = j
        /\ \A i, j \in old :
             events[i].kind = "GOT_IP" /\ events[j].kind = "DISCONNECTED" => i < j
    BY <1>3 DEF QueueInv
  <2>5. Pending("STA_START")' => e.kind = "STA_START"
    BY <1>2, <1>3 DEF Kinds
  <2>6. e.kind = "STA_START" => Len(events') = 1
    BY <1>1, <1>3
  <2> HIDE DEF old, n
  <2>7. ASSUME NEW i \in 1 .. Len(events'), NEW j \in 1 .. Len(events'),
               events'[i].kind = events'[j].kind
        PROVE  i = j
    BY <2>1, <2>2, <2>4, <2>7
  <2>8. ASSUME NEW i \in 1 .. Len(events'), NEW j \in 1 .. Len(events'),
               events'[i].kind = "GOT_IP", events'[j].kind = "DISCONNECTED"
        PROVE  i < j
    BY <2>1, <2>3, <2>4, <2>8
  <2> QED BY <2>5, <2>6, <2>7, <2>8 DEF QueueInv
<1> QED BY <1>1, <1>2, <1>3

\* The oldest one is handled.
LEMMA Handled ==
  ASSUME events \in Seq(Events), NEW kind \in Kinds, Handle(kind)
  PROVE  /\ events' \in Seq(Events) /\ ev = "idle" /\ Pending(kind)
         /\ Head(events) \in Events
         /\ \A k \in Kinds \ {kind} : Pending(k)' <=> Pending(k)
         /\ QueueInv =>
              /\ QueueInv' /\ ~Pending(kind)'
              /\ kind = "DISCONNECTED" => ~Pending("GOT_IP")
              /\ ~Pending("STA_START")'
<1>1. /\ events # << >> /\ Head(events).kind = kind /\ events' = Tail(events)
      /\ ev = "idle"
  BY DEF Handle
<1>2. /\ events' \in Seq(Events) /\ Len(events) \in Nat \ {0}
      /\ Len(events') = Len(events) - 1
      /\ \A i \in 1 .. Len(events') :
           i + 1 \in 1 .. Len(events) /\ events'[i] = events[i + 1]
      /\ Head(events) = events[1] /\ events[1] \in Events
      /\ 1 \in 1 .. Len(events)
  BY <1>1
<1>3. \A k \in Kinds : Pending(k)' => Pending(k)
  BY <1>2 DEF Pending
<1>4. ASSUME NEW k \in Kinds \ {kind}, Pending(k)
      PROVE  Pending(k)'
  <2>1. PICK i \in 1 .. Len(events) : events[i].kind = k
    BY <1>4 DEF Pending
  <2>2. i # 1
    BY <1>1, <1>2, <2>1
  <2>3. i - 1 \in 1 .. Len(events') /\ (i - 1) + 1 = i
    BY <1>2, <2>2
  <2>4. events'[i - 1].kind = k
    BY <1>2, <2>1, <2>3
  <2> QED BY <2>3, <2>4 DEF Pending
<1>5. Pending(kind)
  BY <1>1, <1>2 DEF Pending
<1>6. ASSUME QueueInv
      PROVE  /\ QueueInv' /\ ~Pending(kind)'
             /\ kind = "DISCONNECTED" => ~Pending("GOT_IP")
             /\ ~Pending("STA_START")'
  <2>1. ~Pending(kind)'
    <3>1. SUFFICES ASSUME NEW i \in 1 .. Len(events'), events'[i].kind = kind
                   PROVE  FALSE
      BY DEF Pending
    <3>2. events[i + 1].kind = events[1].kind /\ i + 1 \in 1 .. Len(events)
      BY <1>1, <1>2, <3>1
    <3>3. i + 1 = 1
      BY <1>2, <1>6, <3>2 DEF QueueInv
    <3> QED BY <1>2, <3>1, <3>3
  <2>2. ASSUME kind = "DISCONNECTED", Pending("GOT_IP")
        PROVE  FALSE
    <3>1. PICK i \in 1 .. Len(events) : events[i].kind = "GOT_IP"
      BY <2>2 DEF Pending
    <3>2. i < 1
      BY <1>1, <1>2, <1>6, <2>2, <3>1 DEF QueueInv
    <3> QED BY <1>2, <3>2
  <2>3. ~Pending("STA_START")'
    <3>1. SUFFICES ASSUME Pending("STA_START")'
                   PROVE  FALSE
      OBVIOUS
    <3>2. Len(events) = 1
      BY <1>3, <1>6, <3>1 DEF QueueInv, Kinds
    <3>3. Len(events') = 0
      BY <1>2, <3>2
    <3> QED BY <3>1, <3>3 DEF Pending
  <2>4. ASSUME NEW i \in 1 .. Len(events'), NEW j \in 1 .. Len(events')
        PROVE  /\ events'[i].kind = events'[j].kind => i = j
               /\ events'[i].kind = "GOT_IP" /\ events'[j].kind = "DISCONNECTED" => i < j
    <3>1. /\ events'[i] = events[i + 1] /\ events'[j] = events[j + 1]
          /\ i + 1 \in 1 .. Len(events) /\ j + 1 \in 1 .. Len(events)
      BY <1>2
    <3>2. /\ events[i + 1].kind = events[j + 1].kind => i + 1 = j + 1
          /\ events[i + 1].kind = "GOT_IP" /\ events[j + 1].kind = "DISCONNECTED"
               => i + 1 < j + 1
      BY <1>6, <3>1 DEF QueueInv
    <3> QED BY <1>2, <3>1, <3>2
  <2> QED BY <2>1, <2>2, <2>3, <2>4 DEF QueueInv
<1> QED BY <1>1, <1>2, <1>3, <1>4, <1>5, <1>6

\* Nothing is posted or handled.
LEMMA NoNews ==
  ASSUME UNCHANGED events
  PROVE  /\ \A k \in Kinds : Pending(k)' <=> Pending(k)
         /\ QueueInv' <=> QueueInv
BY DEF Pending, QueueInv

\* No event is on its way.
LEMMA Quiet ==
  ASSUME events = << >>
  PROVE  QueueInv /\ \A k \in Kinds : ~Pending(k)
<1>1. Len(events) = 0
  OBVIOUS
<1>2. 1 .. Len(events) = {}
  BY <1>1
<1> QED BY <1>2 DEF Pending, QueueInv

-----------------------------------------------------------------------------
(* Types *)

\* TypeOK without the lists, by kind.
Flags ==
  /\ auto \in BOOLEAN /\ radio \in BOOLEAN /\ manual \in BOOLEAN
  /\ scanning \in BOOLEAN /\ dscan \in BOOLEAN /\ waiting \in BOOLEAN
  /\ crossed \in BOOLEAN /\ overtaken \in BOOLEAN /\ unsaved \in BOOLEAN
  /\ gaveUp \in BOOLEAN

Steps ==
  /\ state \in {"DISCONNECTED", "CONNECTING", "CONNECTED", "OFF"}
  /\ ev \in {"idle", "connect", "store", "remember", "anchor"}

Counts == retry \in 0 .. MaxRetry /\ calls \in 0 .. MaxCalls

Sweep == cand \in 1 .. MaxSaved /\ attempted \in 1 .. MaxSaved

Networks ==
  /\ pending \in NetOrNone /\ active \in NetOrNone /\ cfg \in NetOrNone
  /\ last \in NetOrNone

Histories == worked \subseteq NetOrNone /\ tried \subseteq NetOrNone

Station == drv \in [st : {"off", "idle", "connecting", "online"}, net : NetOrNone]

Queue == events \in Seq(Events)

CallType == lv \in Calls

Types ==
  /\ Flags /\ Steps /\ Counts /\ Sweep /\ Networks /\ Histories /\ Station
  /\ Queue /\ CallType

\* The networks of a list, as active networks.
LEMMA ListNets ==
  ASSUME NEW list \in Lists
  PROVE  /\ \A i \in 1 .. Len(list) : list[i] \in NetOrNone /\ i \in 1 .. MaxSaved
         /\ Elements(list) \subseteq NetOrNone
         /\ list # << >> => list[Place(list, None)] \in NetOrNone
         /\ \A n : list # << >> => list[Place(list, n)] \in Nets
<1>1. /\ list \in Seq(Nets) /\ Len(list) \in 0 .. MaxSaved /\ MaxSaved \in Nat
  BY ListFacts, BoundsAssumption
<1>2. \A i \in 1 .. Len(list) : list[i] \in NetOrNone /\ i \in 1 .. MaxSaved
  BY <1>1 DEF NetOrNone
<1>3. Elements(list) \subseteq NetOrNone
  BY <1>2 DEF Elements
<1>4. ASSUME NEW n, list # << >>
      PROVE  list[Place(list, n)] \in Nets
  <2>1. CASE n \in Elements(list)
    <3>1. PICK i \in 1 .. Len(list) : list[i] = n
      BY <2>1 DEF Elements
    <3>2. (CHOOSE k \in 1 .. Len(list) : list[k] = n) \in 1 .. Len(list)
      BY <3>1
    <3>3. Place(list, n) \in 1 .. Len(list)
      BY <2>1, <3>2 DEF Place
    <3> QED BY <1>1, <3>3
  <2>2. CASE n \notin Elements(list)
    <3>1. Place(list, n) = 1 /\ 1 \in 1 .. Len(list)
      BY <1>1, <1>4, <2>2 DEF Place
    <3> QED BY <1>1, <3>1
  <2> QED BY <2>1, <2>2
<1>5. list # << >> => list[Place(list, None)] \in NetOrNone
  BY <1>4 DEF NetOrNone
<1> QED BY <1>2, <1>3, <1>4, <1>5

\* The steps of a call.
LEMMA CallTypes ==
  ASSUME CallType
  PROVE  /\ Idle \in Calls /\ \A step \in LvSteps : At(step) \in Calls
         /\ lv.net \in NetOrNone
<1>1. None \in NetOrNone /\ 0 \in 0 .. MaxSaved
  BY BoundsAssumption DEF NetOrNone
<1>2. Idle \in Calls
  BY <1>1 DEF Idle, Calls, LvSteps
<1>3. ASSUME NEW step \in LvSteps
      PROVE  At(step) \in Calls
  BY DEF CallType, Calls, At
<1> QED BY <1>2, <1>3 DEF CallType, Calls

\* What the driver does to its own state and to the queue.
LEMMA DriverType ==
  ASSUME Station, Networks
  PROVE  /\ NotLinked \in [st : {"off", "idle", "connecting", "online"}, net : NetOrNone]
         /\ Stopped \in [st : {"off", "idle", "connecting", "online"}, net : NetOrNone]
         /\ \A kind \in Kinds : Event(kind) \in Events
         /\ DriverConnect => Station'
         /\ drv' = [drv EXCEPT !.st = "online"] => Station'
<1>1. None \in NetOrNone
  BY DEF NetOrNone
<1>2. /\ NotLinked \in [st : {"off", "idle", "connecting", "online"}, net : NetOrNone]
      /\ Stopped \in [st : {"off", "idle", "connecting", "online"}, net : NetOrNone]
  BY <1>1 DEF NotLinked, Stopped
<1>3. \A kind \in Kinds : Event(kind) \in Events
  BY DEF Station, Event, Events, Kinds
<1>4. DriverConnect => Station'
  BY DEF Station, Networks, DriverConnect
<1>5. drv' = [drv EXCEPT !.st = "online"] => Station'
  BY DEF Station
<1> QED BY <1>2, <1>3, <1>4, <1>5

\* The queue takes events.
LEMMA QueueType ==
  ASSUME Queue, NEW e \in Events, events' = Append(events, e)
  PROVE  Queue'
BY DEF Queue

\* A disconnect leaves the driver and the queue in their types.
LEMMA DisconnectType ==
  ASSUME Station, Networks, Queue, DriverDisconnect
  PROVE  Station' /\ Queue'
<1>1. CASE drv.st \in {"connecting", "online"}
  <2>1. drv' = NotLinked /\ events' = Append(events, Event("DISCONNECTED"))
    BY <1>1 DEF DriverDisconnect
  <2>2. Event("DISCONNECTED") \in Events
    BY DriverType DEF Kinds
  <2> QED BY <2>1, <2>2, QueueType, DriverType DEF Station
<1>2. CASE drv.st \notin {"connecting", "online"}
  BY <1>2 DEF DriverDisconnect, Station, Queue
<1> QED BY <1>1, <1>2

\* The event handled is about a network, or none.
LEMMA HandledNet ==
  ASSUME Queue, Histories, NEW kind \in Kinds, Handle(kind)
  PROVE  Queue' /\ Head(events).net \in NetOrNone /\ Failed \subseteq NetOrNone
<1>1. Queue' /\ Head(events) \in Events
  BY Handled DEF Queue
<1> QED BY <1>1 DEF Events, Failed, Histories

\* Every step keeps the types.
LEMMA TypesStep ==
  ASSUME Types, ListInv, [Next]_vars
  PROVE  Types'
<1> USE DEF linkVars, credVars, sweepVars, nvsVars, drvVars, uiVars,
            sweepHistory
<1>a. /\ None \in NetOrNone /\ Nets \subseteq NetOrNone
      /\ MaxSaved \in Nat \ {0} /\ MaxRetry \in Nat /\ MaxCalls \in Nat
  BY BoundsAssumption DEF NetOrNone
<1>b. creds \in Lists /\ nvs \in Lists
  BY DEF ListInv, SavedListSound
<1>1. CASE Driver
  <2> USE DEF Types, Driver, DriverOnline, DriverDrops, DriverScanned, Kinds
  <2>1. Flags'
    BY <1>a, <1>b, <1>1 DEF Flags
  <2>2. Steps' /\ Histories'
    BY <1>a, <1>b, <1>1 DEF Steps, Histories
  <2>3. Counts' /\ Sweep'
    BY <1>a, <1>b, <1>1 DEF Counts, Sweep
  <2>4. Networks'
    BY <1>a, <1>b, <1>1 DEF Networks
  <2>5. Station' /\ Queue'
    BY <1>a, <1>b, <1>1, DriverType, DisconnectType, QueueType
    DEF Station, Networks, Queue
  <2>6. CallType'
    BY <1>a, <1>b, <1>1, CallTypes DEF CallType, LvSteps
  <2> QED BY <2>1, <2>2, <2>3, <2>4, <2>5, <2>6
<1>2. CASE Reboot
  <2> USE DEF Types, Reboot, Boot
  <2>1. Flags'
    BY <1>a, <1>b, <1>2 DEF Flags
  <2>2. Steps' /\ Histories'
    BY <1>a, <1>b, <1>2 DEF Steps, Histories
  <2>3. Sweep'
    <3>1. cand' = Place(nvs, last) /\ attempted' = 1
      BY <1>2 DEF Reboot, Boot
    <3> QED BY <1>a, <1>b, <3>1, PlaceType DEF Sweep
  <2>4. Counts'
    BY <1>a, <1>b, <1>2 DEF Counts
  <2>5. Networks'
    <3>1. \A n : nvs # << >> => nvs[Place(nvs, n)] \in Nets
      BY <1>b, ListNets
    <3>2. pending' = None /\ cfg' = active' /\ UNCHANGED last
          /\ active' = IF nvs = << >> THEN None ELSE nvs[Place(nvs, last)]
      BY <1>2 DEF Reboot, Boot
    <3> QED BY <1>a, <3>1, <3>2 DEF Types, Networks
  <2>6. Queue'
    <3>1. events' = << [kind |-> "STA_START", net |-> None] >>
      BY <1>2 DEF Reboot, Boot
    <3>2. [kind |-> "STA_START", net |-> None] \in Events
      BY <1>a DEF Events
    <3> QED BY <3>1, <3>2 DEF Queue
  <2>7. Station'
    BY <1>a, <1>b, <1>2, DriverType, DisconnectType, QueueType
    DEF Station, Networks
  <2>8. CallType'
    BY <1>a, <1>b, <1>2, CallTypes DEF CallType, LvSteps
  <2> QED BY <2>1, <2>2, <2>3, <2>4, <2>5, <2>6, <2>7, <2>8
<1>3. CASE StaStart /\ Handler
  <2>h. /\ Queue' /\ Head(events).net \in NetOrNone
        /\ Failed \subseteq NetOrNone
    BY <1>3, HandledNet DEF Types, Kinds, StaStart
  <2> USE DEF Types, StaStart, Handler
  <2>1. Flags'
    BY <1>a, <1>b, <1>3 DEF Flags
  <2>2. Steps' /\ Histories'
    BY <1>a, <1>b, <1>3, <2>h DEF Steps, Histories
  <2>3. Counts' /\ Sweep'
    BY <1>a, <1>b, <1>3 DEF Counts, Sweep
  <2>4. Networks'
    BY <1>a, <1>b, <1>3 DEF Networks
  <2>5. Station' /\ Queue'
    BY <1>a, <1>b, <1>3, <2>h, DriverType, DisconnectType, QueueType
    DEF Station, Networks, Queue
  <2>6. CallType'
    BY <1>a, <1>b, <1>3, CallTypes DEF CallType, LvSteps
  <2> QED BY <2>1, <2>2, <2>3, <2>4, <2>5, <2>6
<1>4. CASE Dropped /\ Handler
  <2>h. /\ Queue' /\ Head(events).net \in NetOrNone
        /\ Failed \subseteq NetOrNone
    BY <1>4, HandledNet DEF Types, Kinds, Dropped
  <2> USE DEF Types, Dropped, Handler
  <2>1. Flags'
    BY <1>a, <1>b, <1>4 DEF Flags
  <2>2. Steps' /\ Histories'
    BY <1>a, <1>b, <1>4, <2>h DEF Steps, Histories
  <2>3. Counts' /\ Sweep'
    BY <1>a, <1>b, <1>4 DEF Counts, Sweep
  <2>4. Networks'
    BY <1>a, <1>b, <1>4 DEF Networks
  <2>5. Station' /\ Queue'
    BY <1>a, <1>b, <1>4, <2>h DEF Station, Networks, Queue
  <2>6. CallType'
    BY <1>a, <1>b, <1>4, CallTypes DEF CallType, LvSteps
  <2> QED BY <2>1, <2>2, <2>3, <2>4, <2>5, <2>6
<1>5. CASE Switched /\ Handler
  <2>h. /\ Queue' /\ Head(events).net \in NetOrNone
        /\ Failed \subseteq NetOrNone
    BY <1>5, HandledNet DEF Types, Kinds, Switched
  <2> USE DEF Types, Switched, Handler
  <2>1. Flags'
    BY <1>a, <1>b, <1>5 DEF Flags
  <2>2. Steps' /\ Histories'
    BY <1>a, <1>b, <1>5, <2>h DEF Steps, Histories
  <2>3. Counts' /\ Sweep'
    BY <1>a, <1>b, <1>5 DEF Counts, Sweep
  <2>4. Networks'
    <3>1. cfg' \in {cfg, active} /\ UNCHANGED <<pending, active, last>>
      BY <1>5 DEF Switched, DriverConfig
    <3> QED BY <3>1 DEF Types, Networks
  <2>5. Station' /\ Queue'
    BY <1>a, <1>b, <1>5, <2>h DEF Station, Networks, Queue
  <2>6. CallType'
    BY <1>a, <1>b, <1>5, CallTypes DEF CallType, LvSteps
  <2> QED BY <2>1, <2>2, <2>3, <2>4, <2>5, <2>6
<1>6. CASE Retry /\ Handler
  <2>h. /\ Queue' /\ Head(events).net \in NetOrNone
        /\ Failed \subseteq NetOrNone
    BY <1>6, HandledNet DEF Types, Kinds, Retry, Failure
  <2> USE DEF Types, Retry, Handler, Failure
  <2>1. Flags'
    BY <1>a, <1>b, <1>6 DEF Flags
  <2>2. Steps' /\ Histories'
    BY <1>a, <1>b, <1>6, <2>h DEF Steps, Histories
  <2>3. Counts'
    <3>1. retry < RetryLimit /\ retry' = retry + 1 /\ UNCHANGED calls
      BY <1>6 DEF Retry, Handler
    <3>2. RetryLimit \in {0, MaxRetry}
      BY DEF RetryLimit
    <3> QED BY <1>a, <3>1, <3>2 DEF Types, Counts
  <2>4. Sweep'
    BY <1>a, <1>b, <1>6 DEF Sweep
  <2>5. Networks'
    BY <1>a, <1>b, <1>6 DEF Networks
  <2>6. Station' /\ Queue'
    BY <1>a, <1>b, <1>6, <2>h, DriverType, DisconnectType, QueueType
    DEF Station, Networks, Queue
  <2>7. CallType'
    BY <1>a, <1>b, <1>6, CallTypes DEF CallType, LvSteps
  <2> QED BY <2>1, <2>2, <2>3, <2>4, <2>5, <2>6, <2>7
<1>7. CASE UnsavedFails /\ Handler
  <2>h. /\ Queue' /\ Head(events).net \in NetOrNone
        /\ Failed \subseteq NetOrNone
    BY <1>7, HandledNet DEF Types, Kinds, UnsavedFails, Failure
  <2> USE DEF Types, UnsavedFails, Handler, Failure
  <2>1. Flags'
    BY <1>a, <1>b, <1>7 DEF Flags
  <2>2. Steps' /\ Histories'
    BY <1>a, <1>b, <1>7, <2>h DEF Steps, Histories
  <2>3. Counts' /\ Sweep'
    BY <1>a, <1>b, <1>7 DEF Counts, Sweep
  <2>4. Networks'
    BY <1>a, <1>b, <1>7 DEF Networks
  <2>5. Station' /\ Queue'
    BY <1>a, <1>b, <1>7, <2>h DEF Station, Networks, Queue
  <2>6. CallType'
    BY <1>a, <1>b, <1>7, CallTypes DEF CallType, LvSteps
  <2> QED BY <2>1, <2>2, <2>3, <2>4, <2>5, <2>6
<1>8. CASE NextNetwork /\ Handler
  <2>n. /\ cand' \in 1 .. Len(creds) /\ cand' \in 1 .. MaxSaved
        /\ attempted' \in 1 .. MaxSaved
    <3>1. /\ Len(creds) \in 0 .. MaxSaved /\ attempted < Len(creds)
          /\ attempted \in 1 .. MaxSaved /\ Anchor \in 1 .. MaxSaved
          /\ attempted' = attempted + 1 /\ cand' = (Anchor % Len(creds)) + 1
      BY <1>a, <1>b, <1>8, ListFacts
      DEF Types, Sweep, NextNetwork, MoreToTry, Anchor
    <3>2. Len(creds) \in Nat \ {0} /\ Anchor \in Nat
      BY <1>a, <3>1
    <3>3. Anchor % Len(creds) \in 0 .. Len(creds) - 1
      BY <3>2
    <3> QED BY <1>a, <3>1, <3>2, <3>3
  <2>h. /\ Queue' /\ Head(events).net \in NetOrNone
        /\ Failed \subseteq NetOrNone
    BY <1>8, HandledNet DEF Types, Kinds, NextNetwork, Failure
  <2> USE DEF Types, NextNetwork, Handler, Failure
  <2>1. Flags'
    BY <1>a, <1>b, <1>8 DEF Flags
  <2>2. Steps' /\ Histories'
    BY <1>a, <1>b, <1>8, <2>h DEF Steps, Histories
  <2>3. Sweep'
    <3> QED BY <1>a, <2>n DEF Types, Sweep
  <2>4. Counts'
    BY <1>a, <1>b, <1>8 DEF Counts
  <2>5. Networks'
    <3>1. active' \in NetOrNone /\ cfg' \in {cfg, active'}
      BY <1>b, <1>8, <2>n, ListNets DEF NextNetwork, DriverConfig
    <3> QED BY <1>8, <3>1 DEF Types, Networks, NextNetwork
  <2>6. Station' /\ Queue'
    BY <1>a, <1>b, <1>8, <2>h DEF Station, Networks, Queue
  <2>7. CallType'
    BY <1>a, <1>b, <1>8, CallTypes DEF CallType, LvSteps
  <2> QED BY <2>1, <2>2, <2>3, <2>4, <2>5, <2>6, <2>7
<1>9. CASE GiveUp /\ Handler
  <2>h. /\ Queue' /\ Head(events).net \in NetOrNone
        /\ Failed \subseteq NetOrNone
    BY <1>9, HandledNet DEF Types, Kinds, GiveUp, Failure
  <2> USE DEF Types, GiveUp, Handler, Failure
  <2>1. Flags'
    BY <1>a, <1>b, <1>9 DEF Flags
  <2>2. Steps' /\ Histories'
    BY <1>a, <1>b, <1>9, <2>h DEF Steps, Histories
  <2>3. Sweep'
    <3>1. cand' = Anchor /\ UNCHANGED attempted
      BY <1>9 DEF GiveUp
    <3> QED BY <1>a, <3>1 DEF Types, Sweep, Anchor
  <2>4. Counts'
    BY <1>a, <1>b, <1>9 DEF Counts
  <2>5. Networks'
    BY <1>a, <1>b, <1>9 DEF Networks
  <2>6. Station' /\ Queue'
    BY <1>a, <1>b, <1>9, <2>h DEF Station, Networks, Queue
  <2>7. CallType'
    BY <1>a, <1>b, <1>9, CallTypes DEF CallType, LvSteps
  <2> QED BY <2>1, <2>2, <2>3, <2>4, <2>5, <2>6, <2>7
<1>10. CASE ScanDone /\ Handler
  <2>h. /\ Queue' /\ Head(events).net \in NetOrNone
        /\ Failed \subseteq NetOrNone
    BY <1>10, HandledNet DEF Types, Kinds, ScanDone
  <2> USE DEF Types, ScanDone, Handler
  <2>1. Flags'
    BY <1>a, <1>b, <1>10 DEF Flags
  <2>2. Steps' /\ Histories'
    BY <1>a, <1>b, <1>10, <2>h DEF Steps, Histories
  <2>3. Counts' /\ Sweep'
    BY <1>a, <1>b, <1>10 DEF Counts, Sweep
  <2>4. Networks'
    BY <1>a, <1>b, <1>10 DEF Networks
  <2>5. Station' /\ Queue'
    BY <1>a, <1>b, <1>10, <2>h, DriverType, DisconnectType, QueueType
    DEF Station, Networks, Queue
  <2>6. CallType'
    BY <1>a, <1>b, <1>10, CallTypes DEF CallType, LvSteps
  <2> QED BY <2>1, <2>2, <2>3, <2>4, <2>5, <2>6
<1>11. CASE GotIp /\ Handler
  <2>h. /\ Queue' /\ Head(events).net \in NetOrNone
        /\ Failed \subseteq NetOrNone
    BY <1>11, HandledNet DEF Types, Kinds, GotIp
  <2> USE DEF Types, GotIp, Handler
  <2>1. Flags'
    BY <1>a, <1>b, <1>11 DEF Flags
  <2>2. Steps' /\ Histories'
    BY <1>a, <1>b, <1>11, <2>h DEF Steps, Histories
  <2>3. Counts' /\ Sweep'
    BY <1>a, <1>b, <1>11 DEF Counts, Sweep
  <2>4. Networks'
    BY <1>a, <1>b, <1>11 DEF Networks
  <2>5. Station' /\ Queue'
    BY <1>a, <1>b, <1>11, <2>h DEF Station, Networks, Queue
  <2>6. CallType'
    BY <1>a, <1>b, <1>11, CallTypes DEF CallType, LvSteps
  <2> QED BY <2>1, <2>2, <2>3, <2>4, <2>5, <2>6
<1>12. CASE HandlerConnects /\ Handler
  <2> USE DEF Types, HandlerConnects, Handler
  <2>1. Flags'
    BY <1>a, <1>b, <1>12 DEF Flags
  <2>2. Steps' /\ Histories'
    BY <1>a, <1>b, <1>12 DEF Steps, Histories
  <2>3. Counts' /\ Sweep'
    BY <1>a, <1>b, <1>12 DEF Counts, Sweep
  <2>4. Networks'
    BY <1>a, <1>b, <1>12 DEF Networks
  <2>5. Station' /\ Queue'
    BY <1>a, <1>b, <1>12, DriverType, DisconnectType, QueueType
    DEF Station, Networks, Queue
  <2>6. CallType'
    BY <1>a, <1>b, <1>12, CallTypes DEF CallType, LvSteps
  <2> QED BY <2>1, <2>2, <2>3, <2>4, <2>5, <2>6
<1>13. CASE HandlerStores /\ Handler
  <2> USE DEF Types, HandlerStores, Handler, StoreList, StoreFails
  <2>1. Flags'
    BY <1>a, <1>b, <1>13 DEF Flags
  <2>2. Steps' /\ Histories'
    BY <1>a, <1>b, <1>13 DEF Steps, Histories
  <2>3. Counts' /\ Sweep'
    BY <1>a, <1>b, <1>13 DEF Counts, Sweep
  <2>4. Networks'
    BY <1>a, <1>b, <1>13 DEF Networks
  <2>5. Station' /\ Queue'
    BY <1>a, <1>b, <1>13 DEF Station, Networks, Queue
  <2>6. CallType'
    BY <1>a, <1>b, <1>13, CallTypes DEF CallType, LvSteps
  <2> QED BY <2>1, <2>2, <2>3, <2>4, <2>5, <2>6
<1>14. CASE Remember /\ Handler
  <2> USE DEF Types, Remember, Handler
  <2>1. Flags'
    BY <1>a, <1>b, <1>14 DEF Flags
  <2>2. Steps' /\ Histories'
    BY <1>a, <1>b, <1>14 DEF Steps, Histories
  <2>3. Counts' /\ Sweep'
    BY <1>a, <1>b, <1>14 DEF Counts, Sweep
  <2>4. Networks'
    BY <1>a, <1>b, <1>14 DEF Networks
  <2>5. Station' /\ Queue'
    BY <1>a, <1>b, <1>14 DEF Station, Networks, Queue
  <2>6. CallType'
    BY <1>a, <1>b, <1>14, CallTypes DEF CallType, LvSteps
  <2> QED BY <2>1, <2>2, <2>3, <2>4, <2>5, <2>6
<1>15. CASE Reanchor /\ Handler
  <2> USE DEF Types, Reanchor, Handler
  <2>1. Flags'
    BY <1>a, <1>b, <1>15 DEF Flags
  <2>2. Steps' /\ Histories'
    BY <1>a, <1>b, <1>15 DEF Steps, Histories
  <2>3. Sweep'
    <3>1. cand' = Place(creds, active) /\ attempted' = 1
      BY <1>15 DEF Reanchor
    <3> QED BY <1>a, <1>b, <3>1, PlaceType DEF Sweep
  <2>4. Counts'
    BY <1>a, <1>b, <1>15 DEF Counts
  <2>5. Networks'
    BY <1>a, <1>b, <1>15 DEF Networks
  <2>6. Station' /\ Queue'
    BY <1>a, <1>b, <1>15 DEF Station, Networks, Queue
  <2>7. CallType'
    BY <1>a, <1>b, <1>15, CallTypes DEF CallType, LvSteps
  <2> QED BY <2>1, <2>2, <2>3, <2>4, <2>5, <2>6, <2>7
<1>16. CASE RadioOn /\ Lvgl
  <2> USE DEF Types, RadioOn, Lvgl, Call, RadioUp, Kinds
  <2>1. Flags'
    BY <1>a, <1>b, <1>16 DEF Flags
  <2>2. Steps' /\ Histories'
    BY <1>a, <1>b, <1>16 DEF Steps, Histories
  <2>3. Counts' /\ Sweep'
    BY <1>a, <1>b, <1>16 DEF Counts, Sweep
  <2>4. Networks'
    BY <1>a, <1>b, <1>16 DEF Networks
  <2>5. Station' /\ Queue'
    BY <1>a, <1>b, <1>16, DriverType, DisconnectType, QueueType
    DEF Station, Networks, Queue
  <2>6. CallType'
    BY <1>a, <1>b, <1>16, CallTypes DEF CallType, LvSteps
  <2> QED BY <2>1, <2>2, <2>3, <2>4, <2>5, <2>6
<1>17. CASE RadioOff /\ Lvgl
  <2> USE DEF Types, RadioOff, Lvgl, Call, Kinds
  <2>1. Flags'
    BY <1>a, <1>b, <1>17 DEF Flags
  <2>2. Steps' /\ Histories'
    BY <1>a, <1>b, <1>17 DEF Steps, Histories
  <2>3. Counts' /\ Sweep'
    BY <1>a, <1>b, <1>17 DEF Counts, Sweep
  <2>4. Networks'
    BY <1>a, <1>b, <1>17 DEF Networks
  <2>5. Station' /\ Queue'
    BY <1>a, <1>b, <1>17, DriverType, DisconnectType, QueueType
    DEF Station, Networks, Queue
  <2>6. CallType'
    BY <1>a, <1>b, <1>17, CallTypes DEF CallType, LvSteps
  <2> QED BY <2>1, <2>2, <2>3, <2>4, <2>5, <2>6
<1>18. CASE ConnectBegins /\ Lvgl
  <2> USE DEF Types, ConnectBegins, Lvgl, Call, RadioUp, Kinds
  <2>1. Flags'
    BY <1>a, <1>b, <1>18 DEF Flags
  <2>2. Steps' /\ Histories'
    BY <1>a, <1>b, <1>18 DEF Steps, Histories
  <2>3. Counts'
    <3>1. calls < MaxCalls /\ calls' = calls + 1
      BY <1>18 DEF ConnectBegins, Call
    <3>2. UNCHANGED retry \/ retry' = 0
      BY <1>18 DEF ConnectBegins, RadioUp
    <3> QED BY <1>a, <3>1, <3>2 DEF Types, Counts
  <2>4. Sweep'
    BY <1>a, <1>b, <1>18 DEF Sweep
  <2>5. Networks'
    BY <1>a, <1>b, <1>18 DEF Networks
  <2>6. Station' /\ Queue'
    BY <1>a, <1>b, <1>18, DriverType, DisconnectType, QueueType
    DEF Station, Networks, Queue
  <2>7. CallType'
    <3>1. CASE \E n \in Nets :
                 lv' = [Idle EXCEPT !.at = "choose", !.net = n, !.new = TRUE]
      <4>1. PICK n \in Nets :
              lv' = [Idle EXCEPT !.at = "choose", !.net = n, !.new = TRUE]
        BY <3>1
      <4>2. Idle \in Calls /\ n \in NetOrNone
        BY <1>a, CallTypes DEF Types
      <4> QED BY <4>1, <4>2 DEF CallType, Calls, LvSteps
    <3>2. CASE \E i \in 1 .. Len(creds) :
                 lv' = [Idle EXCEPT !.at = "choose", !.row = i]
      <4>1. \A i \in 1 .. Len(creds) : i \in 0 .. MaxSaved
        BY <1>a, <1>b, ListNets
      <4>2. PICK i \in 1 .. Len(creds) : lv' = [Idle EXCEPT !.at = "choose", !.row = i]
        BY <3>2
      <4>3. Idle \in Calls /\ i \in 0 .. MaxSaved
        BY <4>1, CallTypes DEF Types
      <4> QED BY <4>2, <4>3 DEF CallType, Calls, LvSteps
    <3> QED BY <1>18, <3>1, <3>2 DEF ConnectBegins
  <2> QED BY <2>1, <2>2, <2>3, <2>4, <2>5, <2>6, <2>7
<1>19. CASE Forget /\ Lvgl
  <2> USE DEF Types, Forget, Lvgl, Call, Kinds
  <2>1. Flags'
    BY <1>a, <1>b, <1>19 DEF Flags
  <2>2. Steps' /\ Histories'
    BY <1>a, <1>b, <1>19 DEF Steps, Histories
  <2>3. Counts'
    <3>1. calls < MaxCalls /\ calls' = calls + 1 /\ UNCHANGED retry
      BY <1>19 DEF Forget, Call
    <3> QED BY <1>a, <3>1 DEF Types, Counts
  <2>4. Sweep'
    <3>1. cand' = 1 /\ attempted' = 1
      BY <1>19 DEF Forget
    <3> QED BY <1>a, <3>1 DEF Sweep
  <2>5. Networks'
    BY <1>a, <1>b, <1>19 DEF Networks
  <2>6. Station' /\ Queue'
    BY <1>a, <1>b, <1>19 DEF Station, Networks, Queue
  <2>7. CallType'
    <3>1. PICK i \in 1 .. Len(creds) :
            lv' = [Idle EXCEPT !.at = "store", !.net = creds[i],
                     !.seen = IF active = creds[i] THEN "active" ELSE "none"]
      BY <1>19 DEF Forget
    <3>2. creds[i] \in NetOrNone
      BY <1>b, ListNets
    <3> QED BY <3>1, <3>2, CallTypes DEF Types, CallType, Calls, LvSteps
  <2> QED BY <2>1, <2>2, <2>3, <2>4, <2>5, <2>6, <2>7
<1>20. CASE Disconnect /\ Lvgl
  <2> USE DEF Types, Disconnect, Lvgl, Call, Kinds
  <2>1. Flags'
    BY <1>a, <1>b, <1>20 DEF Flags
  <2>2. Steps' /\ Histories'
    BY <1>a, <1>b, <1>20 DEF Steps, Histories
  <2>3. Counts' /\ Sweep'
    BY <1>a, <1>b, <1>20 DEF Counts, Sweep
  <2>4. Networks'
    BY <1>a, <1>b, <1>20 DEF Networks
  <2>5. Station' /\ Queue'
    BY <1>a, <1>b, <1>20, DriverType, DisconnectType, QueueType
    DEF Station, Networks, Queue
  <2>6. CallType'
    BY <1>a, <1>b, <1>20, CallTypes DEF CallType, LvSteps
  <2> QED BY <2>1, <2>2, <2>3, <2>4, <2>5, <2>6
<1>21. CASE Scan /\ Lvgl
  <2> USE DEF Types, Scan, Lvgl, Call, Kinds
  <2>1. Flags'
    BY <1>a, <1>b, <1>21 DEF Flags
  <2>2. Steps' /\ Histories'
    BY <1>a, <1>b, <1>21 DEF Steps, Histories
  <2>3. Counts' /\ Sweep'
    BY <1>a, <1>b, <1>21 DEF Counts, Sweep
  <2>4. Networks'
    BY <1>a, <1>b, <1>21 DEF Networks
  <2>5. Station' /\ Queue'
    BY <1>a, <1>b, <1>21, DriverType, DisconnectType, QueueType
    DEF Station, Networks, Queue
  <2>6. CallType'
    BY <1>a, <1>b, <1>21, CallTypes DEF CallType, LvSteps
  <2> QED BY <2>1, <2>2, <2>3, <2>4, <2>5, <2>6
<1>22. CASE PollResult /\ Lvgl
  <2> USE DEF Types, PollResult, Lvgl, Call, Kinds
  <2>1. Flags'
    BY <1>a, <1>b, <1>22 DEF Flags
  <2>2. Steps' /\ Histories'
    BY <1>a, <1>b, <1>22 DEF Steps, Histories
  <2>3. Counts' /\ Sweep'
    BY <1>a, <1>b, <1>22 DEF Counts, Sweep
  <2>4. Networks'
    BY <1>a, <1>b, <1>22 DEF Networks
  <2>5. Station' /\ Queue'
    BY <1>a, <1>b, <1>22 DEF Station, Networks, Queue
  <2>6. CallType'
    BY <1>a, <1>b, <1>22, CallTypes DEF CallType, LvSteps
  <2> QED BY <2>1, <2>2, <2>3, <2>4, <2>5, <2>6
<1>23. CASE RadioStops /\ Lvgl /\ UNCHANGED calls
  <2> USE DEF Types, RadioStops, Lvgl, Kinds
  <2>1. Flags'
    BY <1>a, <1>b, <1>23 DEF Flags
  <2>2. Steps' /\ Histories'
    BY <1>a, <1>b, <1>23 DEF Steps, Histories
  <2>3. Counts' /\ Sweep'
    BY <1>a, <1>b, <1>23 DEF Counts, Sweep
  <2>4. Networks'
    BY <1>a, <1>b, <1>23 DEF Networks
  <2>5. Station' /\ Queue'
    BY <1>a, <1>b, <1>23, DriverType, DisconnectType, QueueType
    DEF Station, Networks, Queue
  <2>6. CallType'
    BY <1>a, <1>b, <1>23, CallTypes DEF CallType, LvSteps
  <2> QED BY <2>1, <2>2, <2>3, <2>4, <2>5, <2>6
<1>24. CASE Choose /\ Lvgl /\ UNCHANGED calls
  <2> USE DEF Types, Choose, Lvgl, Chosen, Kinds
  <2>1. Flags'
    BY <1>a, <1>b, <1>24 DEF Flags
  <2>2. Steps' /\ Histories'
    BY <1>a, <1>b, <1>24 DEF Steps, Histories
  <2>3. Sweep'
    <3>1. Place(creds, lv.net) \in 1 .. MaxSaved
      BY <1>b, PlaceType
    <3>2. ~lv.new => lv.row \in 1 .. MaxSaved
      BY <1>b, <1>24, ListNets DEF Choose, ListInv, SavedListSound
    <3> QED BY <1>a, <1>24, <3>1, <3>2 DEF Sweep, Choose
  <2>4. Counts'
    BY <1>a, <1>b, <1>24 DEF Counts
  <2>5. Networks'
    <3>1. Chosen \in NetOrNone /\ (lv.new => lv.net \in NetOrNone)
      BY <1>a, <1>b, <1>24, ListNets
      DEF Choose, Chosen, ListInv, SavedListSound, AttemptIsNet
    <3> QED BY <1>a, <1>24, <3>1 DEF Types, Networks, Choose
  <2>6. Station' /\ Queue'
    BY <1>a, <1>b, <1>24 DEF Station, Networks, Queue
  <2>7. CallType'
    <3> DEFINE seen == IF state # "CONNECTED" THEN state
                       ELSE IF drv = [st |-> "online", net |-> Chosen]
                            THEN "this one" ELSE "another one"
    <3>1. seen \in {"none", "active", "DISCONNECTED", "CONNECTING", "OFF",
                    "this one", "another one"}
      BY DEF Types, Steps
    <3>2. lv' = [lv EXCEPT !.at = "decide", !.seen = seen]
      BY <1>24 DEF Choose
    <3> HIDE DEF seen
    <3> QED BY <3>1, <3>2 DEF Types, CallType, Calls, LvSteps
  <2> QED BY <2>1, <2>2, <2>3, <2>4, <2>5, <2>6, <2>7
<1>25. CASE KeepLink /\ Lvgl /\ UNCHANGED calls
  <2> USE DEF Types, KeepLink, Lvgl, Kinds
  <2>1. Flags'
    BY <1>a, <1>b, <1>25 DEF Flags
  <2>2. Steps' /\ Histories'
    BY <1>a, <1>b, <1>25 DEF Steps, Histories
  <2>3. Counts' /\ Sweep'
    BY <1>a, <1>b, <1>25 DEF Counts, Sweep
  <2>4. Networks'
    BY <1>a, <1>b, <1>25 DEF Networks
  <2>5. Station' /\ Queue'
    BY <1>a, <1>b, <1>25 DEF Station, Networks, Queue
  <2>6. CallType'
    BY <1>a, <1>b, <1>25, CallTypes DEF CallType, LvSteps
  <2> QED BY <2>1, <2>2, <2>3, <2>4, <2>5, <2>6
<1>26. CASE StopAttempt /\ Lvgl /\ UNCHANGED calls
  <2> USE DEF Types, StopAttempt, Lvgl, Kinds
  <2>1. Flags'
    BY <1>a, <1>b, <1>26 DEF Flags
  <2>2. Steps' /\ Histories'
    BY <1>a, <1>b, <1>26 DEF Steps, Histories
  <2>3. Counts' /\ Sweep'
    BY <1>a, <1>b, <1>26 DEF Counts, Sweep
  <2>4. Networks'
    BY <1>a, <1>b, <1>26 DEF Networks
  <2>5. Station' /\ Queue'
    BY <1>a, <1>b, <1>26, DriverType, DisconnectType, QueueType
    DEF Station, Networks, Queue
  <2>6. CallType'
    BY <1>a, <1>b, <1>26, CallTypes DEF CallType, LvSteps
  <2> QED BY <2>1, <2>2, <2>3, <2>4, <2>5, <2>6
<1>27. CASE ApplyNet /\ Lvgl /\ UNCHANGED calls
  <2> USE DEF Types, ApplyNet, Lvgl, DriverConfig, Kinds
  <2>1. Flags'
    BY <1>a, <1>b, <1>27 DEF Flags
  <2>2. Steps' /\ Histories'
    BY <1>a, <1>b, <1>27 DEF Steps, Histories
  <2>3. Counts' /\ Sweep'
    BY <1>a, <1>b, <1>27 DEF Counts, Sweep
  <2>4. Networks'
    BY <1>a, <1>b, <1>27 DEF Networks
  <2>5. Station' /\ Queue'
    BY <1>a, <1>b, <1>27 DEF Station, Networks, Queue
  <2>6. CallType'
    BY <1>a, <1>b, <1>27, CallTypes DEF CallType, LvSteps
  <2> QED BY <2>1, <2>2, <2>3, <2>4, <2>5, <2>6
<1>28. CASE SwitchNet /\ Lvgl /\ UNCHANGED calls
  <2> USE DEF Types, SwitchNet, Lvgl, Kinds
  <2>1. Flags'
    BY <1>a, <1>b, <1>28 DEF Flags
  <2>2. Steps' /\ Histories'
    BY <1>a, <1>b, <1>28 DEF Steps, Histories
  <2>3. Counts' /\ Sweep'
    BY <1>a, <1>b, <1>28 DEF Counts, Sweep
  <2>4. Networks'
    BY <1>a, <1>b, <1>28 DEF Networks
  <2>5. Station' /\ Queue'
    BY <1>a, <1>b, <1>28, DriverType, DisconnectType, QueueType
    DEF Station, Networks, Queue
  <2>6. CallType'
    BY <1>a, <1>b, <1>28, CallTypes DEF CallType, LvSteps
  <2> QED BY <2>1, <2>2, <2>3, <2>4, <2>5, <2>6
<1>29. CASE ConnectNet /\ Lvgl /\ UNCHANGED calls
  <2> USE DEF Types, ConnectNet, Lvgl, Kinds
  <2>1. Flags'
    BY <1>a, <1>b, <1>29 DEF Flags
  <2>2. Steps' /\ Histories'
    BY <1>a, <1>b, <1>29 DEF Steps, Histories
  <2>3. Counts' /\ Sweep'
    BY <1>a, <1>b, <1>29 DEF Counts, Sweep
  <2>4. Networks'
    BY <1>a, <1>b, <1>29 DEF Networks
  <2>5. Station' /\ Queue'
    BY <1>a, <1>b, <1>29, DriverType, DisconnectType, QueueType
    DEF Station, Networks, Queue
  <2>6. CallType'
    BY <1>a, <1>b, <1>29, CallTypes DEF CallType, LvSteps
  <2> QED BY <2>1, <2>2, <2>3, <2>4, <2>5, <2>6
<1>30. CASE ForgetStores /\ Lvgl /\ UNCHANGED calls
  <2> USE DEF Types, ForgetStores, Lvgl, StoreList, StoreFails, Kinds
  <2>1. Flags'
    BY <1>a, <1>b, <1>30 DEF Flags
  <2>2. Steps' /\ Histories'
    BY <1>a, <1>b, <1>30 DEF Steps, Histories
  <2>3. Counts' /\ Sweep'
    BY <1>a, <1>b, <1>30 DEF Counts, Sweep
  <2>4. Networks'
    BY <1>a, <1>b, <1>30 DEF Networks
  <2>5. Station' /\ Queue'
    BY <1>a, <1>b, <1>30 DEF Station, Networks, Queue
  <2>6. CallType'
    BY <1>a, <1>b, <1>30, CallTypes DEF CallType, LvSteps
  <2> QED BY <2>1, <2>2, <2>3, <2>4, <2>5, <2>6
<1>31. CASE ForgetClears /\ Lvgl /\ UNCHANGED calls
  <2> USE DEF Types, ForgetClears, Lvgl, Kinds
  <2>1. Flags'
    BY <1>a, <1>b, <1>31 DEF Flags
  <2>2. Steps' /\ Histories'
    BY <1>a, <1>b, <1>31 DEF Steps, Histories
  <2>3. Counts' /\ Sweep'
    BY <1>a, <1>b, <1>31 DEF Counts, Sweep
  <2>4. Networks'
    BY <1>a, <1>b, <1>31 DEF Networks
  <2>5. Station' /\ Queue'
    BY <1>a, <1>b, <1>31, DriverType, DisconnectType, QueueType
    DEF Station, Networks, Queue
  <2>6. CallType'
    BY <1>a, <1>b, <1>31, CallTypes DEF CallType, LvSteps
  <2> QED BY <2>1, <2>2, <2>3, <2>4, <2>5, <2>6
<1>32. CASE ScanFlag /\ Lvgl /\ UNCHANGED calls
  <2> USE DEF Types, ScanFlag, Lvgl, Kinds
  <2>1. Flags'
    BY <1>a, <1>b, <1>32 DEF Flags
  <2>2. Steps' /\ Histories'
    BY <1>a, <1>b, <1>32 DEF Steps, Histories
  <2>3. Counts' /\ Sweep'
    BY <1>a, <1>b, <1>32 DEF Counts, Sweep
  <2>4. Networks'
    BY <1>a, <1>b, <1>32 DEF Networks
  <2>5. Station' /\ Queue'
    BY <1>a, <1>b, <1>32 DEF Station, Networks, Queue
  <2>6. CallType'
    BY <1>a, <1>b, <1>32, CallTypes DEF CallType, LvSteps
  <2> QED BY <2>1, <2>2, <2>3, <2>4, <2>5, <2>6
<1>33. CASE ScanStarts /\ Lvgl /\ UNCHANGED calls
  <2> USE DEF Types, ScanStarts, Lvgl, Kinds
  <2>1. Flags'
    BY <1>a, <1>b, <1>33 DEF Flags
  <2>2. Steps' /\ Histories'
    BY <1>a, <1>b, <1>33 DEF Steps, Histories
  <2>3. Counts' /\ Sweep'
    BY <1>a, <1>b, <1>33 DEF Counts, Sweep
  <2>4. Networks'
    BY <1>a, <1>b, <1>33 DEF Networks
  <2>5. Station' /\ Queue'
    BY <1>a, <1>b, <1>33 DEF Station, Networks, Queue
  <2>6. CallType'
    BY <1>a, <1>b, <1>33, CallTypes DEF CallType, LvSteps
  <2> QED BY <2>1, <2>2, <2>3, <2>4, <2>5, <2>6
<1>34. CASE UNCHANGED vars
  <2> USE DEF Types, vars
  <2>1. Flags'
    BY <1>a, <1>b, <1>34 DEF Flags
  <2>2. Steps' /\ Histories'
    BY <1>a, <1>b, <1>34 DEF Steps, Histories
  <2>3. Counts' /\ Sweep'
    BY <1>a, <1>b, <1>34 DEF Counts, Sweep
  <2>4. Networks'
    BY <1>a, <1>b, <1>34 DEF Networks
  <2>5. Station' /\ Queue'
    BY <1>a, <1>b, <1>34 DEF Station, Networks, Queue
  <2>6. CallType'
    BY <1>a, <1>b, <1>34, CallTypes DEF CallType, LvSteps
  <2> QED BY <2>1, <2>2, <2>3, <2>4, <2>5, <2>6
<1> QED
  BY <1>1, <1>2, <1>3, <1>4, <1>5, <1>6, <1>7, <1>8, <1>9, <1>10, <1>11,
     <1>12, <1>13, <1>14, <1>15, <1>16, <1>17, <1>18, <1>19, <1>20, <1>21,
     <1>22, <1>23, <1>24, <1>25, <1>26, <1>27, <1>28, <1>29, <1>30, <1>31,
     <1>32, <1>33, <1>34
  DEF Next, Handler, Lvgl, CallStep

\* The types of a started system.
LEMMA TypesInit == Init => Types
<1> SUFFICES ASSUME Init PROVE Types
  OBVIOUS
<1>a. /\ None \in NetOrNone /\ Nets \subseteq NetOrNone
      /\ MaxSaved \in Nat \ {0} /\ MaxRetry \in Nat /\ MaxCalls \in Nat
      /\ 1 \in 1 .. MaxSaved /\ 0 \in 0 .. MaxRetry /\ 0 \in 0 .. MaxCalls
  BY BoundsAssumption DEF NetOrNone
<1>1. PICK s \in Saved :
        LET start == Place(s.list, s.last)
            first == IF s.list = << >> THEN None ELSE s.list[start]
        IN  /\ state = "DISCONNECTED" /\ retry = 0 /\ auto = TRUE
            /\ manual = FALSE /\ radio = TRUE /\ scanning = FALSE
            /\ pending = None /\ active = first /\ creds = s.list
            /\ cand = start /\ attempted = 1
            /\ nvs = s.list /\ last = s.last /\ unsaved = FALSE
            /\ drv = NotLinked /\ cfg = first /\ dscan = FALSE
            /\ events = <<[kind |-> "STA_START", net |-> None]>>
            /\ ev = "idle" /\ lv = Idle /\ waiting = FALSE /\ calls = 0
            /\ crossed = FALSE /\ overtaken = FALSE /\ worked = Elements(s.list)
            /\ tried = {} /\ gaveUp = FALSE
  BY DEF Init
<1>2. s.list \in Lists /\ s.last \in NetOrNone
  BY BoundsAssumption
<1>3. /\ Place(s.list, s.last) \in 1 .. MaxSaved
      /\ Elements(s.list) \subseteq NetOrNone
      /\ s.list # << >> => s.list[Place(s.list, s.last)] \in Nets
  BY <1>2, PlaceType, ListNets
<1>4. Flags /\ Steps
  BY <1>1 DEF Flags, Steps
<1>5. Counts /\ Sweep
  BY <1>1, <1>3, <1>a DEF Counts, Sweep
<1>6. Networks /\ Histories
  BY <1>1, <1>2, <1>3, <1>a DEF Networks, Histories
<1>7. Station
  BY <1>1, <1>a DEF Station, NotLinked
<1>8. Queue
  <2>1. [kind |-> "STA_START", net |-> None] \in Events
    BY <1>a DEF Events
  <2> QED BY <1>1, <2>1 DEF Queue
<1>9. CallType
  BY <1>1, <1>a DEF CallType, Calls, LvSteps, Idle
<1> QED BY <1>4, <1>5, <1>6, <1>7, <1>8, <1>9 DEF Types

\* Every variable of the manager, of the driver and of NVS stays in its type:
\* the indices within the list, the retries within their limit.
THEOREM TypeCorrect == Spec => []TypeOK
<1> DEFINE I == Types /\ ListInv
<1>1. Init => I
  BY TypesInit, ListInit
<1>2. I /\ [Next]_vars => I'
  BY TypesStep, ListStep
<1>3. I => TypeOK
  <2> SUFFICES ASSUME Types, ListInv PROVE TypeOK
    OBVIOUS
  <2>1. creds \in Seq(Nets) /\ nvs \in Seq(Nets)
    BY ListFacts DEF ListInv, SavedListSound
  <2> QED BY <2>1 DEF TypeOK, Types, Flags, Steps, Counts, Sweep, Networks,
                      Histories, Station, Queue, CallType
<1> QED BY <1>1, <1>2, <1>3, PTL DEF Spec

-----------------------------------------------------------------------------
(* The state shown, the driver and the events on their way *)

\* The steps of a call that has looked at the state and acts on it.
Deciding == {"decide", "switch", "connect"}

\* What the state shown says of the driver, by what is on its way.
StateInv ==
  /\ Pending("STA_START") =>
       /\ drv.st = "idle" /\ state \in {"DISCONNECTED", "OFF"}
       /\ auto /\ ~manual /\ radio
       /\ ev = "idle" /\ lv.at \in {"idle", "choose"} /\ ~dscan
  /\ Pending("GOT_IP") =>
       /\ state = "CONNECTING" /\ ev = "idle"
       /\ drv.st = "online" \/ (Pending("DISCONNECTED") /\ ~manual)
  /\ Pending("DISCONNECTED") => drv.st = "idle" /\ ev # "connect"
  /\ ev = "connect" => drv.st = "idle" /\ active # None /\ cfg # None
  /\ ev \in {"store", "remember", "anchor"} => state = "CONNECTED"
  /\ drv.st = "online" => Pending("GOT_IP") \/ state = "CONNECTED"
  /\ drv.st = "connecting" => state = "CONNECTING" /\ ~Pending("GOT_IP")
  /\ state = "CONNECTED" =>
       drv.st = "online" \/ Pending("DISCONNECTED") \/ ev = "connect"
  /\ state = "CONNECTING" =>
       \/ drv.st = "connecting" \/ Pending("DISCONNECTED")
       \/ Pending("GOT_IP") \/ ev = "connect"
  /\ Pending("DISCONNECTED") /\ state \in {"DISCONNECTED", "OFF"} => ~auto
  /\ dscan => ~Pending("SCAN_DONE")

\* The radio, the driver under it, and the calls that need it.
RadioInv ==
  /\ state = "OFF" =>
       Pending("STA_START") \/ (~radio /\ (drv.st = "off" \/ lv.at = "stop"))
  /\ ~radio => /\ state \in {"DISCONNECTED", "OFF"} /\ ~auto /\ ev = "idle"
               /\ drv.st \in {"off", "idle"}
               /\ lv.at # "stop" => events = << >> /\ ~dscan
  /\ drv.st = "off" => ~radio
  /\ lv.at \in {"choose", "flag", "scan"} \cup Deciding => radio
  /\ lv.at = "stop" => ~radio /\ drv.st = "idle"

\* What a call has seen of the state is still so when it acts on it.
CallInv ==
  /\ lv.at \in Deciding => ev = "idle" /\ auto /\ active # None
  /\ lv.at = "decide" =>
       /\ lv.seen \in {"this one", "another one"} <=> state = "CONNECTED"
       /\ state # "CONNECTED" => lv.seen = state
  /\ lv.at = "switch" => state = "CONNECTED"
  /\ lv.at = "connect" =>
       drv.st = "idle" /\ ~Pending("DISCONNECTED") /\ ~Pending("GOT_IP")

\* A disconnect of our own is expected until its event, or until the attempt
\* that takes its place.
ManualInv ==
  /\ drv.st \in {"connecting", "online"} => ~manual
  /\ ev = "connect" => ~manual
  /\ manual /\ auto => Pending("DISCONNECTED") \/ lv.at \in Deciding

\* The driver has a network to connect to whenever it may have to.
CfgInv ==
  /\ active # None /\ lv.at # "decide" => cfg # None
  /\ drv.st \in {"connecting", "online"} \/ Pending("DISCONNECTED") => cfg # None
  /\ drv.st \in {"connecting", "online"} \/ (Pending("DISCONNECTED") /\ auto)
       => active # None

Settled ==
  QueueInv /\ StateInv /\ RadioInv /\ CallInv /\ ManualInv /\ CfgInv

\* The network the driver has, and the one chosen.
Followed ==
  /\ active # None /\ lv.at # "decide" =>
       cfg = active \/ (Pending("DISCONNECTED") /\ manual /\ auto)
  /\ drv.st \in {"connecting", "online"} /\ lv.at # "switch" => drv.net = cfg
  /\ lv.at = "decide" /\ lv.seen = "this one" => cfg = active

\* The inductive invariant of the two properties.
StatusInv == ~crossed => Settled
ChosenInv == ~crossed /\ ~overtaken => Followed

\* The four kinds of events, before and after a step that posts one of them,
\* handles one, or does neither.
LEMMA PostedKinds ==
  ASSUME Queue, Settled, NEW e \in Events, events' = Append(events, e),
         ~Pending(e.kind), ~Pending("STA_START"),
         e.kind = "GOT_IP" => ~Pending("DISCONNECTED"),
         e.kind = "STA_START" => events = << >>
  PROVE  /\ QueueInv'
         /\ Pending("STA_START")' <=> e.kind = "STA_START"
         /\ Pending("GOT_IP")' <=> Pending("GOT_IP") \/ e.kind = "GOT_IP"
         /\ Pending("DISCONNECTED")' <=> Pending("DISCONNECTED") \/ e.kind = "DISCONNECTED"
         /\ Pending("SCAN_DONE")' <=> Pending("SCAN_DONE") \/ e.kind = "SCAN_DONE"
<1>1. QueueInv' /\ \A k \in Kinds : Pending(k)' <=> Pending(k) \/ k = e.kind
  BY Posted DEF Queue, Settled
<1> QED BY <1>1 DEF Kinds

\* An event is handled: it leaves the queue, and the others stay.
LEMMA HandledKinds ==
  ASSUME Queue, Settled, NEW kind \in Kinds, Handle(kind)
  PROVE  /\ QueueInv' /\ ev = "idle" /\ Pending(kind) /\ events # << >>
         /\ ~Pending("STA_START")'
         /\ Pending("GOT_IP")' <=> Pending("GOT_IP") /\ kind # "GOT_IP"
         /\ Pending("DISCONNECTED")' <=> Pending("DISCONNECTED") /\ kind # "DISCONNECTED"
         /\ Pending("SCAN_DONE")' <=> Pending("SCAN_DONE") /\ kind # "SCAN_DONE"
         /\ kind # "STA_START" => ~Pending("STA_START")
         /\ kind = "DISCONNECTED" => ~Pending("GOT_IP")
<1>1. /\ QueueInv' /\ ev = "idle" /\ Pending(kind) /\ ~Pending("STA_START")'
      /\ ~Pending(kind)' /\ \A k \in Kinds \ {kind} : Pending(k)' <=> Pending(k)
      /\ kind = "DISCONNECTED" => ~Pending("GOT_IP")
  BY Handled DEF Queue, Settled
<1>2. events # << >>
  BY DEF Handle
<1> QED BY <1>1, <1>2 DEF Kinds

\* Nothing is posted or handled.
LEMMA SameKinds ==
  ASSUME Settled, UNCHANGED events
  PROVE  /\ QueueInv'
         /\ Pending("STA_START")' <=> Pending("STA_START")
         /\ Pending("GOT_IP")' <=> Pending("GOT_IP")
         /\ Pending("DISCONNECTED")' <=> Pending("DISCONNECTED")
         /\ Pending("SCAN_DONE")' <=> Pending("SCAN_DONE")
BY NoNews DEF Settled, Kinds

\* Nothing waits.
LEMMA NoKinds ==
  ASSUME events = << >>
  PROVE  /\ ~Pending("STA_START") /\ ~Pending("GOT_IP")
         /\ ~Pending("DISCONNECTED") /\ ~Pending("SCAN_DONE")
BY Quiet DEF Kinds

\* A link dropped by a call, when no event was on its way.
LEMMA Disconnects ==
  ASSUME Types, Settled, events = << >>, DriverDisconnect
  PROVE  /\ QueueInv' /\ drv'.st = (IF drv.st = "off" THEN "off" ELSE "idle")
         /\ Pending("DISCONNECTED")' <=> drv.st \in {"connecting", "online"}
         /\ ~Pending("STA_START")' /\ ~Pending("GOT_IP")' /\ ~Pending("SCAN_DONE")'
         /\ Pending("DISCONNECTED")' \/ events' = << >>
<1>1. /\ ~Pending("STA_START") /\ ~Pending("GOT_IP")
      /\ ~Pending("DISCONNECTED") /\ ~Pending("SCAN_DONE")
  BY NoKinds
<1>2. CASE drv.st \in {"connecting", "online"}
  <2>1. drv' = NotLinked /\ events' = Append(events, Event("DISCONNECTED"))
    BY <1>2 DEF DriverDisconnect
  <2>2. Event("DISCONNECTED") \in Events /\ Event("DISCONNECTED").kind = "DISCONNECTED"
    BY DriverType DEF Types, Kinds, Event
  <2>3. /\ QueueInv' /\ Pending("DISCONNECTED")'
        /\ ~Pending("STA_START")' /\ ~Pending("GOT_IP")' /\ ~Pending("SCAN_DONE")'
    BY <1>1, <2>1, <2>2, PostedKinds DEF Types
  <2>4. drv'.st = "idle"
    BY <2>1 DEF NotLinked
  <2> QED BY <1>2, <2>3, <2>4
<1>3. CASE drv.st \notin {"connecting", "online"}
  <2>1. drv' = drv /\ events' = events
    BY <1>3 DEF DriverDisconnect
  <2>2. drv.st \in {"off", "idle"}
    BY <1>3 DEF Types, Station
  <2> QED BY <1>1, <1>3, <2>1, <2>2, SameKinds
<1> QED BY <1>2, <1>3

\* The driver is started when no event was on its way.
LEMMA Starts ==
  ASSUME Types, Settled, events = << >>, RadioUp
  PROVE  /\ QueueInv' /\ Pending("STA_START")'
         /\ ~Pending("GOT_IP")' /\ ~Pending("DISCONNECTED")' /\ ~Pending("SCAN_DONE")'
<1>1. /\ ~Pending("STA_START") /\ ~Pending("GOT_IP")
      /\ ~Pending("DISCONNECTED") /\ ~Pending("SCAN_DONE")
  BY NoKinds
<1>2. Event("STA_START") \in Events /\ Event("STA_START").kind = "STA_START"
  BY DriverType DEF Types, Kinds, Event
<1>3. events' = Append(events, Event("STA_START"))
  BY DEF RadioUp
<1> QED BY <1>1, <1>2, <1>3, PostedKinds DEF Types

\* The networks the sweep and the calls choose are networks.
LEMMA NextActive ==
  ASSUME Types, ListInv, NextNetwork
  PROVE  active' \in Nets /\ active' # None
<1>1. /\ creds \in Lists /\ MaxSaved \in Nat \ {0} /\ None \notin Nets
      /\ cand \in 1 .. MaxSaved /\ attempted \in 1 .. MaxSaved
  BY BoundsAssumption DEF ListInv, SavedListSound, Types, Sweep
<1>2. /\ creds \in Seq(Nets) /\ Len(creds) \in 0 .. MaxSaved
  BY <1>1, ListFacts
<1>3. /\ attempted < Len(creds) /\ cand' = (Anchor % Len(creds)) + 1
      /\ active' = creds[cand'] /\ Anchor \in {1, cand}
  BY DEF NextNetwork, MoreToTry, Anchor
<1>4. Len(creds) \in Nat \ {0} /\ Anchor \in Nat
  BY <1>1, <1>2, <1>3
<1>5. Anchor % Len(creds) \in 0 .. Len(creds) - 1
  BY <1>4
<1>6. cand' \in 1 .. Len(creds)
  BY <1>3, <1>4, <1>5
<1> QED BY <1>1, <1>2, <1>3, <1>6

\* What a call chooses is a network of the list or a new one.
LEMMA ChosenNet ==
  ASSUME ListInv, lv.at = "choose"
  PROVE  Chosen \in Nets /\ Chosen # None
<1>1. creds \in Seq(Nets) /\ None \notin Nets
  BY ListFacts, BoundsAssumption DEF ListInv, SavedListSound
<1> QED BY <1>1 DEF Chosen, ListInv, SavedListSound, AttemptIsNet

\* Where a call goes on.
LEMMA AtFacts ==
  ASSUME CallType
  PROVE  /\ \A step : At(step).at = step /\ At(step).seen = lv.seen
                     /\ At(step).new = lv.new
         /\ Idle.at = "idle"
BY DEF CallType, Calls, At, Idle

\* The driver tells what it does.
LEMMA DriverSettled ==
  ASSUME Types, Settled, Driver
  PROVE  Settled'
<1> USE DEF linkVars, credVars, sweepVars, nvsVars, drvVars, uiVars,
            sweepHistory
<1>d. /\ drv.st \in {"off", "idle", "connecting", "online"}
      /\ state \in {"DISCONNECTED", "CONNECTING", "CONNECTED", "OFF"}
      /\ ev \in {"idle", "connect", "store", "remember", "anchor"}
      /\ auto \in BOOLEAN /\ radio \in BOOLEAN /\ manual \in BOOLEAN /\ dscan \in BOOLEAN
  BY DEF Types, Station, Steps, Flags
<1>1. CASE DriverOnline /\ Driver
  <2>e. Event("GOT_IP") \in Events /\ Event("GOT_IP").kind = "GOT_IP"
    BY DriverType DEF Types, Kinds, Event
  <2>a. /\ QueueInv' /\ (Pending("STA_START")' <=> Pending("STA_START"))
        /\ Pending("GOT_IP")' /\ ~Pending("GOT_IP")
        /\ (Pending("DISCONNECTED")' <=> Pending("DISCONNECTED"))
        /\ (Pending("SCAN_DONE")' <=> Pending("SCAN_DONE"))
    BY <1>1, <2>e, PostedKinds DEF Types, Settled, StateInv, DriverOnline
  <2>s. drv'.st = "online" /\ UNCHANGED <<state, auto, radio, manual, active, cfg, ev, lv>>
    BY <1>1 DEF DriverOnline, Driver, NotLinked, Types, Station
  <2> USE DEF Settled, StateInv, RadioInv, CallInv, ManualInv, CfgInv,
              Deciding,
              DriverOnline
  <2>1. StateInv'
    BY <1>1, <1>d, <2>a, <2>s
  <2>2. RadioInv'
    BY <1>1, <1>d, <2>a, <2>s
  <2>3. CallInv'
    BY <1>1, <1>d, <2>a, <2>s
  <2>4. ManualInv'
    BY <1>1, <1>d, <2>a, <2>s
  <2>5. CfgInv'
    BY <1>1, <1>d, <2>a, <2>s
  <2> QED BY <2>a, <2>1, <2>2, <2>3, <2>4, <2>5 DEF Settled
<1>2. CASE DriverDrops /\ Driver
  <2>e. Event("DISCONNECTED") \in Events /\ Event("DISCONNECTED").kind = "DISCONNECTED"
    BY DriverType DEF Types, Kinds, Event
  <2>a. /\ QueueInv' /\ (Pending("STA_START")' <=> Pending("STA_START"))
        /\ (Pending("GOT_IP")' <=> Pending("GOT_IP"))
        /\ Pending("DISCONNECTED")' /\ ~Pending("DISCONNECTED")
        /\ (Pending("SCAN_DONE")' <=> Pending("SCAN_DONE"))
    BY <1>2, <2>e, PostedKinds DEF Types, Settled, StateInv, DriverDrops
  <2>s. drv'.st = "idle" /\ UNCHANGED <<state, auto, radio, manual, active, cfg, ev, lv>>
    BY <1>2 DEF DriverDrops, Driver, NotLinked, Types, Station
  <2> USE DEF Settled, StateInv, RadioInv, CallInv, ManualInv, CfgInv,
              Deciding,
              DriverDrops
  <2>1. StateInv'
    BY <1>2, <1>d, <2>a, <2>s
  <2>2. RadioInv'
    BY <1>2, <1>d, <2>a, <2>s
  <2>3. CallInv'
    BY <1>2, <1>d, <2>a, <2>s
  <2>4. ManualInv'
    BY <1>2, <1>d, <2>a, <2>s
  <2>5. CfgInv'
    BY <1>2, <1>d, <2>a, <2>s
  <2> QED BY <2>a, <2>1, <2>2, <2>3, <2>4, <2>5 DEF Settled
<1>3. CASE DriverScanned /\ Driver
  <2>e. Event("SCAN_DONE") \in Events /\ Event("SCAN_DONE").kind = "SCAN_DONE"
    BY DriverType DEF Types, Kinds, Event
  <2>a. /\ QueueInv' /\ (Pending("STA_START")' <=> Pending("STA_START"))
        /\ (Pending("GOT_IP")' <=> Pending("GOT_IP"))
        /\ (Pending("DISCONNECTED")' <=> Pending("DISCONNECTED"))
        /\ Pending("SCAN_DONE")' /\ ~Pending("SCAN_DONE")
    BY <1>3, <2>e, PostedKinds DEF Types, Settled, StateInv, DriverScanned
  <2>s. drv'.st = drv.st /\ UNCHANGED <<state, auto, radio, manual, active, cfg, ev, lv>>
    BY <1>3 DEF DriverScanned, Driver, NotLinked, Types, Station
  <2> USE DEF Settled, StateInv, RadioInv, CallInv, ManualInv, CfgInv,
              Deciding,
              DriverScanned
  <2>1. StateInv'
    BY <1>3, <1>d, <2>a, <2>s
  <2>2. RadioInv'
    BY <1>3, <1>d, <2>a, <2>s
  <2>3. CallInv'
    BY <1>3, <1>d, <2>a, <2>s
  <2>4. ManualInv'
    BY <1>3, <1>d, <2>a, <2>s
  <2>5. CfgInv'
    BY <1>3, <1>d, <2>a, <2>s
  <2> QED BY <2>a, <2>1, <2>2, <2>3, <2>4, <2>5 DEF Settled
<1> QED BY <1>1, <1>2, <1>3 DEF Driver

\* The event task handles what is told, while no call is deciding.
LEMMA HandlerSettled ==
  ASSUME Types, ListInv, Settled, Handler, lv.at \notin Deciding
  PROVE  Settled'
<1> USE DEF linkVars, credVars, sweepVars, nvsVars, drvVars, uiVars,
            sweepHistory
<1>d. /\ drv.st \in {"off", "idle", "connecting", "online"}
      /\ state \in {"DISCONNECTED", "CONNECTING", "CONNECTED", "OFF"}
      /\ ev \in {"idle", "connect", "store", "remember", "anchor"}
      /\ auto \in BOOLEAN /\ radio \in BOOLEAN /\ manual \in BOOLEAN /\ dscan \in BOOLEAN
  BY DEF Types, Station, Steps, Flags
<1>l. UNCHANGED lv
  BY DEF Handler
<1>1. CASE StaStart
  <2>a. /\ QueueInv' /\ ev = "idle" /\ events # << >>
        /\ ~Pending("STA_START")'
        /\ (Pending("GOT_IP")' <=> Pending("GOT_IP"))
        /\ (Pending("DISCONNECTED")' <=> Pending("DISCONNECTED"))
        /\ (Pending("SCAN_DONE")' <=> Pending("SCAN_DONE"))
        /\ Pending("STA_START")
    BY <1>1, HandledKinds DEF Types, Kinds, StaStart
  <2>b. \/ drv'.st = "connecting" /\ active # None /\ cfg # None /\ state' = "CONNECTING"
        \/ drv' = drv /\ active = None /\ state' = "DISCONNECTED"
    BY <1>1, <1>l, <2>a DEF StaStart, DriverConnect, Settled, StateInv, CfgInv
  <2>c. UNCHANGED <<auto, manual, radio, active, cfg, dscan, ev>>
    BY <1>1 DEF StaStart
  <2> USE DEF Settled, StateInv, RadioInv, CallInv, ManualInv, CfgInv, Deciding
  <2>1. StateInv'
    BY <1>1, <1>d, <1>l, <2>a, <2>b, <2>c
  <2>2. RadioInv'
    BY <1>1, <1>d, <1>l, <2>a, <2>b, <2>c
  <2>3. CallInv'
    BY <1>1, <1>d, <1>l, <2>a, <2>b, <2>c
  <2>4. ManualInv'
    BY <1>1, <1>d, <1>l, <2>a, <2>b, <2>c
  <2>5. CfgInv'
    BY <1>1, <1>d, <1>l, <2>a, <2>b, <2>c
  <2> QED BY <2>a, <2>1, <2>2, <2>3, <2>4, <2>5
<1>2. CASE Dropped
  <2>a. /\ QueueInv' /\ ev = "idle" /\ events # << >>
        /\ ~Pending("STA_START")'
        /\ (Pending("GOT_IP")' <=> Pending("GOT_IP"))
        /\ Pending("DISCONNECTED") /\ ~Pending("DISCONNECTED")'
        /\ (Pending("SCAN_DONE")' <=> Pending("SCAN_DONE"))
        /\ ~Pending("STA_START")
        /\ ~Pending("GOT_IP")
    BY <1>2, HandledKinds DEF Types, Kinds, Dropped
  <2> USE DEF Settled, StateInv, RadioInv, CallInv, ManualInv, CfgInv,
              Deciding,
              Dropped, Suspended
  <2>1. StateInv'
    BY <1>2, <1>d, <1>l, <2>a
  <2>2. RadioInv'
    BY <1>2, <1>d, <1>l, <2>a
  <2>3. CallInv'
    BY <1>2, <1>d, <1>l, <2>a
  <2>4. ManualInv'
    BY <1>2, <1>d, <1>l, <2>a
  <2>5. CfgInv'
    BY <1>2, <1>d, <1>l, <2>a
  <2> QED BY <2>a, <2>1, <2>2, <2>3, <2>4, <2>5
<1>3. CASE Switched
  <2>a. /\ QueueInv' /\ ev = "idle" /\ events # << >>
        /\ ~Pending("STA_START")'
        /\ (Pending("GOT_IP")' <=> Pending("GOT_IP"))
        /\ Pending("DISCONNECTED") /\ ~Pending("DISCONNECTED")'
        /\ (Pending("SCAN_DONE")' <=> Pending("SCAN_DONE"))
        /\ ~Pending("STA_START")
        /\ ~Pending("GOT_IP")
    BY <1>3, HandledKinds DEF Types, Kinds, Switched
  <2> USE DEF Settled, StateInv, RadioInv, CallInv, ManualInv, CfgInv,
              Deciding,
              Switched, Suspended, DriverConfig, ConfigRefused
  <2>1. StateInv'
    BY <1>3, <1>d, <1>l, <2>a
  <2>2. RadioInv'
    BY <1>3, <1>d, <1>l, <2>a
  <2>3. CallInv'
    BY <1>3, <1>d, <1>l, <2>a
  <2>4. ManualInv'
    BY <1>3, <1>d, <1>l, <2>a
  <2>5. CfgInv'
    BY <1>3, <1>d, <1>l, <2>a
  <2> QED BY <2>a, <2>1, <2>2, <2>3, <2>4, <2>5
<1>4. CASE Retry
  <2>a. /\ QueueInv' /\ ev = "idle" /\ events # << >>
        /\ ~Pending("STA_START")'
        /\ (Pending("GOT_IP")' <=> Pending("GOT_IP"))
        /\ Pending("DISCONNECTED") /\ ~Pending("DISCONNECTED")'
        /\ (Pending("SCAN_DONE")' <=> Pending("SCAN_DONE"))
        /\ ~Pending("STA_START")
        /\ ~Pending("GOT_IP")
    BY <1>4, HandledKinds DEF Types, Kinds, Retry, Failure
  <2> USE DEF Settled, StateInv, RadioInv, CallInv, ManualInv, CfgInv,
              Deciding,
              Retry, Failure, Suspended, DriverConnect
  <2>1. StateInv'
    BY <1>4, <1>d, <1>l, <2>a
  <2>2. RadioInv'
    BY <1>4, <1>d, <1>l, <2>a
  <2>3. CallInv'
    BY <1>4, <1>d, <1>l, <2>a
  <2>4. ManualInv'
    BY <1>4, <1>d, <1>l, <2>a
  <2>5. CfgInv'
    BY <1>4, <1>d, <1>l, <2>a
  <2> QED BY <2>a, <2>1, <2>2, <2>3, <2>4, <2>5
<1>5. CASE UnsavedFails
  <2>a. /\ QueueInv' /\ ev = "idle" /\ events # << >>
        /\ ~Pending("STA_START")'
        /\ (Pending("GOT_IP")' <=> Pending("GOT_IP"))
        /\ Pending("DISCONNECTED") /\ ~Pending("DISCONNECTED")'
        /\ (Pending("SCAN_DONE")' <=> Pending("SCAN_DONE"))
        /\ ~Pending("STA_START")
        /\ ~Pending("GOT_IP")
    BY <1>5, HandledKinds DEF Types, Kinds, UnsavedFails, Failure
  <2> USE DEF Settled, StateInv, RadioInv, CallInv, ManualInv, CfgInv,
              Deciding,
              UnsavedFails, Failure, Suspended
  <2>1. StateInv'
    BY <1>5, <1>d, <1>l, <2>a
  <2>2. RadioInv'
    BY <1>5, <1>d, <1>l, <2>a
  <2>3. CallInv'
    BY <1>5, <1>d, <1>l, <2>a
  <2>4. ManualInv'
    BY <1>5, <1>d, <1>l, <2>a
  <2>5. CfgInv'
    BY <1>5, <1>d, <1>l, <2>a
  <2> QED BY <2>a, <2>1, <2>2, <2>3, <2>4, <2>5
<1>6. CASE NextNetwork
  <2>a. /\ QueueInv' /\ ev = "idle" /\ events # << >>
        /\ ~Pending("STA_START")'
        /\ (Pending("GOT_IP")' <=> Pending("GOT_IP"))
        /\ Pending("DISCONNECTED") /\ ~Pending("DISCONNECTED")'
        /\ (Pending("SCAN_DONE")' <=> Pending("SCAN_DONE"))
        /\ ~Pending("STA_START")
        /\ ~Pending("GOT_IP")
    BY <1>6, HandledKinds DEF Types, Kinds, NextNetwork, Failure
  <2>b. active' \in Nets /\ active' # None
    BY <1>6, NextActive DEF Types
  <2> USE DEF Settled, StateInv, RadioInv, CallInv, ManualInv, CfgInv,
              Deciding,
              NextNetwork, Failure, Suspended, DriverConfig, ConfigRefused
  <2>1. StateInv'
    BY <1>6, <1>d, <1>l, <2>a, <2>b
  <2>2. RadioInv'
    BY <1>6, <1>d, <1>l, <2>a, <2>b
  <2>3. CallInv'
    BY <1>6, <1>d, <1>l, <2>a, <2>b
  <2>4. ManualInv'
    BY <1>6, <1>d, <1>l, <2>a, <2>b
  <2>5. CfgInv'
    BY <1>6, <1>d, <1>l, <2>a, <2>b
  <2> QED BY <2>a, <2>1, <2>2, <2>3, <2>4, <2>5
<1>7. CASE GiveUp
  <2>a. /\ QueueInv' /\ ev = "idle" /\ events # << >>
        /\ ~Pending("STA_START")'
        /\ (Pending("GOT_IP")' <=> Pending("GOT_IP"))
        /\ Pending("DISCONNECTED") /\ ~Pending("DISCONNECTED")'
        /\ (Pending("SCAN_DONE")' <=> Pending("SCAN_DONE"))
        /\ ~Pending("STA_START")
        /\ ~Pending("GOT_IP")
    BY <1>7, HandledKinds DEF Types, Kinds, GiveUp, Failure
  <2> USE DEF Settled, StateInv, RadioInv, CallInv, ManualInv, CfgInv,
              Deciding,
              GiveUp, Failure, Suspended
  <2>1. StateInv'
    BY <1>7, <1>d, <1>l, <2>a
  <2>2. RadioInv'
    BY <1>7, <1>d, <1>l, <2>a
  <2>3. CallInv'
    BY <1>7, <1>d, <1>l, <2>a
  <2>4. ManualInv'
    BY <1>7, <1>d, <1>l, <2>a
  <2>5. CfgInv'
    BY <1>7, <1>d, <1>l, <2>a
  <2> QED BY <2>a, <2>1, <2>2, <2>3, <2>4, <2>5
<1>8. CASE ScanDone
  <2>a. /\ QueueInv' /\ ev = "idle" /\ events # << >>
        /\ ~Pending("STA_START")'
        /\ (Pending("GOT_IP")' <=> Pending("GOT_IP"))
        /\ (Pending("DISCONNECTED")' <=> Pending("DISCONNECTED"))
        /\ Pending("SCAN_DONE") /\ ~Pending("SCAN_DONE")'
        /\ ~Pending("STA_START")
    BY <1>8, HandledKinds DEF Types, Kinds, ScanDone
  <2>b. \/ /\ drv'.st = "connecting" /\ active # None /\ cfg # None /\ state' = "CONNECTING"
           /\ auto /\ ~Pending("DISCONNECTED") /\ ~Pending("GOT_IP") /\ radio
        \/ UNCHANGED <<drv, state>>
    BY <1>8, <1>l, <1>d, <2>a
    DEF ScanDone, DriverConnect, Settled, StateInv, CfgInv, RadioInv, Deciding
  <2>c. UNCHANGED <<auto, manual, radio, active, cfg, dscan, ev>>
    BY <1>8 DEF ScanDone
  <2> USE DEF Settled, StateInv, RadioInv, CallInv, ManualInv, CfgInv, Deciding
  <2>1. StateInv'
    BY <1>8, <1>d, <1>l, <2>a, <2>b, <2>c
  <2>2. RadioInv'
    BY <1>8, <1>d, <1>l, <2>a, <2>b, <2>c
  <2>3. CallInv'
    BY <1>8, <1>d, <1>l, <2>a, <2>b, <2>c
  <2>4. ManualInv'
    BY <1>8, <1>d, <1>l, <2>a, <2>b, <2>c
  <2>5. CfgInv'
    BY <1>8, <1>d, <1>l, <2>a, <2>b, <2>c
  <2> QED BY <2>a, <2>1, <2>2, <2>3, <2>4, <2>5
<1>9. CASE GotIp
  <2>a. /\ QueueInv' /\ ev = "idle" /\ events # << >>
        /\ ~Pending("STA_START")'
        /\ Pending("GOT_IP") /\ ~Pending("GOT_IP")'
        /\ (Pending("DISCONNECTED")' <=> Pending("DISCONNECTED"))
        /\ (Pending("SCAN_DONE")' <=> Pending("SCAN_DONE"))
        /\ ~Pending("STA_START")
    BY <1>9, HandledKinds DEF Types, Kinds, GotIp
  <2> USE DEF Settled, StateInv, RadioInv, CallInv, ManualInv, CfgInv,
              Deciding,
              GotIp
  <2>1. StateInv'
    BY <1>9, <1>d, <1>l, <2>a
  <2>2. RadioInv'
    BY <1>9, <1>d, <1>l, <2>a
  <2>3. CallInv'
    BY <1>9, <1>d, <1>l, <2>a
  <2>4. ManualInv'
    BY <1>9, <1>d, <1>l, <2>a
  <2>5. CfgInv'
    BY <1>9, <1>d, <1>l, <2>a
  <2> QED BY <2>a, <2>1, <2>2, <2>3, <2>4, <2>5
<1>10. CASE HandlerConnects
  <2>a. /\ QueueInv'
        /\ Pending("STA_START")' <=> Pending("STA_START")
        /\ Pending("GOT_IP")' <=> Pending("GOT_IP")
        /\ Pending("DISCONNECTED")' <=> Pending("DISCONNECTED")
        /\ Pending("SCAN_DONE")' <=> Pending("SCAN_DONE")
    BY <1>10, SameKinds DEF HandlerConnects
  <2> USE DEF Settled, StateInv, RadioInv, CallInv, ManualInv, CfgInv,
              Deciding,
              HandlerConnects, DriverConnect
  <2>1. StateInv'
    BY <1>10, <1>d, <1>l, <2>a
  <2>2. RadioInv'
    BY <1>10, <1>d, <1>l, <2>a
  <2>3. CallInv'
    BY <1>10, <1>d, <1>l, <2>a
  <2>4. ManualInv'
    BY <1>10, <1>d, <1>l, <2>a
  <2>5. CfgInv'
    BY <1>10, <1>d, <1>l, <2>a
  <2> QED BY <2>a, <2>1, <2>2, <2>3, <2>4, <2>5
<1>11. CASE HandlerStores
  <2>a. /\ QueueInv'
        /\ Pending("STA_START")' <=> Pending("STA_START")
        /\ Pending("GOT_IP")' <=> Pending("GOT_IP")
        /\ Pending("DISCONNECTED")' <=> Pending("DISCONNECTED")
        /\ Pending("SCAN_DONE")' <=> Pending("SCAN_DONE")
    BY <1>11, SameKinds DEF HandlerStores
  <2> USE DEF Settled, StateInv, RadioInv, CallInv, ManualInv, CfgInv,
              Deciding,
              HandlerStores
  <2>1. StateInv'
    BY <1>11, <1>d, <1>l, <2>a
  <2>2. RadioInv'
    BY <1>11, <1>d, <1>l, <2>a
  <2>3. CallInv'
    BY <1>11, <1>d, <1>l, <2>a
  <2>4. ManualInv'
    BY <1>11, <1>d, <1>l, <2>a
  <2>5. CfgInv'
    BY <1>11, <1>d, <1>l, <2>a
  <2> QED BY <2>a, <2>1, <2>2, <2>3, <2>4, <2>5
<1>12. CASE Remember
  <2>a. /\ QueueInv'
        /\ Pending("STA_START")' <=> Pending("STA_START")
        /\ Pending("GOT_IP")' <=> Pending("GOT_IP")
        /\ Pending("DISCONNECTED")' <=> Pending("DISCONNECTED")
        /\ Pending("SCAN_DONE")' <=> Pending("SCAN_DONE")
    BY <1>12, SameKinds DEF Remember
  <2> USE DEF Settled, StateInv, RadioInv, CallInv, ManualInv, CfgInv,
              Deciding,
              Remember
  <2>1. StateInv'
    BY <1>12, <1>d, <1>l, <2>a
  <2>2. RadioInv'
    BY <1>12, <1>d, <1>l, <2>a
  <2>3. CallInv'
    BY <1>12, <1>d, <1>l, <2>a
  <2>4. ManualInv'
    BY <1>12, <1>d, <1>l, <2>a
  <2>5. CfgInv'
    BY <1>12, <1>d, <1>l, <2>a
  <2> QED BY <2>a, <2>1, <2>2, <2>3, <2>4, <2>5
<1>13. CASE Reanchor
  <2>a. /\ QueueInv'
        /\ Pending("STA_START")' <=> Pending("STA_START")
        /\ Pending("GOT_IP")' <=> Pending("GOT_IP")
        /\ Pending("DISCONNECTED")' <=> Pending("DISCONNECTED")
        /\ Pending("SCAN_DONE")' <=> Pending("SCAN_DONE")
    BY <1>13, SameKinds DEF Reanchor
  <2> USE DEF Settled, StateInv, RadioInv, CallInv, ManualInv, CfgInv,
              Deciding,
              Reanchor
  <2>1. StateInv'
    BY <1>13, <1>d, <1>l, <2>a
  <2>2. RadioInv'
    BY <1>13, <1>d, <1>l, <2>a
  <2>3. CallInv'
    BY <1>13, <1>d, <1>l, <2>a
  <2>4. ManualInv'
    BY <1>13, <1>d, <1>l, <2>a
  <2>5. CfgInv'
    BY <1>13, <1>d, <1>l, <2>a
  <2> QED BY <2>a, <2>1, <2>2, <2>3, <2>4, <2>5
<1> QED
  BY <1>1, <1>2, <1>3, <1>4, <1>5, <1>6, <1>7, <1>8, <1>9, <1>10, <1>11,
     <1>12, <1>13
  DEF Handler

\* A call takes a step, while no handler and no event is waiting.
LEMMA CallSettled ==
  ASSUME Types, ListInv, Settled, Lvgl, ev = "idle", events = << >>
  PROVE  Settled'
<1> USE DEF linkVars, credVars, sweepVars, nvsVars, drvVars, uiVars,
            sweepHistory
<1>d. /\ drv.st \in {"off", "idle", "connecting", "online"}
      /\ state \in {"DISCONNECTED", "CONNECTING", "CONNECTED", "OFF"}
      /\ ev \in {"idle", "connect", "store", "remember", "anchor"}
      /\ auto \in BOOLEAN /\ radio \in BOOLEAN /\ manual \in BOOLEAN /\ dscan \in BOOLEAN
  BY DEF Types, Station, Steps, Flags
<1>k. /\ ~Pending("STA_START") /\ ~Pending("GOT_IP")
      /\ ~Pending("DISCONNECTED") /\ ~Pending("SCAN_DONE")
  BY NoKinds
<1>1. CASE RadioOn
  <2>a. /\ QueueInv'
        /\ TRUE /\ ~Pending("GOT_IP")'
        /\ ~Pending("DISCONNECTED")' /\ ~Pending("SCAN_DONE")'
        /\ \/ RadioUp /\ Pending("STA_START")' /\ ~radio
           \/ events' = << >> /\ ~Pending("STA_START")' /\ UNCHANGED <<drv, radio, linkVars>>
    BY <1>1, <1>k, Starts, SameKinds DEF RadioOn
  <2> USE DEF Settled, StateInv, RadioInv, CallInv, ManualInv, CfgInv,
              Deciding,
              RadioOn, Call, Idle, At, RadioUp, NotLinked
  <2>1. StateInv'
    BY <1>1, <1>d, <1>k, <2>a
  <2>2. RadioInv'
    BY <1>1, <1>d, <1>k, <2>a
  <2>3. CallInv'
    BY <1>1, <1>d, <1>k, <2>a
  <2>4. ManualInv'
    BY <1>1, <1>d, <1>k, <2>a
  <2>5. CfgInv'
    BY <1>1, <1>d, <1>k, <2>a
  <2> QED BY <2>a, <2>1, <2>2, <2>3, <2>4, <2>5
<1>2. CASE RadioOff
  <2>a. /\ QueueInv' /\ drv'.st = (IF drv.st = "off" THEN "off" ELSE "idle")
        /\ Pending("DISCONNECTED")' <=> drv.st \in {"connecting", "online"}
        /\ ~Pending("STA_START")' /\ ~Pending("GOT_IP")' /\ ~Pending("SCAN_DONE")'
        /\ Pending("DISCONNECTED")' \/ events' = << >>
    BY <1>2, Disconnects DEF RadioOff
  <2> USE DEF Settled, StateInv, RadioInv, CallInv, ManualInv, CfgInv,
              Deciding,
              RadioOff, Call, Idle, At
  <2>1. StateInv'
    BY <1>2, <1>d, <1>k, <2>a
  <2>2. RadioInv'
    BY <1>2, <1>d, <1>k, <2>a
  <2>3. CallInv'
    BY <1>2, <1>d, <1>k, <2>a
  <2>4. ManualInv'
    BY <1>2, <1>d, <1>k, <2>a
  <2>5. CfgInv'
    BY <1>2, <1>d, <1>k, <2>a
  <2> QED BY <2>a, <2>1, <2>2, <2>3, <2>4, <2>5
<1>3. CASE ConnectBegins
  <2>s. IF radio THEN UNCHANGED <<drv, events, radio, linkVars>>
        ELSE /\ drv' = NotLinked /\ radio' /\ auto' /\ ~manual'
             /\ state' \in {state, "DISCONNECTED"}
    BY <1>3 DEF ConnectBegins, RadioUp
  <2>a. /\ QueueInv'
        /\ TRUE /\ ~Pending("GOT_IP")'
        /\ ~Pending("DISCONNECTED")' /\ ~Pending("SCAN_DONE")'
        /\ \/ RadioUp /\ Pending("STA_START")' /\ ~radio
           \/ events' = << >> /\ ~Pending("STA_START")' /\ UNCHANGED <<drv, radio, linkVars>>
    BY <1>3, <1>k, Starts, SameKinds DEF ConnectBegins
  <2>b. lv'.at = "choose" /\ lv.at = "idle" /\ UNCHANGED <<active, cfg, dscan, ev>>
    BY <1>3 DEF ConnectBegins, Call, Idle
  <2>c. \/ /\ drv'.st = "idle" /\ radio' /\ auto' /\ ~manual' /\ Pending("STA_START")'
           /\ state' \in {state, "DISCONNECTED"} /\ ~radio
        \/ UNCHANGED <<drv, radio, state, auto, manual>> /\ radio /\ ~Pending("STA_START")'
    BY <1>3, <2>a, <1>d, <2>s DEF NotLinked
  <2> USE DEF Settled, StateInv, RadioInv, CallInv, ManualInv, CfgInv, Deciding
  <2>1. StateInv'
    BY <1>3, <1>d, <1>k, <2>a, <2>b, <2>c
  <2>2. RadioInv'
    BY <1>3, <1>d, <1>k, <2>a, <2>b, <2>c
  <2>3. CallInv'
    BY <1>3, <1>d, <1>k, <2>a, <2>b, <2>c
  <2>4. ManualInv'
    BY <1>3, <1>d, <1>k, <2>a, <2>b, <2>c
  <2>5. CfgInv'
    BY <1>3, <1>d, <1>k, <2>a, <2>b, <2>c
  <2> QED BY <2>a, <2>1, <2>2, <2>3, <2>4, <2>5
<1>4. CASE Forget
  <2>a. /\ QueueInv' /\ events' = << >>
        /\ ~Pending("STA_START")' /\ ~Pending("GOT_IP")'
        /\ ~Pending("DISCONNECTED")' /\ ~Pending("SCAN_DONE")'
    BY <1>4, <1>k, SameKinds DEF Forget
  <2> USE DEF Settled, StateInv, RadioInv, CallInv, ManualInv, CfgInv,
              Deciding,
              Forget, Call, Idle, At
  <2>1. StateInv'
    BY <1>4, <1>d, <1>k, <2>a
  <2>2. RadioInv'
    BY <1>4, <1>d, <1>k, <2>a
  <2>3. CallInv'
    BY <1>4, <1>d, <1>k, <2>a
  <2>4. ManualInv'
    BY <1>4, <1>d, <1>k, <2>a
  <2>5. CfgInv'
    BY <1>4, <1>d, <1>k, <2>a
  <2> QED BY <2>a, <2>1, <2>2, <2>3, <2>4, <2>5
<1>5. CASE Disconnect
  <2>a. /\ QueueInv' /\ drv'.st = (IF drv.st = "off" THEN "off" ELSE "idle")
        /\ Pending("DISCONNECTED")' <=> drv.st \in {"connecting", "online"}
        /\ ~Pending("STA_START")' /\ ~Pending("GOT_IP")' /\ ~Pending("SCAN_DONE")'
        /\ Pending("DISCONNECTED")' \/ events' = << >>
    BY <1>5, Disconnects DEF Disconnect
  <2> USE DEF Settled, StateInv, RadioInv, CallInv, ManualInv, CfgInv,
              Deciding,
              Disconnect, Call, Idle, At
  <2>1. StateInv'
    BY <1>5, <1>d, <1>k, <2>a
  <2>2. RadioInv'
    BY <1>5, <1>d, <1>k, <2>a
  <2>3. CallInv'
    BY <1>5, <1>d, <1>k, <2>a
  <2>4. ManualInv'
    BY <1>5, <1>d, <1>k, <2>a
  <2>5. CfgInv'
    BY <1>5, <1>d, <1>k, <2>a
  <2> QED BY <2>a, <2>1, <2>2, <2>3, <2>4, <2>5
<1>6. CASE Scan
  <2>a. /\ QueueInv' /\ drv'.st = (IF drv.st = "off" THEN "off" ELSE "idle")
        /\ Pending("DISCONNECTED")' <=> drv.st \in {"connecting", "online"}
        /\ ~Pending("STA_START")' /\ ~Pending("GOT_IP")' /\ ~Pending("SCAN_DONE")'
        /\ Pending("DISCONNECTED")' \/ events' = << >>
    BY <1>6, <1>k, <1>d, Disconnects, SameKinds DEF Scan, Settled, StateInv
  <2> USE DEF Settled, StateInv, RadioInv, CallInv, ManualInv, CfgInv,
              Deciding,
              Scan, Call, Idle, At, DriverDisconnect, NotLinked
  <2>1. StateInv'
    BY <1>6, <1>d, <1>k, <2>a
  <2>2. RadioInv'
    BY <1>6, <1>d, <1>k, <2>a
  <2>3. CallInv'
    BY <1>6, <1>d, <1>k, <2>a
  <2>4. ManualInv'
    BY <1>6, <1>d, <1>k, <2>a
  <2>5. CfgInv'
    BY <1>6, <1>d, <1>k, <2>a
  <2> QED BY <2>a, <2>1, <2>2, <2>3, <2>4, <2>5
<1>7. CASE PollResult
  <2>a. /\ QueueInv' /\ events' = << >>
        /\ ~Pending("STA_START")' /\ ~Pending("GOT_IP")'
        /\ ~Pending("DISCONNECTED")' /\ ~Pending("SCAN_DONE")'
    BY <1>7, <1>k, SameKinds DEF PollResult
  <2> USE DEF Settled, StateInv, RadioInv, CallInv, ManualInv, CfgInv,
              Deciding,
              PollResult, Call, Idle, At
  <2>1. StateInv'
    BY <1>7, <1>d, <1>k, <2>a
  <2>2. RadioInv'
    BY <1>7, <1>d, <1>k, <2>a
  <2>3. CallInv'
    BY <1>7, <1>d, <1>k, <2>a
  <2>4. ManualInv'
    BY <1>7, <1>d, <1>k, <2>a
  <2>5. CfgInv'
    BY <1>7, <1>d, <1>k, <2>a
  <2> QED BY <2>a, <2>1, <2>2, <2>3, <2>4, <2>5
<1>8. CASE RadioStops
  <2>a. /\ QueueInv' /\ events' = << >>
        /\ ~Pending("STA_START")' /\ ~Pending("GOT_IP")'
        /\ ~Pending("DISCONNECTED")' /\ ~Pending("SCAN_DONE")'
    BY <1>8, <1>k, SameKinds DEF RadioStops, Settled, RadioInv
  <2> USE DEF Settled, StateInv, RadioInv, CallInv, ManualInv, CfgInv,
              Deciding,
              RadioStops, Idle, At, Stopped
  <2>1. StateInv'
    BY <1>8, <1>d, <1>k, <2>a
  <2>2. RadioInv'
    BY <1>8, <1>d, <1>k, <2>a
  <2>3. CallInv'
    BY <1>8, <1>d, <1>k, <2>a
  <2>4. ManualInv'
    BY <1>8, <1>d, <1>k, <2>a
  <2>5. CfgInv'
    BY <1>8, <1>d, <1>k, <2>a
  <2> QED BY <2>a, <2>1, <2>2, <2>3, <2>4, <2>5
<1>9. CASE Choose
  <2>a. /\ QueueInv' /\ events' = << >>
        /\ ~Pending("STA_START")' /\ ~Pending("GOT_IP")'
        /\ ~Pending("DISCONNECTED")' /\ ~Pending("SCAN_DONE")'
    BY <1>9, <1>k, SameKinds DEF Choose
  <2>b. /\ lv.at = "choose" /\ lv'.at = "decide" /\ active' # None /\ auto'
        /\ state # "CONNECTED" => lv'.seen = state
        /\ state = "CONNECTED" => lv'.seen \in {"this one", "another one"}
        /\ UNCHANGED <<state, manual, radio, drv, cfg, dscan, ev>>
    BY <1>9, ChosenNet DEF Choose, Types, CallType, Calls
  <2>c. active' # None
    BY <1>9, ChosenNet DEF Types, Choose
  <2> USE DEF Settled, StateInv, RadioInv, CallInv, ManualInv, CfgInv, Deciding
  <2>1. StateInv'
    BY <1>9, <1>d, <1>k, <2>a, <2>b, <2>c
  <2>2. RadioInv'
    BY <1>9, <1>d, <1>k, <2>a, <2>b, <2>c
  <2>3. CallInv'
    BY <1>9, <1>d, <1>k, <2>a, <2>b, <2>c
  <2>4. ManualInv'
    BY <1>9, <1>d, <1>k, <2>a, <2>b, <2>c
  <2>5. CfgInv'
    BY <1>9, <1>d, <1>k, <2>a, <2>b, <2>c
  <2> QED BY <2>a, <2>1, <2>2, <2>3, <2>4, <2>5
<1>10. CASE KeepLink
  <2>a. /\ QueueInv' /\ events' = << >>
        /\ ~Pending("STA_START")' /\ ~Pending("GOT_IP")'
        /\ ~Pending("DISCONNECTED")' /\ ~Pending("SCAN_DONE")'
    BY <1>10, <1>k, SameKinds DEF KeepLink
  <2> USE DEF Settled, StateInv, RadioInv, CallInv, ManualInv, CfgInv,
              Deciding,
              KeepLink, Idle, At
  <2>1. StateInv'
    BY <1>10, <1>d, <1>k, <2>a
  <2>2. RadioInv'
    BY <1>10, <1>d, <1>k, <2>a
  <2>3. CallInv'
    BY <1>10, <1>d, <1>k, <2>a
  <2>4. ManualInv'
    BY <1>10, <1>d, <1>k, <2>a
  <2>5. CfgInv'
    BY <1>10, <1>d, <1>k, <2>a
  <2> QED BY <2>a, <2>1, <2>2, <2>3, <2>4, <2>5
<1>11. CASE StopAttempt
  <2>a. /\ QueueInv' /\ drv'.st = (IF drv.st = "off" THEN "off" ELSE "idle")
        /\ Pending("DISCONNECTED")' <=> drv.st \in {"connecting", "online"}
        /\ ~Pending("STA_START")' /\ ~Pending("GOT_IP")' /\ ~Pending("SCAN_DONE")'
        /\ Pending("DISCONNECTED")' \/ events' = << >>
    BY <1>11, Disconnects DEF StopAttempt
  <2> USE DEF Settled, StateInv, RadioInv, CallInv, ManualInv, CfgInv,
              Deciding,
              StopAttempt, Idle, At
  <2>1. StateInv'
    BY <1>11, <1>d, <1>k, <2>a
  <2>2. RadioInv'
    BY <1>11, <1>d, <1>k, <2>a
  <2>3. CallInv'
    BY <1>11, <1>d, <1>k, <2>a
  <2>4. ManualInv'
    BY <1>11, <1>d, <1>k, <2>a
  <2>5. CfgInv'
    BY <1>11, <1>d, <1>k, <2>a
  <2> QED BY <2>a, <2>1, <2>2, <2>3, <2>4, <2>5
<1>12. CASE ApplyNet
  <2>a. /\ QueueInv' /\ events' = << >>
        /\ ~Pending("STA_START")' /\ ~Pending("GOT_IP")'
        /\ ~Pending("DISCONNECTED")' /\ ~Pending("SCAN_DONE")'
    BY <1>12, <1>k, SameKinds DEF ApplyNet
  <2>b. /\ drv.st # "connecting" /\ cfg' = active /\ active # None /\ lv.at = "decide"
        /\ UNCHANGED <<state, auto, manual, radio, active, drv, dscan, ev>>
    BY <1>12, <1>d
    DEF ApplyNet, DriverConfig, ConfigRefused, Settled, StateInv, CallInv,
        Deciding
  <2>c. \/ lv'.at = "switch" /\ state = "CONNECTED"
        \/ lv'.at = "connect" /\ state \in {"DISCONNECTED", "OFF"}
    BY <1>12, <1>d, <2>b, AtFacts
    DEF ApplyNet, ConfigRefused, Types, Settled, CallInv
  <2>d. radio
    BY <1>12 DEF ApplyNet, Settled, RadioInv, Deciding
  <2> USE DEF Settled, StateInv, RadioInv, CallInv, ManualInv, CfgInv, Deciding
  <2>1. StateInv'
    BY <1>12, <1>d, <1>k, <2>a, <2>b, <2>c, <2>d
  <2>2. RadioInv'
    BY <1>12, <1>d, <1>k, <2>a, <2>b, <2>c, <2>d
  <2>3. CallInv'
    BY <1>12, <1>d, <1>k, <2>a, <2>b, <2>c, <2>d
  <2>4. ManualInv'
    BY <1>12, <1>d, <1>k, <2>a, <2>b, <2>c, <2>d
  <2>5. CfgInv'
    BY <1>12, <1>d, <1>k, <2>a, <2>b, <2>c, <2>d
  <2> QED BY <2>a, <2>1, <2>2, <2>3, <2>4, <2>5
<1>13. CASE SwitchNet
  <2>a. /\ QueueInv' /\ drv'.st = (IF drv.st = "off" THEN "off" ELSE "idle")
        /\ Pending("DISCONNECTED")' <=> drv.st \in {"connecting", "online"}
        /\ ~Pending("STA_START")' /\ ~Pending("GOT_IP")' /\ ~Pending("SCAN_DONE")'
        /\ Pending("DISCONNECTED")' \/ events' = << >>
    BY <1>13, Disconnects DEF SwitchNet
  <2> USE DEF Settled, StateInv, RadioInv, CallInv, ManualInv, CfgInv,
              Deciding,
              SwitchNet, Idle, At
  <2>1. StateInv'
    BY <1>13, <1>d, <1>k, <2>a
  <2>2. RadioInv'
    BY <1>13, <1>d, <1>k, <2>a
  <2>3. CallInv'
    BY <1>13, <1>d, <1>k, <2>a
  <2>4. ManualInv'
    BY <1>13, <1>d, <1>k, <2>a
  <2>5. CfgInv'
    BY <1>13, <1>d, <1>k, <2>a
  <2> QED BY <2>a, <2>1, <2>2, <2>3, <2>4, <2>5
<1>14. CASE ConnectNet
  <2>a. /\ QueueInv' /\ events' = << >>
        /\ ~Pending("STA_START")' /\ ~Pending("GOT_IP")'
        /\ ~Pending("DISCONNECTED")' /\ ~Pending("SCAN_DONE")'
    BY <1>14, <1>k, SameKinds DEF ConnectNet
  <2> USE DEF Settled, StateInv, RadioInv, CallInv, ManualInv, CfgInv,
              Deciding,
              ConnectNet, Idle, At, DriverConnect
  <2>1. StateInv'
    BY <1>14, <1>d, <1>k, <2>a
  <2>2. RadioInv'
    BY <1>14, <1>d, <1>k, <2>a
  <2>3. CallInv'
    BY <1>14, <1>d, <1>k, <2>a
  <2>4. ManualInv'
    BY <1>14, <1>d, <1>k, <2>a
  <2>5. CfgInv'
    BY <1>14, <1>d, <1>k, <2>a
  <2> QED BY <2>a, <2>1, <2>2, <2>3, <2>4, <2>5
<1>15. CASE ForgetStores
  <2>a. /\ QueueInv' /\ events' = << >>
        /\ ~Pending("STA_START")' /\ ~Pending("GOT_IP")'
        /\ ~Pending("DISCONNECTED")' /\ ~Pending("SCAN_DONE")'
    BY <1>15, <1>k, SameKinds DEF ForgetStores
  <2>b. /\ lv.at = "store" /\ lv'.at \in {"clear", "idle"}
        /\ UNCHANGED <<state, auto, manual, radio, active, drv, cfg, dscan, ev>>
    BY <1>15, AtFacts DEF ForgetStores, Types
  <2> USE DEF Settled, StateInv, RadioInv, CallInv, ManualInv, CfgInv, Deciding
  <2>1. StateInv'
    BY <1>15, <1>d, <1>k, <2>a, <2>b
  <2>2. RadioInv'
    BY <1>15, <1>d, <1>k, <2>a, <2>b
  <2>3. CallInv'
    BY <1>15, <1>d, <1>k, <2>a, <2>b
  <2>4. ManualInv'
    BY <1>15, <1>d, <1>k, <2>a, <2>b
  <2>5. CfgInv'
    BY <1>15, <1>d, <1>k, <2>a, <2>b
  <2> QED BY <2>a, <2>1, <2>2, <2>3, <2>4, <2>5
<1>16. CASE ForgetClears
  <2>a. /\ QueueInv'
        /\ ~Pending("STA_START")' /\ ~Pending("GOT_IP")' /\ ~Pending("SCAN_DONE")'
        /\ Pending("DISCONNECTED")' \/ events' = << >>
        /\ \/ UNCHANGED drv /\ ~Pending("DISCONNECTED")'
           \/ /\ drv'.st = (IF drv.st = "off" THEN "off" ELSE "idle")
              /\ Pending("DISCONNECTED")' <=> drv.st \in {"connecting", "online"}
    BY <1>16, <1>k, <1>d, Disconnects, SameKinds
    DEF ForgetClears, Settled, StateInv
  <2>b. /\ lv'.at = "idle" /\ lv.at = "clear" /\ UNCHANGED <<radio, cfg, dscan, ev>>
        /\ \/ /\ drv'.st \in {"off", "idle"} /\ (drv'.st = "off" <=> drv.st = "off")
              /\ active' = None /\ ~auto' /\ state' = "DISCONNECTED"
              /\ Pending("DISCONNECTED")' <=> drv.st \in {"connecting", "online"}
           \/ UNCHANGED <<active, state, auto, manual, drv, events>> /\ ~Pending("DISCONNECTED")'
    BY <1>16, <1>d, <1>k, Disconnects, SameKinds
    DEF ForgetClears, Idle, Settled, StateInv
  <2> USE DEF Settled, StateInv, RadioInv, CallInv, ManualInv, CfgInv, Deciding
  <2>1. StateInv'
    BY <1>16, <1>d, <1>k, <2>a, <2>b
  <2>2. RadioInv'
    BY <1>16, <1>d, <1>k, <2>a, <2>b
  <2>3. CallInv'
    BY <1>16, <1>d, <1>k, <2>a, <2>b
  <2>4. ManualInv'
    BY <1>16, <1>d, <1>k, <2>a, <2>b
  <2>5. CfgInv'
    BY <1>16, <1>d, <1>k, <2>a, <2>b
  <2> QED BY <2>a, <2>1, <2>2, <2>3, <2>4, <2>5
<1>17. CASE ScanFlag
  <2>a. /\ QueueInv' /\ events' = << >>
        /\ ~Pending("STA_START")' /\ ~Pending("GOT_IP")'
        /\ ~Pending("DISCONNECTED")' /\ ~Pending("SCAN_DONE")'
    BY <1>17, <1>k, SameKinds DEF ScanFlag
  <2> USE DEF Settled, StateInv, RadioInv, CallInv, ManualInv, CfgInv,
              Deciding,
              ScanFlag, Idle, At
  <2>1. StateInv'
    BY <1>17, <1>d, <1>k, <2>a
  <2>2. RadioInv'
    BY <1>17, <1>d, <1>k, <2>a
  <2>3. CallInv'
    BY <1>17, <1>d, <1>k, <2>a
  <2>4. ManualInv'
    BY <1>17, <1>d, <1>k, <2>a
  <2>5. CfgInv'
    BY <1>17, <1>d, <1>k, <2>a
  <2> QED BY <2>a, <2>1, <2>2, <2>3, <2>4, <2>5
<1>18. CASE ScanStarts
  <2>a. /\ QueueInv' /\ events' = << >>
        /\ ~Pending("STA_START")' /\ ~Pending("GOT_IP")'
        /\ ~Pending("DISCONNECTED")' /\ ~Pending("SCAN_DONE")'
    BY <1>18, <1>k, SameKinds DEF ScanStarts
  <2> USE DEF Settled, StateInv, RadioInv, CallInv, ManualInv, CfgInv,
              Deciding,
              ScanStarts, Idle, At
  <2>1. StateInv'
    BY <1>18, <1>d, <1>k, <2>a
  <2>2. RadioInv'
    BY <1>18, <1>d, <1>k, <2>a
  <2>3. CallInv'
    BY <1>18, <1>d, <1>k, <2>a
  <2>4. ManualInv'
    BY <1>18, <1>d, <1>k, <2>a
  <2>5. CfgInv'
    BY <1>18, <1>d, <1>k, <2>a
  <2> QED BY <2>a, <2>1, <2>2, <2>3, <2>4, <2>5
<1> QED
  BY <1>1, <1>2, <1>3, <1>4, <1>5, <1>6, <1>7, <1>8, <1>9, <1>10, <1>11,
     <1>12, <1>13, <1>14, <1>15, <1>16, <1>17, <1>18
  DEF Lvgl, CallStep

\* The driver goes on with the network it has.
LEMMA DriverFollowed ==
  ASSUME Types, Settled, Followed, Driver
  PROVE  Followed'
<1> USE DEF linkVars, credVars, sweepVars, nvsVars, drvVars, uiVars,
            sweepHistory
<1>d. /\ drv.st \in {"off", "idle", "connecting", "online"}
      /\ state \in {"DISCONNECTED", "CONNECTING", "CONNECTED", "OFF"}
      /\ ev \in {"idle", "connect", "store", "remember", "anchor"}
  BY DEF Types, Station, Steps
<1>1. Pending("DISCONNECTED") => Pending("DISCONNECTED")'
  <2>1. PICK e \in Events : events' = Append(events, e)
    BY DriverType
    DEF Driver, DriverOnline, DriverDrops, DriverScanned, Types, Kinds
  <2>2. \A k \in Kinds : Pending(k)' <=> Pending(k) \/ k = e.kind
    BY <2>1, Posted DEF Types, Queue
  <2> QED BY <2>2 DEF Kinds
<1>2. /\ drv'.st \in {"connecting", "online"}
           => drv.st \in {"connecting", "online"} /\ drv'.net = drv.net
      /\ UNCHANGED <<active, cfg, lv, manual, auto>>
  BY <1>d
  DEF Driver, DriverOnline, DriverDrops, DriverScanned, NotLinked, Types,
      Station
<1> QED BY <1>1, <1>2 DEF Followed

\* The handlers go on with the network chosen.
LEMMA HandlerFollowed ==
  ASSUME Types, ListInv, Settled, Followed, Handler, lv.at \notin Deciding,
         ~overtaken'
  PROVE  Followed'
<1> USE DEF linkVars, credVars, sweepVars, nvsVars, drvVars, uiVars,
            sweepHistory
<1>d. /\ drv.st \in {"off", "idle", "connecting", "online"}
      /\ state \in {"DISCONNECTED", "CONNECTING", "CONNECTED", "OFF"}
      /\ ev \in {"idle", "connect", "store", "remember", "anchor"}
  BY DEF Types, Station, Steps
<1>l. UNCHANGED lv /\ lv.at \notin Deciding
  BY DEF Handler
<1>1. CASE StaStart
  <2>1. Pending("STA_START") /\ (Pending("DISCONNECTED")' <=> Pending("DISCONNECTED"))
    BY <1>1, HandledKinds DEF Types, Kinds, StaStart
  <2>2. drv' = drv \/ drv'.net = cfg
    BY <1>1 DEF StaStart, DriverConnect
  <2>3. UNCHANGED <<active, cfg, manual, auto>>
    BY <1>1 DEF StaStart
  <2> QED BY <1>l, <2>1, <2>2, <2>3
    DEF Settled, StateInv, Followed, Deciding
<1>2. CASE Dropped
  <2>1. Pending("DISCONNECTED")
    BY <1>2, HandledKinds DEF Types, Kinds, Dropped
  <2>2. ~(manual /\ scanning /\ active # cfg)
    BY <1>2 DEF Handler
  <2> QED BY <1>2, <1>d, <1>l, <2>1, <2>2
    DEF Settled, Followed, StateInv, RadioInv, CallInv, ManualInv, CfgInv,
        Deciding, Dropped, Suspended
<1>3. CASE Switched
  <2>1. Pending("DISCONNECTED")
    BY <1>3, HandledKinds DEF Types, Kinds, Switched
  <2> QED BY <1>3, <1>d, <1>l, <2>1
    DEF Settled, Followed, StateInv, RadioInv, CallInv, ManualInv, CfgInv,
        Deciding, Switched, Suspended, DriverConfig, ConfigRefused
<1>4. CASE Retry
  <2>1. Pending("DISCONNECTED")
    BY <1>4, HandledKinds DEF Types, Kinds, Retry, Failure
  <2> QED BY <1>4, <1>d, <1>l, <2>1
    DEF Settled, Followed, StateInv, RadioInv, CallInv, ManualInv, CfgInv,
        Deciding, Retry, Failure, Suspended, DriverConnect
<1>5. CASE UnsavedFails
  <2>1. Pending("DISCONNECTED")
    BY <1>5, HandledKinds DEF Types, Kinds, UnsavedFails, Failure
  <2> QED BY <1>5, <1>d, <1>l, <2>1
    DEF Settled, Followed, StateInv, RadioInv, CallInv, ManualInv, CfgInv,
        Deciding, UnsavedFails, Failure, Suspended
<1>6. CASE NextNetwork
  <2>1. Pending("DISCONNECTED")
    BY <1>6, HandledKinds DEF Types, Kinds, NextNetwork, Failure
  <2> QED BY <1>6, <1>d, <1>l, <2>1
    DEF Settled, Followed, StateInv, RadioInv, CallInv, ManualInv, CfgInv,
        Deciding, NextNetwork, Failure, Suspended, DriverConfig, ConfigRefused
<1>7. CASE GiveUp
  <2>1. Pending("DISCONNECTED")
    BY <1>7, HandledKinds DEF Types, Kinds, GiveUp, Failure
  <2> QED BY <1>7, <1>d, <1>l, <2>1
    DEF Settled, Followed, StateInv, RadioInv, CallInv, ManualInv, CfgInv,
        Deciding, GiveUp, Failure, Suspended
<1>8. CASE ScanDone
  <2>1. Pending("SCAN_DONE") /\ (Pending("DISCONNECTED")' <=> Pending("DISCONNECTED"))
    BY <1>8, HandledKinds DEF Types, Kinds, ScanDone
  <2>2. drv' = drv \/ drv'.net = cfg
    BY <1>8 DEF ScanDone, DriverConnect
  <2>3. UNCHANGED <<active, cfg, manual, auto>>
    BY <1>8 DEF ScanDone
  <2> QED BY <1>l, <2>1, <2>2, <2>3
    DEF Settled, StateInv, Followed, Deciding
<1>9. CASE GotIp
  <2>1. Pending("GOT_IP") /\ (Pending("DISCONNECTED")' <=> Pending("DISCONNECTED"))
    BY <1>9, HandledKinds DEF Types, Kinds, GotIp
  <2> QED BY <1>9, <1>d, <1>l, <2>1
    DEF Settled, Followed, StateInv, RadioInv, CallInv, ManualInv, CfgInv,
        Deciding, GotIp
<1>10. CASE HandlerConnects
  <2>1. Pending("DISCONNECTED")' <=> Pending("DISCONNECTED")
    BY <1>10, SameKinds DEF HandlerConnects
  <2> QED BY <1>10, <1>d, <1>l, <2>1
    DEF Settled, Followed, StateInv, RadioInv, CallInv, ManualInv, CfgInv,
        Deciding, HandlerConnects, DriverConnect
<1>11. CASE HandlerStores
  <2>1. Pending("DISCONNECTED")' <=> Pending("DISCONNECTED")
    BY <1>11, SameKinds DEF HandlerStores
  <2> QED BY <1>11, <1>d, <1>l, <2>1
    DEF Settled, Followed, StateInv, RadioInv, CallInv, ManualInv, CfgInv,
        Deciding, HandlerStores
<1>12. CASE Remember
  <2>1. Pending("DISCONNECTED")' <=> Pending("DISCONNECTED")
    BY <1>12, SameKinds DEF Remember
  <2> QED BY <1>12, <1>d, <1>l, <2>1
    DEF Settled, Followed, StateInv, RadioInv, CallInv, ManualInv, CfgInv,
        Deciding, Remember
<1>13. CASE Reanchor
  <2>1. Pending("DISCONNECTED")' <=> Pending("DISCONNECTED")
    BY <1>13, SameKinds DEF Reanchor
  <2> QED BY <1>13, <1>d, <1>l, <2>1
    DEF Settled, Followed, StateInv, RadioInv, CallInv, ManualInv, CfgInv,
        Deciding, Reanchor
<1> QED
  BY <1>1, <1>2, <1>3, <1>4, <1>5, <1>6, <1>7, <1>8, <1>9, <1>10, <1>11,
     <1>12, <1>13
  DEF Handler

\* A call leaves the driver with the network it chose.
LEMMA CallFollowed ==
  ASSUME Types, ListInv, Settled, Followed, Lvgl, ev = "idle", events = << >>
  PROVE  Followed'
<1> USE DEF linkVars, credVars, sweepVars, nvsVars, drvVars, uiVars,
            sweepHistory
<1>d. /\ drv.st \in {"off", "idle", "connecting", "online"}
      /\ state \in {"DISCONNECTED", "CONNECTING", "CONNECTED", "OFF"}
      /\ ev \in {"idle", "connect", "store", "remember", "anchor"}
  BY DEF Types, Station, Steps
<1>k. /\ ~Pending("STA_START") /\ ~Pending("GOT_IP")
      /\ ~Pending("DISCONNECTED") /\ ~Pending("SCAN_DONE")
  BY NoKinds
<1>1. CASE RadioOn
  <2> QED BY <1>1, <1>d, <1>k
    DEF Settled, Followed, StateInv, RadioInv, CallInv, ManualInv, CfgInv,
        Deciding, RadioOn, Call, RadioUp, NotLinked, Idle, At, Types
<1>2. CASE RadioOff
  <2>1. /\ drv'.st \in {"off", "idle"}
        /\ Pending("DISCONNECTED")' <=> drv.st \in {"connecting", "online"}
    BY <1>2, <1>d, Disconnects DEF RadioOff
  <2> QED BY <1>2, <1>d, <1>k, <2>1
    DEF Settled, Followed, StateInv, RadioInv, CallInv, ManualInv, CfgInv,
        Deciding, RadioOff, Call, Idle, At, Types
<1>3. CASE ConnectBegins
  <2>1. lv.at = "idle" /\ lv'.at = "choose" /\ UNCHANGED <<active, cfg>>
    BY <1>3 DEF ConnectBegins, Call, Idle
  <2>a. UNCHANGED drv \/ drv' = NotLinked
    BY <1>3 DEF ConnectBegins, RadioUp
  <2>2. drv'.st = "idle" \/ UNCHANGED drv
    BY <2>a DEF NotLinked
  <2> QED BY <1>k, <2>1, <2>2 DEF Followed
<1>4. CASE Forget
  <2> QED BY <1>4, <1>d, <1>k
    DEF Settled, Followed, StateInv, RadioInv, CallInv, ManualInv, CfgInv,
        Deciding, Forget, Call, Idle, At, Types
<1>5. CASE Disconnect
  <2>1. /\ drv'.st \in {"off", "idle"}
        /\ Pending("DISCONNECTED")' <=> drv.st \in {"connecting", "online"}
    BY <1>5, <1>d, Disconnects DEF Disconnect
  <2> QED BY <1>5, <1>d, <1>k, <2>1
    DEF Settled, Followed, StateInv, RadioInv, CallInv, ManualInv, CfgInv,
        Deciding, Disconnect, Call, Idle, At, Types
<1>6. CASE Scan
  <2> QED BY <1>6, <1>d, <1>k
    DEF Settled, Followed, StateInv, RadioInv, CallInv, ManualInv, CfgInv,
        Deciding, Scan, Call, DriverDisconnect, NotLinked, Idle, At, Types
<1>7. CASE PollResult
  <2> QED BY <1>7, <1>d, <1>k
    DEF Settled, Followed, StateInv, RadioInv, CallInv, ManualInv, CfgInv,
        Deciding, PollResult, Call, Idle, At, Types
<1>8. CASE RadioStops
  <2> QED BY <1>8, <1>d, <1>k
    DEF Settled, Followed, StateInv, RadioInv, CallInv, ManualInv, CfgInv,
        Deciding, RadioStops, Stopped, Idle, At, Types
<1>9. CASE Choose
  <2>1. /\ lv.at = "choose" /\ lv'.at = "decide"
        /\ active' = Chosen /\ UNCHANGED <<cfg, drv, state>>
        /\ lv'.seen = IF state # "CONNECTED" THEN state
                       ELSE IF drv = [st |-> "online", net |-> Chosen]
                            THEN "this one" ELSE "another one"
    BY <1>9 DEF Choose, Types, CallType, Calls
  <2>2. lv'.seen = "this one" => drv.st = "online" /\ drv.net = active'
    <3>1. CASE state = "CONNECTED" /\ drv = [st |-> "online", net |-> Chosen]
      BY <2>1, <3>1
    <3>2. CASE state = "CONNECTED" /\ drv # [st |-> "online", net |-> Chosen]
      BY <2>1, <3>2
    <3>3. CASE state # "CONNECTED"
      BY <1>d, <2>1, <3>3
    <3> QED BY <3>1, <3>2, <3>3
  <2> QED BY <2>1, <2>2 DEF Followed
<1>10. CASE KeepLink
  <2> QED BY <1>10, <1>d, <1>k
    DEF Settled, Followed, StateInv, RadioInv, CallInv, ManualInv, CfgInv,
        Deciding, KeepLink, Idle, At, Types
<1>11. CASE StopAttempt
  <2>1. /\ drv'.st \in {"off", "idle"}
        /\ Pending("DISCONNECTED")' <=> drv.st \in {"connecting", "online"}
    BY <1>11, <1>d, Disconnects DEF StopAttempt
  <2> QED BY <1>11, <1>d, <1>k, <2>1
    DEF Settled, Followed, StateInv, RadioInv, CallInv, ManualInv, CfgInv,
        Deciding, StopAttempt, Idle, At, Types
<1>12. CASE ApplyNet
  <2> QED BY <1>12, <1>d, <1>k, AtFacts
    DEF Settled, Followed, StateInv, RadioInv, CallInv, ManualInv, CfgInv,
        Deciding, ApplyNet, DriverConfig, ConfigRefused, Idle, At, Types
<1>13. CASE SwitchNet
  <2>1. /\ drv'.st \in {"off", "idle"}
        /\ Pending("DISCONNECTED")' <=> drv.st \in {"connecting", "online"}
    BY <1>13, <1>d, Disconnects DEF SwitchNet
  <2> QED BY <1>13, <1>d, <1>k, <2>1
    DEF Settled, Followed, StateInv, RadioInv, CallInv, ManualInv, CfgInv,
        Deciding, SwitchNet, Idle, At, Types
<1>14. CASE ConnectNet
  <2> QED BY <1>14, <1>d, <1>k
    DEF Settled, Followed, StateInv, RadioInv, CallInv, ManualInv, CfgInv,
        Deciding, ConnectNet, DriverConnect, Idle, At, Types
<1>15. CASE ForgetStores
  <2>1. lv.at = "store" /\ lv'.at \in {"clear", "idle"} /\ UNCHANGED <<active, cfg, drv>>
    BY <1>15, AtFacts DEF ForgetStores, Types
  <2> QED BY <1>k, <2>1 DEF Followed
<1>16. CASE ForgetClears
  <2> QED BY <1>16, <1>d, <1>k
    DEF Settled, Followed, StateInv, RadioInv, CallInv, ManualInv, CfgInv,
        Deciding, ForgetClears, DriverDisconnect, NotLinked, Idle, At, Types
<1>17. CASE ScanFlag
  <2> QED BY <1>17, <1>d, <1>k
    DEF Settled, Followed, StateInv, RadioInv, CallInv, ManualInv, CfgInv,
        Deciding, ScanFlag, Idle, At, Types
<1>18. CASE ScanStarts
  <2> QED BY <1>18, <1>d, <1>k
    DEF Settled, Followed, StateInv, RadioInv, CallInv, ManualInv, CfgInv,
        Deciding, ScanStarts, Idle, At, Types
<1> QED
  BY <1>1, <1>2, <1>3, <1>4, <1>5, <1>6, <1>7, <1>8, <1>9, <1>10, <1>11,
     <1>12, <1>13, <1>14, <1>15, <1>16, <1>17, <1>18
  DEF Lvgl, CallStep

\* The queue of a started driver.
LEMMA Started ==
  ASSUME NEW s, s = <<[kind |-> "STA_START", net |-> None]>>
  PROVE  /\ Len(s) = 1 /\ s[1].kind = "STA_START"
         /\ \A i \in 1 .. Len(s) : i = 1
OBVIOUS

\* A started manager has one event to handle.
LEMMA StatusInit == Init => Settled /\ Followed
<1> SUFFICES ASSUME Init PROVE Settled /\ Followed
  OBVIOUS
<1>1. /\ state = "DISCONNECTED" /\ auto /\ ~manual /\ radio /\ active = cfg
      /\ drv = NotLinked /\ ~dscan /\ ev = "idle" /\ lv = Idle
      /\ events = <<[kind |-> "STA_START", net |-> None]>>
  BY DEF Init
<1>2. /\ Len(events) = 1 /\ events[1].kind = "STA_START"
      /\ \A i \in 1 .. Len(events) : i = 1
  BY <1>1, Started
<1>3. drv.st = "idle" /\ lv.at = "idle"
  BY <1>1 DEF NotLinked, Idle
<1>4. /\ QueueInv /\ Pending("STA_START") /\ ~Pending("GOT_IP")
      /\ ~Pending("DISCONNECTED") /\ ~Pending("SCAN_DONE")
  BY <1>2 DEF QueueInv, Pending
<1> QED BY <1>1, <1>3, <1>4
  DEF Settled, StateInv, RadioInv, CallInv, ManualInv, CfgInv, Followed,
      Deciding

\* So does one that starts again.
LEMMA StatusReboot == ASSUME Reboot PROVE Settled' /\ Followed'
<1>1. /\ state' = "DISCONNECTED" /\ auto' /\ ~manual' /\ radio' /\ active' = cfg'
      /\ drv' = NotLinked /\ ~dscan' /\ ev' = "idle" /\ lv' = Idle
      /\ events' = <<[kind |-> "STA_START", net |-> None]>>
  BY DEF Reboot, Boot
<1>2. /\ Len(events') = 1 /\ events'[1].kind = "STA_START"
      /\ \A i \in 1 .. Len(events') : i = 1
  BY <1>1, Started
<1>3. drv'.st = "idle" /\ lv'.at = "idle"
  BY <1>1 DEF NotLinked, Idle
<1>4. /\ QueueInv' /\ Pending("STA_START")' /\ ~Pending("GOT_IP")'
      /\ ~Pending("DISCONNECTED")' /\ ~Pending("SCAN_DONE")'
  BY <1>2 DEF QueueInv, Pending
<1> QED BY <1>1, <1>3, <1>4
  DEF Settled, StateInv, RadioInv, CallInv, ManualInv, CfgInv, Followed,
      Deciding

\* Nothing happens.
LEMMA StatusSame ==
  ASSUME UNCHANGED vars
  PROVE  (Settled' <=> Settled) /\ (Followed' <=> Followed)
BY DEF vars, linkVars, credVars, drvVars, uiVars, Settled, QueueInv, StateInv,
       RadioInv, CallInv, ManualInv, CfgInv, Followed, Pending, Deciding

\* A step that is not a restart keeps both, unless it crosses another task's
\* work: an event waits for no call, so a call finds the queue empty.
LEMMA StatusStep ==
  ASSUME Prompt, Types, ListInv, Settled, [Next]_vars, ~Reboot, ~crossed'
  PROVE  Settled' /\ (Followed /\ ~overtaken' => Followed')
<1>1. CASE Driver
  BY <1>1, DriverSettled, DriverFollowed
<1>2. CASE Handler
  <2>1. lv.at \notin Deciding
    BY <1>2 DEF Handler, Deciding
  <2> QED BY <1>2, <2>1, HandlerSettled, HandlerFollowed
<1>3. CASE Lvgl
  <2>1. ev = "idle" /\ events = << >>
    BY <1>3 DEF Lvgl, LvglRuns
  <2> QED BY <1>3, <2>1, CallSettled, CallFollowed
<1>4. CASE UNCHANGED vars
  BY <1>4, StatusSame
<1> QED BY <1>1, <1>2, <1>3, <1>4 DEF Next

\* What has once been crossed or overtaken stays so until a restart.
LEMMA Remembered ==
  ASSUME [Next]_vars, ~Reboot
  PROVE  (~crossed' => ~crossed) /\ (~overtaken' => ~overtaken)
<1>1. CASE Driver
  BY <1>1 DEF Driver
<1>2. CASE Handler
  BY <1>2 DEF Handler
<1>3. CASE Lvgl
  BY <1>3 DEF Lvgl
<1>4. CASE UNCHANGED vars
  BY <1>4 DEF vars
<1> QED BY <1>1, <1>2, <1>3, <1>4 DEF Next

\* The inductive invariant.
IInv == Types /\ ListInv /\ StatusInv /\ ChosenInv

\* It holds in every state, when events wait for no call.
LEMMA Inductive ==
  ASSUME Prompt
  PROVE  Spec => []IInv
<1>1. Init => IInv
  BY TypesInit, ListInit, StatusInit DEF IInv, StatusInv, ChosenInv
<1>2. ASSUME IInv, [Next]_vars
      PROVE  IInv'
  <2>1. Types' /\ ListInv'
    BY <1>2, TypesStep, ListStep DEF IInv
  <2>2. CASE Reboot
    BY <2>1, <2>2, StatusReboot DEF IInv, StatusInv, ChosenInv
  <2>3. CASE ~Reboot
    <3>1. ~crossed' => Settled' /\ (Followed /\ ~overtaken' => Followed')
      BY <1>2, <2>3, StatusStep, Remembered DEF IInv, StatusInv
    <3> QED
      BY <1>2, <2>1, <2>3, <3>1, Remembered DEF IInv, StatusInv, ChosenInv
  <2> QED BY <2>2, <2>3
<1> QED BY <1>1, <1>2, PTL DEF Spec

\* wifi_manager.c event_handler(), the calls of wifi_manager.h: when no call or
\* handler is under way and no event is waiting, the state the pages show is
\* what the driver does, unless a call ran while a handler waited for the
\* driver.  Prompt: the event task runs before the task of the calls.
THEOREM StatusIsTrue ==
  ASSUME Prompt
  PROVE  Spec => []StatusSettles
<1>1. IInv => StatusSettles
  <2> SUFFICES ASSUME IInv, AtRest, ~crossed
               PROVE  /\ state = "CONNECTED" <=> drv.st = "online"
                      /\ state = "CONNECTING" <=> drv.st = "connecting"
                      /\ state = "OFF" => drv.st = "off"
    BY DEF StatusSettles
  <2>1. /\ ~Pending("STA_START") /\ ~Pending("GOT_IP")
        /\ ~Pending("DISCONNECTED") /\ ~Pending("SCAN_DONE")
    BY NoKinds DEF AtRest
  <2>2. StateInv /\ RadioInv
    BY DEF IInv, StatusInv, Settled
  <2>3. ev = "idle" /\ lv.at = "idle"
    BY DEF AtRest, Idle
  <2> QED BY <2>1, <2>2, <2>3 DEF StateInv, RadioInv
<1> QED BY <1>1, Inductive, PTL

\* wifi_manager.c apply_creds(), creds_advance(), wifi_manager_connect_new() and
\* wifi_manager_connect_saved(): at rest, a link or an attempt is one to the
\* network chosen last, unless a call ran while a handler waited for the driver
\* or a scan took the place of a switch.
THEOREM LinkIsTheChosen ==
  ASSUME Prompt
  PROVE  Spec => []LinkIsChosen
<1>1. IInv => LinkIsChosen
  <2> SUFFICES ASSUME IInv, AtRest, ~crossed, ~overtaken,
                      drv.st \in {"connecting", "online"}
               PROVE  drv.net = active
    BY DEF LinkIsChosen
  <2>1. ~Pending("DISCONNECTED") /\ ~Pending("GOT_IP")
    BY NoKinds DEF AtRest
  <2>2. Followed /\ CfgInv /\ lv.at = "idle"
    BY DEF IInv, StatusInv, Settled, ChosenInv, AtRest, Idle
  <2> QED BY <2>1, <2>2 DEF Followed, CfgInv
<1> QED BY <1>1, Inductive, PTL
=============================================================================
