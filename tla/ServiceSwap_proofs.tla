-------------------------- MODULE ServiceSwap_proofs --------------------------
(***************************************************************************)
(* Theorems about ServiceSwap, for any profiles and accounts and without   *)
(* regard to how often settings are edited or OBS goes down.               *)
(***************************************************************************)
EXTENDS ServiceSwap, TLAPS

\* Service s, current or about to be, undoes to what enable_delay_mode found in
\* the current profile.
Undoable(s) ==
    IsDelayed(s) =>
        /\ original # NoService
        /\ found[profile] # NoService
        /\ s.account = found[profile].account
        /\ profile = enabledIn => original = found[profile]

\* What holds of a profile on disk.
SavedOK(p) ==
    IsDelayed(disk[p]) =>
        /\ original # NoService
        /\ disk[p].account = found[p].account
        /\ p = enabledIn => original = found[p]

\* The service in memory and the one on disk differ only inside a handler, which
\* works on the service it found.
HandlerOK ==
    /\ handler \in {"none", "keep"} => service = disk[profile]
    /\ handler = "keep" => ~IsDelayed(service) /\ found[profile] = service
    /\ handler = "set" => incoming # NoService /\ Undoable(incoming)
    /\ handler = "save" => Undoable(service)
    /\ streaming => handler = "none"

IInv ==
    /\ TypeOK
    /\ original # NoService => ~IsDelayed(original)
    /\ \A p \in Profiles : SavedOK(p)
    /\ HandlerOK
    /\ ModeKnown

\* A service of either kind, for an account.
LEMMA ServiceTypes ==
    /\ NoService \notin Services
    /\ \A a \in Accounts : /\ Own(a) \in Services /\ ~IsDelayed(Own(a))
                           /\ Delayed(a) \in Services /\ IsDelayed(Delayed(a))
                           /\ Delayed(a).account = a
    /\ \A s \in Services : s.account \in Accounts
<1>1. NoService \notin Services
  BY ConstantsAssumption DEF Services
<1>2. \A a \in Accounts : Own(a) \in Services /\ ~IsDelayed(Own(a))
  BY DEF Services, Own, IsDelayed
<1>3. \A a \in Accounts : /\ Delayed(a) \in Services /\ IsDelayed(Delayed(a))
                          /\ Delayed(a).account = a
  BY DEF Services, Delayed, IsDelayed
<1>4. \A s \in Services : s.account \in Accounts
  BY DEF Services
<1>5. QED
  BY <1>1, <1>2, <1>3, <1>4

LEMMA InitInv == Init => IInv
<1> SUFFICES ASSUME Init PROVE IInv
  OBVIOUS
<1>1. MaxEdits \in Nat /\ MaxCrashes \in Nat
  BY ConstantsAssumption
<1>2. disk \in [Profiles -> Services] /\ service \in Services
      /\ \A p \in Profiles : ~IsDelayed(disk[p])
  BY ServiceTypes DEF Init
<1>3. TypeOK
  <2>1. found \in [Profiles -> Services \cup {NoService}] /\ 0 \in 0 .. MaxEdits
        /\ 0 \in 0 .. MaxCrashes /\ enabledIn \in Profiles
    BY <1>1 DEF Init
  <2>2. QED
    BY <1>2, <2>1 DEF Init, TypeOK
<1>4. QED
  BY <1>2, <1>3 DEF Init, IInv, SavedOK, HandlerOK, ModeKnown

\* Each step of a handler, each event and a crash at any point keep it.
LEMMA StepInv == IInv /\ [Next]_vars => IInv'
<1> SUFFICES ASSUME IInv, [Next]_vars PROVE IInv'
  OBVIOUS
<1> USE DEF IInv, HandlerOK, ModeKnown
<1>1. MaxEdits \in Nat /\ MaxCrashes \in Nat
  BY ConstantsAssumption
<1>2. CASE BeginEnable
  <2>1. TypeOK'
    BY <1>2 DEF BeginEnable, boundVars, TypeOK
  <2>2. \A p \in Profiles : SavedOK(p)'
    BY <1>2 DEF BeginEnable, Idle, SavedOK, TypeOK
  <2>3. QED
    BY <1>2, <2>1, <2>2 DEF BeginEnable, Idle, TypeOK, Undoable
<1>3. CASE KeepOriginal
  <2>1. TypeOK'
    BY <1>1, <1>3, ServiceTypes DEF KeepOriginal, boundVars, TypeOK
  <2>2. service # NoService /\ ~IsDelayed(disk[profile])
    BY <1>1, <1>3, ServiceTypes DEF KeepOriginal, TypeOK
  <2>3. \A p \in Profiles : SavedOK(p)'
    BY <1>3, <2>2 DEF KeepOriginal, SavedOK, TypeOK
  <2>4. handler' = "set" => incoming' # NoService /\ Undoable(incoming)'
    BY <1>3, <2>2, ServiceTypes DEF KeepOriginal, Undoable, TypeOK
  <2>5. QED
    BY <1>3, <2>1, <2>2, <2>3, <2>4 DEF KeepOriginal
<1>4. CASE BeginDisable
  <2>1. TypeOK'
    BY <1>4 DEF BeginDisable, boundVars, historyVars, TypeOK
  <2>2. \A p \in Profiles : SavedOK(p)'
    BY <1>4 DEF BeginDisable, historyVars, SavedOK
  <2>3. QED
    BY <1>4, <2>1, <2>2 DEF BeginDisable, historyVars, Idle, Undoable
<1>5. CASE SetService
  <2>1. TypeOK'
    BY <1>5 DEF SetService, boundVars, historyVars, TypeOK
  <2>2. \A p \in Profiles : SavedOK(p)'
    BY <1>5 DEF SetService, historyVars, SavedOK
  <2>3. Undoable(service)'
    BY <1>5 DEF SetService, historyVars, Undoable
  <2>4. QED
    BY <1>5, <2>1, <2>2, <2>3 DEF SetService
<1>6. CASE SaveService
  <2>1. TypeOK'
    BY <1>6 DEF SaveService, boundVars, historyVars, TypeOK, IsDelayed
  <2>2. disk'[profile] = service
        /\ \A p \in Profiles : p # profile => disk'[p] = disk[p]
    BY <1>6 DEF SaveService, TypeOK
  <2>3. \A p \in Profiles : SavedOK(p)'
    BY <1>6, <2>2 DEF SaveService, historyVars, SavedOK, Undoable
  <2>4. QED
    BY <1>6, <2>1, <2>2, <2>3 DEF SaveService
<1>7. CASE ShowStatus
  <2>1. TypeOK'
    BY <1>7 DEF ShowStatus, boundVars, historyVars, TypeOK, IsDelayed
  <2>2. QED
    BY <1>7, <2>1 DEF ShowStatus, historyVars, SavedOK, Undoable
<1>8. ASSUME NEW a \in Accounts, EditSettings(a)
      PROVE  IInv'
  <2>1. TypeOK'
    BY <1>1, <1>8, ServiceTypes DEF EditSettings, Idle, TypeOK
  <2>2. disk'[profile] = Own(a)
        /\ \A p \in Profiles : p # profile => disk'[p] = disk[p]
    BY <1>8 DEF EditSettings, TypeOK
  <2>3. \A p \in Profiles : SavedOK(p)'
    BY <1>8, <2>2, ServiceTypes DEF EditSettings, SavedOK
  <2>4. QED
    BY <1>8, <2>1, <2>2, <2>3 DEF EditSettings, Idle
<1>9. ASSUME NEW p \in Profiles, SwitchProfile(p)
      PROVE  IInv'
  <2>1. TypeOK'
    BY <1>9 DEF SwitchProfile, boundVars, historyVars, TypeOK, IsDelayed
  <2>2. \A q \in Profiles : SavedOK(q)'
    BY <1>9 DEF SwitchProfile, historyVars, SavedOK
  <2>3. QED
    BY <1>9, <2>1, <2>2 DEF SwitchProfile, Idle
<1>10. CASE StartStreaming
  <2>1. TypeOK'
    BY <1>10 DEF StartStreaming, boundVars, historyVars, TypeOK, IsDelayed
  <2>2. QED
    BY <1>10, <2>1 DEF StartStreaming, historyVars, Idle, SavedOK
<1>11. CASE StopStreaming
  <2>1. TypeOK'
    BY <1>11 DEF StopStreaming, boundVars, historyVars, TypeOK
  <2>2. QED
    BY <1>11, <2>1 DEF StopStreaming, historyVars, SavedOK, Undoable
<1>12. CASE Crash
  <2>1. TypeOK'
    <3>1. disk[profile] \in Services /\ delayMode' \in BOOLEAN /\ crashes + 1 \in 0 .. MaxCrashes
      BY <1>1, <1>12 DEF Crash, TypeOK, IsDelayed
    <3>2. QED
      BY <1>12, <3>1 DEF Crash, historyVars, TypeOK
  <2>2. \A p \in Profiles : SavedOK(p)'
    BY <1>12 DEF Crash, historyVars, SavedOK
  <2>3. QED
    BY <1>12, <2>1, <2>2 DEF Crash
<1>13. CASE UNCHANGED vars
  <2>1. TypeOK'
    BY <1>13 DEF vars, boundVars, historyVars, TypeOK
  <2>2. QED
    BY <1>13, <2>1 DEF vars, historyVars, SavedOK, Undoable
<1>14. QED
  BY <1>2, <1>3, <1>4, <1>5, <1>6, <1>7, <1>8, <1>9, <1>10, <1>11, <1>12, <1>13 DEF Next

LEMMA Inductive == Spec => []IInv
  BY InitInv, StepInv, PTL DEF Spec

\* The file and the services stay well-formed: disable_delay_mode never puts a
\* service in place that was not there.
THEOREM SwapTypes == Spec => []TypeOK
<1>1. IInv => TypeOK
  BY DEF IInv
<1>2. QED
  BY Inductive, <1>1, PTL

\* Wherever OBS crashes, a delayed service on disk has its original on disk.
THEOREM AlwaysRecoverable == Spec => []Recoverable
<1>1. IInv => Recoverable
  BY DEF IInv, SavedOK, Recoverable
<1>2. QED
  BY Inductive, <1>1, PTL

\* Delay mode never streams to another account than the service it replaced.
THEOREM AccountKept == Spec => []SameAccount
<1>1. IInv => SameAccount
  BY DEF IInv, SavedOK, SameAccount
<1>2. QED
  BY Inductive, <1>1, PTL

\* The server is told the true mode while streaming.
THEOREM ModeReported == Spec => []ModeKnown
<1>1. IInv => ModeKnown
  BY DEF IInv
<1>2. QED
  BY Inductive, <1>1, PTL

================================================================================
