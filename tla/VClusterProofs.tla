-------------------------- MODULE VClusterProofs --------------------------
(***************************************************************************)
(* For any settings and any number of faults: what Ready's answer means,   *)
(* and that the manager implements the contract of ControlPlane.           *)
(***************************************************************************)
EXTENDS VCluster, TLAPS

\* The virtual objects live and die with a running control plane, and the
\* manifests with a recorded release; a pod that is not on its way out is the one
\* of the manifests.
VirtualLives ==
    /\ workload # "ready" => ~account /\ binding = "absent"
    /\ manifests => release # "none"
    /\ workload # "absent" /\ ~outdated => manifests /\ running = applied
    /\ pc \in {"installing", "upgrading"} => release # "none"

\* An answer is given for what was read, and stands until the next call.
AnswerStands ==
    /\ pc = "readBinding" => account \/ disturbed
    /\ answer = "yes" => pc = "idle"
    /\ answer = "yes" /\ ~disturbed => HandoffInPlace

\* The manifests of a deployed release have its values, and past Helm's part of Ensure they
\* are the operator's.
ValuesHeld ==
    /\ release = "deployed" => applied = stored.options
    /\ \/ answer = "yes"
       \/ pc \in {"installing", "upgrading", "secret", "readSecret", "readWorkload"}
       \/ pc \in VirtualCalls
       => stored.options = options

Inv == TypeOK /\ VirtualLives /\ AnswerStands /\ ValuesHeld

\* The record of a new revision has the type of stored values.
LEMMA StoredType ==
    ASSUME NEW o \in Options
    PROVE  /\ Stored(values(o)) \in [options : Options, number : {"float64", "nil"}]
           /\ Stored(values(o)).options = o
BY DEF Stored, values

\* The types of what is in the host.
ObjectTypes ==
    /\ manifests \in BOOLEAN /\ applied \in Options /\ running \in Options
    /\ outdated \in BOOLEAN /\ workload \in {"absent", "starting", "ready"}

\* Applying and deleting manifests keeps the types of what is in the host.
LEMMA ObjectsTyped ==
    ASSUME TypeOK, Apply \/ Unapply \/ UNCHANGED objects
    PROVE  ObjectTypes'
BY Zenon DEF TypeOK, ObjectTypes, Apply, Unapply, objects

\* The invariant holds at the start.
LEMMA InvInit == Init => Inv
<1> SUFFICES ASSUME Init PROVE Inv
  OBVIOUS
<1> USE DEF Init
<1>1. PICK o \in Options : Validate(o) /\ options = o
  OBVIOUS
<1>2. TypeOK
  <2>1. stored \in [options : Options, number : {"float64", "nil"}]
    BY <1>1, StoredType
  <2>2. faults \in 0..MaxFaults
    BY VClusterAssumption
  <2> QED
    BY <1>1, <2>1, <2>2, Zenon DEF TypeOK, Labels, SecretStates
<1> QED
  BY <1>2 DEF Inv, VirtualLives, AnswerStands, ValuesHeld, VirtualCalls

\* Every step of the manager and of what surrounds it keeps the invariant.
LEMMA InvNext == Inv /\ [Next]_vars => Inv'
<1> SUFFICES ASSUME Inv, [Next]_vars PROVE Inv'
  OBVIOUS
<1> USE DEF Inv, TypeOK, VirtualLives, AnswerStands, ValuesHeld, Labels, VirtualCalls,
            SecretStates, HandoffInPlace, Goto, Return, Fault, host, objects, seen, handoff,
            locals
<1>0. MaxFaults \in Nat
  BY VClusterAssumption
<1>1. CASE EnsureReads
  BY <1>1 DEF EnsureReads, Current, values
<1>2. CASE InstallRecords
  BY <1>2, StoredType DEF InstallRecords, Record
<1>3. CASE InstallApplies
  <2>1. TypeOK'
    BY <1>3, ObjectsTyped DEF InstallApplies, ObjectTypes
  <2>2. VirtualLives'
    BY <1>3 DEF InstallApplies, Apply
  <2>3. AnswerStands'
    BY <1>3 DEF InstallApplies, Apply
  <2>4. ValuesHeld'
    BY <1>3 DEF InstallApplies, Apply
  <2> QED
    BY <2>1, <2>2, <2>3, <2>4
<1>4. CASE UpgradeRecords
  BY <1>4, StoredType DEF UpgradeRecords, Record
<1>5. CASE UpgradeApplies
  <2>1. TypeOK'
    BY <1>5, ObjectsTyped DEF UpgradeApplies, ObjectTypes
  <2>2. VirtualLives'
    BY <1>5 DEF UpgradeApplies, Apply
  <2>3. AnswerStands'
    BY <1>5 DEF UpgradeApplies, Apply
  <2>4. ValuesHeld'
    BY <1>5 DEF UpgradeApplies, Apply
  <2> QED
    BY <2>1, <2>2, <2>3, <2>4
<1>6. CASE HandoffConfig
  BY <1>6 DEF HandoffConfig
<1>7. CASE EnsureAccount
  <2>1. TypeOK'
    <3>1. faults' = faults /\ options' = options
      BY <1>7 DEF EnsureAccount, Reachable
    <3>2. account' \in BOOLEAN /\ disturbed' \in BOOLEAN /\ fresh' \in BOOLEAN
      BY <1>7, Zenon DEF EnsureAccount, Reachable
    <3> QED
      BY <1>7, <3>1, <3>2 DEF EnsureAccount, Reachable
  <2>2. VirtualLives'
    BY <1>7 DEF EnsureAccount, Reachable
  <2>3. AnswerStands'
    BY <1>7 DEF EnsureAccount, Reachable
  <2>4. ValuesHeld'
    BY <1>7 DEF EnsureAccount, Reachable
  <2> QED
    BY <2>1, <2>2, <2>3, <2>4
<1>8. CASE GetBinding
  BY <1>8 DEF GetBinding, Reachable
<1>9. CASE RepairBinding
  BY <1>9 DEF RepairBinding, Reachable
<1>10. CASE Unreachable
  BY <1>10 DEF Unreachable
<1>11. CASE ReadSecret
  <2>1. TypeOK'
    <3>1. faults' = faults /\ options' = options
      BY <1>11 DEF ReadSecret
    <3>2. account' \in BOOLEAN /\ disturbed' \in BOOLEAN /\ fresh' \in BOOLEAN
      BY <1>11, Zenon DEF ReadSecret
    <3>3. pc' \in {"idle", "readWorkload"} /\ config' \in SecretStates
      BY <1>11 DEF ReadSecret
    <3>4. UNCHANGED <<host, seen, handoff, fresh, answer, deleting>>
      BY <1>11 DEF ReadSecret
    <3> QED
      BY <3>1, <3>2, <3>3, <3>4
  <2>2. VirtualLives'
    BY <1>11 DEF ReadSecret
  <2>3. AnswerStands'
    BY <1>11 DEF ReadSecret
  <2>4. ValuesHeld'
    BY <1>11 DEF ReadSecret
  <2> QED
    BY <2>1, <2>2, <2>3, <2>4
<1>12. CASE ReadWorkload
  BY <1>12 DEF ReadWorkload
<1>13. CASE ReadAccount
  BY <1>13 DEF ReadAccount, Reachable
<1>14. CASE ReadBinding
  BY <1>14 DEF ReadBinding, Reachable
<1>15. CASE Uninstall
  BY <1>15 DEF Uninstall
<1>16. CASE UninstallPurges
  <2>1. TypeOK'
    BY <1>16, ObjectsTyped DEF UninstallPurges, ObjectTypes
  <2>2. VirtualLives'
    BY <1>16, Zenon DEF UninstallPurges, Unapply
  <2>3. AnswerStands' /\ ValuesHeld'
    BY <1>16 DEF UninstallPurges, Unapply
  <2> QED
    BY <2>1, <2>2, <2>3
<1>17. CASE HelmFails
  <2>1. TypeOK'
    <3>1. faults' \in 0..MaxFaults
      BY <1>17, <1>0 DEF HelmFails
    <3>2. ObjectTypes'
      BY <1>17, ObjectsTyped DEF HelmFails
    <3>3. /\ UNCHANGED <<options, stored, secret, seen, handoff, config, fresh, answer, deleting,
                         disturbed>>
          /\ release' \in {release, "failed"} /\ pc' = "idle"
      BY <1>17 DEF HelmFails
    <3> QED
      BY <3>1, <3>2, <3>3 DEF ObjectTypes
  <2>2. VirtualLives'
    BY <1>17 DEF HelmFails, Apply
  <2>3. AnswerStands'
    BY <1>17 DEF HelmFails, Apply
  <2>4. ValuesHeld'
    BY <1>17 DEF HelmFails, Apply
  <2> QED
    BY <2>1, <2>2, <2>3, <2>4
<1>18. CASE UninstallFails
  <2>1. TypeOK'
    <3>1. faults' \in 0..MaxFaults
      BY <1>18, <1>0 DEF UninstallFails
    <3>2. ObjectTypes'
      BY <1>18, ObjectsTyped DEF UninstallFails
    <3>3. /\ UNCHANGED <<options, stored, secret, seen, handoff, config, fresh, answer, deleting,
                         disturbed>>
          /\ release' \in {release, "failed"} /\ pc' = "idle"
      BY <1>18 DEF UninstallFails
    <3> QED
      BY <3>1, <3>2, <3>3 DEF ObjectTypes
  <2>2. VirtualLives'
    BY <1>18 DEF UninstallFails, Unapply
  <2>3. AnswerStands'
    BY <1>18 DEF UninstallFails, Unapply
  <2>4. ValuesHeld'
    BY <1>18 DEF UninstallFails, Unapply
  <2> QED
    BY <2>1, <2>2, <2>3, <2>4
<1>19. CASE CallFails
  BY <1>19, <1>0 DEF CallFails
<1>20. CASE Restart
  <2>1. TypeOK'
    <3>1. faults' \in 0..MaxFaults
      BY <1>20, <1>0 DEF Restart
    <3>2. account' \in BOOLEAN /\ disturbed' \in BOOLEAN /\ fresh' \in BOOLEAN
      BY <1>20, Zenon DEF Restart
    <3> QED
      BY <1>20, <3>1, <3>2 DEF Restart, Counted
  <2>2. VirtualLives'
    BY <1>20 DEF Restart
  <2>3. AnswerStands'
    BY <1>20 DEF Restart
  <2>4. ValuesHeld'
    BY <1>20 DEF Restart
  <2> QED
    BY <2>1, <2>2, <2>3, <2>4
<1>21. CASE PodRestarts
  <2>1. TypeOK'
    <3>1. faults' \in 0..MaxFaults
      BY <1>21, <1>0 DEF PodRestarts, Lost
    <3>2. account' \in BOOLEAN /\ disturbed' \in BOOLEAN /\ fresh' \in BOOLEAN
      BY <1>21, Zenon DEF PodRestarts, Lost
    <3> QED
      BY <1>21, <3>1, <3>2 DEF PodRestarts, Lost
  <2>2. VirtualLives'
    BY <1>21 DEF PodRestarts, Lost
  <2>3. AnswerStands'
    BY <1>21 DEF PodRestarts, Lost
  <2>4. ValuesHeld'
    BY <1>21 DEF PodRestarts, Lost
  <2> QED
    BY <2>1, <2>2, <2>3, <2>4
<1>22. CASE TenantEdits
  <2>1. TypeOK'
    <3>1. faults' \in 0..MaxFaults
      BY <1>22, <1>0 DEF TenantEdits
    <3>2. account' \in BOOLEAN /\ disturbed' \in BOOLEAN /\ fresh' \in BOOLEAN
      BY <1>22, Zenon DEF TenantEdits
    <3> QED
      BY <1>22, <3>1, <3>2 DEF TenantEdits
  <2>2. VirtualLives'
    BY <1>22 DEF TenantEdits
  <2>3. AnswerStands'
    BY <1>22 DEF TenantEdits
  <2>4. ValuesHeld'
    BY <1>22 DEF TenantEdits
  <2> QED
    BY <2>1, <2>2, <2>3, <2>4
<1>23. CASE BeginTeardown
  BY <1>23 DEF BeginTeardown
<1>24. CASE PodStarts
  BY <1>24 DEF PodStarts
<1>25. CASE Watch
  BY <1>25 DEF Watch, Counted
<1>26. CASE UNCHANGED vars
  BY <1>26 DEF vars
<1>27. CASE TeardownGoesOn
  BY <1>27 DEF TeardownGoesOn
<1>28. CASE CallOffTeardown
  <2>1. faults' \in 0..MaxFaults
    BY <1>28, <1>0 DEF CallOffTeardown
  <2>2. UNCHANGED <<options, host, seen, handoff, locals, disturbed>>
    BY <1>28 DEF CallOffTeardown
  <2>3. deleting' \in BOOLEAN
    BY <1>28, Zenon DEF CallOffTeardown
  <2>4. TypeOK'
    BY <2>1, <2>2, <2>3, SMTT(30)
  <2>5. VirtualLives' /\ AnswerStands' /\ ValuesHeld'
    BY <2>2
  <2> QED
    BY <2>4, <2>5
<1>29. CASE PodReplaced
  <2>1. TypeOK'
    <3>1. account' \in BOOLEAN /\ disturbed' \in BOOLEAN /\ fresh' \in BOOLEAN
      BY <1>29, Zenon DEF PodReplaced, Lost
    <3>2. config' \in SecretStates /\ secret' \in SecretStates /\ secretSeen' \in SecretStates
      BY <1>29 DEF PodReplaced, Lost
    <3>3. ObjectTypes' /\ binding' = "absent"
      BY <1>29, Zenon DEF PodReplaced, Lost, ObjectTypes
    <3>4. UNCHANGED <<options, release, stored, workloadSeen, pc, answer, deleting, faults>>
      BY <1>29 DEF PodReplaced
    <3> QED
      BY <3>1, <3>2, <3>3, <3>4 DEF ObjectTypes
  <2>2. VirtualLives'
    BY <1>29 DEF PodReplaced, Lost
  <2>3. AnswerStands'
    BY <1>29 DEF PodReplaced, Lost
  <2>4. ValuesHeld'
    BY <1>29 DEF PodReplaced, Lost
  <2> QED
    BY <2>1, <2>2, <2>3, <2>4
<1> QED
  BY <1>1, <1>2, <1>3, <1>4, <1>5, <1>6, <1>7, <1>8, <1>9, <1>10, <1>11, <1>12, <1>13, <1>14,
     <1>15, <1>16, <1>17, <1>18, <1>19, <1>20, <1>21, <1>22, <1>23, <1>24, <1>25, <1>26, <1>27,
     <1>28, <1>29, ZenonT(60)
  DEF Next, Manager, Ensure, Ready, Delete, Faults

\* The invariant holds in every behaviour of the manager.
THEOREM Invariant == Spec => []Inv
BY InvInit, InvNext, PTL DEF Spec

\* Type correctness, stored values in the form JSON gives them back included.
THEOREM TypeCorrect == Spec => []TypeOK
<1>1. Inv => TypeOK
  BY DEF Inv
<1> QED
  BY <1>1, Invariant, PTL

\* An undisturbed yes of Ready means the exact handoff in a running cluster.
THEOREM ReadyExact == Spec => []ReadyIsExact
<1>1. Inv => ReadyIsExact
  BY DEF Inv, VirtualLives, AnswerStands, TypeOK, ReadyIsExact, HandoffInPlace
<1> QED
  BY <1>1, Invariant, PTL

\* A yes for a deployed release is about manifests of the operator's settings, and
\* about a pod that runs them or is on its way out.
THEOREM AppliesOptions == Spec => []ReadyAppliesOptions
<1>1. Inv => ReadyAppliesOptions
  <2> SUFFICES ASSUME Inv, answer = "yes", ~disturbed, release = "deployed"
               PROVE  applied = options /\ (running = options \/ outdated)
    BY DEF ReadyAppliesOptions
  <2>1. applied = options
    BY DEF Inv, ValuesHeld
  <2>2. workload = "ready"
    BY DEF Inv, VirtualLives, AnswerStands, HandoffInPlace
  <2> QED
    BY <2>1, <2>2 DEF Inv, VirtualLives
<1> QED
  BY <1>1, Invariant, PTL

\* Every step of the manager is a step of the contract or leaves it unchanged:
\* Helm's record installs, the rest of Ensure and the repairs are Ensure, a
\* failure or a restart aborts, drift disturbs.
LEMMA StepImplements == Inv /\ [Next]_vars => [Contract!Next]_Contract!vars
<1> SUFFICES ASSUME Inv, [Next]_vars PROVE Contract!Next \/ UNCHANGED Contract!vars
  OBVIOUS
<1> USE DEF Inv, TypeOK, VirtualLives, AnswerStands, VirtualCalls, HandoffInPlace, Call,
            Goto, Return, host, objects, seen, handoff, locals, Contract!Next, Contract!vars
<1>1. CASE EnsureReads
  BY <1>1 DEF EnsureReads, Contract!CallEnsure
<1>2. CASE InstallRecords
  BY <1>2 DEF InstallRecords, Record, Contract!Ensure
<1>3. CASE InstallApplies
  BY <1>3 DEF InstallApplies, Apply, Contract!Ensure
<1>4. CASE UpgradeRecords
  BY <1>4 DEF UpgradeRecords, Record, Contract!Ensure, Contract!Abort
<1>5. CASE UpgradeApplies
  BY <1>5 DEF UpgradeApplies, Apply, Contract!Ensure
<1>6. CASE HandoffConfig
  BY <1>6 DEF HandoffConfig
<1>7. CASE EnsureAccount
  BY <1>7, Zenon DEF EnsureAccount, Reachable, Contract!Ensure, Contract!Abort
<1>8. CASE GetBinding
  BY <1>8 DEF GetBinding
<1>9. CASE RepairBinding
  BY <1>9, Zenon DEF RepairBinding, Reachable, Contract!Ensure, Contract!Abort
<1>10. CASE Unreachable
  BY <1>10 DEF Unreachable, Contract!Abort
<1>11. CASE ReadSecret
  BY <1>11, Zenon DEF ReadSecret, Contract!CallReady, Contract!Abort
<1>12. CASE ReadWorkload
  BY <1>12 DEF ReadWorkload, Contract!Abort
<1>13. CASE ReadAccount
  BY <1>13 DEF ReadAccount, Contract!Abort
<1>14. CASE ReadBinding
  BY <1>14 DEF ReadBinding, Contract!Ready
<1>15. CASE Uninstall
  BY <1>15 DEF Uninstall, Contract!CallDelete
<1>16. CASE UninstallPurges
  BY <1>16 DEF UninstallPurges, Unapply, Contract!Delete
<1>17. CASE HelmFails
  BY <1>17, Zenon DEF HelmFails, Apply, Contract!Abort
<1>18. CASE UninstallFails
  BY <1>18, Zenon DEF UninstallFails, Unapply, Contract!Abort
<1>19. CASE CallFails
  BY <1>19 DEF CallFails, Contract!Abort
<1>20. CASE Restart
  BY <1>20 DEF Restart, Contract!Abort
<1>21. CASE PodRestarts
  BY <1>21, Zenon DEF PodRestarts, Lost, Contract!Disturb
<1>22. CASE TenantEdits
  BY <1>22, Zenon DEF TenantEdits, Contract!Disturb
<1>23. CASE BeginTeardown
  BY <1>23 DEF BeginTeardown
<1>24. CASE PodStarts
  BY <1>24 DEF PodStarts
<1>25. CASE Watch
  BY <1>25 DEF Watch
<1>26. CASE UNCHANGED vars
  BY <1>26 DEF vars
<1>27. CASE TeardownGoesOn
  BY <1>27 DEF TeardownGoesOn, Contract!Abort
<1>28. CASE CallOffTeardown
  BY <1>28 DEF CallOffTeardown
<1>29. CASE PodReplaced
  BY <1>29, Zenon DEF PodReplaced, Lost, Contract!Disturb
<1> QED
  BY <1>1, <1>2, <1>3, <1>4, <1>5, <1>6, <1>7, <1>8, <1>9, <1>10, <1>11, <1>12, <1>13, <1>14,
     <1>15, <1>16, <1>17, <1>18, <1>19, <1>20, <1>21, <1>22, <1>23, <1>24, <1>25, <1>26, <1>27,
     <1>28, <1>29, Zenon
  DEF Next, Manager, Ensure, Ready, Delete, Faults

\* The manager of helm.go, split at its calls and with every failure between
\* them, implements the contract the controller relies on.
THEOREM Implements == Spec => KeepsContract
<1>1. Init => Contract!Init
  BY DEF Init, Contract!Init, HandoffInPlace, Call
<1> QED
  BY <1>1, StepImplements, Invariant, PTL DEF Spec, KeepsContract, Contract!Spec

===========================================================================
