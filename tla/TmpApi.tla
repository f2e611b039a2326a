--------------------------------- MODULE TmpApi --------------------------------
(***************************************************************************)
(* Instances of the components behind the requests of the API that share   *)
(* no state with each other.  A behaviour is one of one of them, chosen by *)
(* part; the others keep their initial states.  What would be nine runs    *)
(* of a second or a minute each is one.                                     *)
(***************************************************************************)
EXTENDS Expenses, OrgCache, SseConnections, MonitoringSessions, Admission, Employees,
        Authentication, DistanceStream, WebhookSecrets, TLC

VARIABLE part

Parts == {"cache"}

MCInit ==
  /\ part \in Parts
  /\ ExpensesInit /\ CacheInit /\ SseInit /\ MonitoringInit /\ AdmissionInit /\ EmployeesInit
  /\ AuthInit /\ StreamInit /\ SecretsInit
  /\ part # "admission" => inRedis

ExpensesStep   == part = "expenses" /\ ExpensesNext
CacheStep      == part = "cache" /\ CacheNext
SseStep        == part = "events" /\ SseNext
MonitoringStep == part = "monitoring" /\ MonitoringNext
AdmissionStep  == part = "admission" /\ AdmissionNext
EmployeesStep  == part = "employees" /\ EmployeesNext
AuthStep       == part = "authentication" /\ AuthNext
DistanceStep   == part = "distance" /\ StreamNext
SecretsStep    == part = "secrets" /\ SecretsNext

MCNext ==
  /\ \/ ExpensesStep   /\ UNCHANGED <<cacheVars, sseVars, monitoringVars, admissionVars,
                                      employeesVars, authVars, streamVars, secretsVars>>
     \/ CacheStep      /\ UNCHANGED <<expensesVars, sseVars, monitoringVars, admissionVars,
                                      employeesVars, authVars, streamVars, secretsVars>>
     \/ SseStep        /\ UNCHANGED <<expensesVars, cacheVars, monitoringVars, admissionVars,
                                      employeesVars, authVars, streamVars, secretsVars>>
     \/ MonitoringStep /\ UNCHANGED <<expensesVars, cacheVars, sseVars, admissionVars,
                                      employeesVars, authVars, streamVars, secretsVars>>
     \/ AdmissionStep  /\ UNCHANGED <<expensesVars, cacheVars, sseVars, monitoringVars,
                                      employeesVars, authVars, streamVars, secretsVars>>
     \/ EmployeesStep  /\ UNCHANGED <<expensesVars, cacheVars, sseVars, monitoringVars,
                                      admissionVars, authVars, streamVars, secretsVars>>
     \/ AuthStep       /\ UNCHANGED <<expensesVars, cacheVars, sseVars, monitoringVars,
                                      admissionVars, employeesVars, streamVars, secretsVars>>
     \/ DistanceStep   /\ UNCHANGED <<expensesVars, cacheVars, sseVars, monitoringVars,
                                      admissionVars, employeesVars, authVars, secretsVars>>
     \/ SecretsStep    /\ UNCHANGED <<expensesVars, cacheVars, sseVars, monitoringVars,
                                      admissionVars, employeesVars, authVars, streamVars>>
  /\ UNCHANGED part

MCSpec == MCInit /\ [][MCNext]_<<part, expensesVars, cacheVars, sseVars, monitoringVars,
                                admissionVars, employeesVars, authVars, streamVars, secretsVars>>

\* The values of the variables of every part stay in their types.
TypeOK ==
  /\ ExpensesTypeOK /\ CacheTypeOK /\ SseTypeOK
  /\ MonitoringTypeOK /\ AdmissionTypeOK /\ EmployeesTypeOK
  /\ AuthTypeOK /\ StreamTypeOK /\ SecretsTypeOK

MCSymmetry ==
  Permutations(Requests) \cup
    {r @@ k @@ e : r \in Permutations(Reviewers), k \in Permutations(Slots), e \in Permutations(Claims)}

=============================================================================
