----------------------------- MODULE UdfImport -----------------------------
(***************************************************************************)
(* The inference context of a prediction function: how its code gets into  *)
(* the __main__ module of an observer's interpreter, and what a statement  *)
(* finds there when it calls the function.  A statement whose plan is not  *)
(* in the plan cache is resolved against the catalog and compiled; the     *)
(* code generator visits the function (visit_python_udf_expr) and imports  *)
(* it: run the code, which defines <name>_pyinitial and <name>_pyfun, then *)
(* call the first.  A cached plan is executed without another look at the  *)
(* catalog or at the interpreter.  Python switches threads inside the code *)
(* it runs, so the imports of several sessions interleave.                 *)
(***************************************************************************)
EXTENDS Naturals

CONSTANTS
  Servers,      \* observer processes, each with one interpreter
  Sessions,     \* client sessions
  Tenants,      \* tenants: each has its own functions
  Names,        \* names of functions
  Globals,      \* global variables of Python code
  GlobalOf,     \* the variable in which a function keeps its context
  TenantOf,     \* a session's tenant
  ServerOf,     \* the server that compiles and executes a session's statements
  MaxVersions   \* bound: times that a name is created in a tenant

ASSUME ImportAssumption ==
  /\ GlobalOf \in [Names -> Globals]
  /\ TenantOf \in [Sessions -> Tenants]
  /\ ServerOf \in [Sessions -> Servers]
  /\ MaxVersions \in Nat

VARIABLES
  catalog,    \* per tenant and name: the version that exists, 0: none
  versions,   \* per tenant and name: versions created so far
  main,       \* per server and name: what __main__ binds to the two handlers
  context,    \* per server and global: the code that assigned its two halves
  planCache,  \* per server, tenant and name: the code in the cached plan
  pc,         \* per session: where its statement is
  plan,       \* per session: the name and the code in its plan
  initial     \* per session: the pyinitial that the import has looked up

catalog_vars == <<catalog, versions>>
process_vars == <<main, context, planCache>>
session_vars == <<pc, plan, initial>>
vars == <<catalog_vars, process_vars, session_vars>>

\* The code of a function: the pycall text of one version in one tenant.
NoCode == [tenant |-> "none", name |-> "none", version |-> 0]
Codes == [tenant : Tenants, name : Names, version : 1..MaxVersions]
AnyCode == Codes \cup {NoCode}
Contexts == [first : AnyCode, last : AnyCode]
Importing == {"define_initial", "define_fun", "get_initial", "run_initial", "finish_initial"}
Places == Importing \cup {"idle", "add_plan", "call"}

\* Every variable has its type.
TypeOK ==
  /\ catalog \in [Tenants -> [Names -> 0..MaxVersions]]
  /\ versions \in [Tenants -> [Names -> 0..MaxVersions]]
  /\ main \in [Servers -> [Names -> [initial : AnyCode, fun : AnyCode]]]
  /\ context \in [Servers -> [Globals -> Contexts]]
  /\ planCache \in [Servers -> [Tenants -> [Names -> AnyCode]]]
  /\ pc \in [Sessions -> Places]
  /\ plan \in [Sessions -> AnyCode]
  /\ initial \in [Sessions -> AnyCode]

Init ==
  /\ catalog = [t \in Tenants |-> [n \in Names |-> 0]]
  /\ versions = [t \in Tenants |-> [n \in Names |-> 0]]
  /\ main = [v \in Servers |-> [n \in Names |-> [initial |-> NoCode, fun |-> NoCode]]]
  /\ context = [v \in Servers |-> [g \in Globals |-> [first |-> NoCode, last |-> NoCode]]]
  /\ planCache = [v \in Servers |-> [t \in Tenants |-> [n \in Names |-> NoCode]]]
  /\ pc = [s \in Sessions |-> "idle"]
  /\ plan = [s \in Sessions |-> NoCode]
  /\ initial = [s \in Sessions |-> NoCode]

-----------------------------------------------------------------------------
(* The catalog, as the resolver sees it.  No plan depends on it. *)

CreateUdf(t, n) ==
  /\ catalog[t][n] = 0
  /\ versions[t][n] < MaxVersions
  /\ versions' = [versions EXCEPT ![t][n] = @ + 1]
  /\ catalog' = [catalog EXCEPT ![t][n] = versions[t][n] + 1]
  /\ UNCHANGED <<process_vars, session_vars>>

DropUdf(t, n) ==
  /\ catalog[t][n] # 0
  /\ catalog' = [catalog EXCEPT ![t][n] = 0]
  /\ UNCHANGED <<versions, process_vars, session_vars>>

\* The plan cache gives up a plan when its memory runs short.
EvictPlan(v, t, n) ==
  /\ planCache[v][t][n] # NoCode
  /\ planCache' = [planCache EXCEPT ![v][t][n] = NoCode]
  /\ UNCHANGED <<catalog_vars, main, context, session_vars>>

-----------------------------------------------------------------------------
(* One statement. *)

Goto(s, line) == pc' = [pc EXCEPT ![s] = line]

\* The statement ends, and its local state with it.
EndStatement(s) ==
  /\ Goto(s, "idle")
  /\ plan' = [plan EXCEPT ![s] = NoCode]
  /\ initial' = [initial EXCEPT ![s] = NoCode]

\* Variant: the handlers keep the names that the code gives them.
HandlerNotRenamed(n) == CHOOSE m \in Names : TRUE

\* The name under which __main__ keeps the handlers: import_udf puts it
\* before pyinitial and pyfun, and eval looks for that name again.
Handler(n) == n

\* A statement whose plan is cached is executed as it is.
HitPlan(s, n) ==
  LET cached == planCache[ServerOf[s]][TenantOf[s]][n] IN
  /\ pc[s] = "idle"
  /\ cached # NoCode
  /\ plan' = [plan EXCEPT ![s] = cached]
  /\ Goto(s, "call")
  /\ UNCHANGED <<catalog_vars, process_vars, initial>>

\* Variant: the resolver does not look whether the function exists.
ResolveUnknown(s, n) ==
  /\ pc[s] = "idle"
  /\ planCache[ServerOf[s]][TenantOf[s]][n] = NoCode
  /\ plan' = [plan EXCEPT ![s] = [tenant |-> TenantOf[s], name |-> n,
                                  version |-> catalog[TenantOf[s]][n]]]
  /\ Goto(s, "define_initial")
  /\ UNCHANGED <<catalog_vars, process_vars, initial>>

\* process_python_udf_node and set_udf_meta: the plan under construction takes
\* a copy of the function's code, with init_ reset, so that init_udf imports.
Resolve(s, n) ==
  /\ pc[s] = "idle"
  /\ planCache[ServerOf[s]][TenantOf[s]][n] = NoCode
  /\ catalog[TenantOf[s]][n] # 0
  /\ plan' = [plan EXCEPT ![s] = [tenant |-> TenantOf[s], name |-> n,
                                  version |-> catalog[TenantOf[s]][n]]]
  /\ Goto(s, "define_initial")
  /\ UNCHANGED <<catalog_vars, process_vars, initial>>

\* PyRun_StringFlags, as far as the definition of pyinitial.
DefineInitial(s) ==
  /\ pc[s] = "define_initial"
  /\ main' = [main EXCEPT ![ServerOf[s]][Handler(plan[s].name)] =
                [initial |-> plan[s], fun |-> @.fun]]
  /\ Goto(s, "define_fun")
  /\ UNCHANGED <<catalog_vars, context, planCache, plan, initial>>

\* PyRun_StringFlags, as far as the definition of pyfun.
DefineFun(s) ==
  /\ pc[s] = "define_fun"
  /\ main' = [main EXCEPT ![ServerOf[s]][Handler(plan[s].name)] =
                [initial |-> @.initial, fun |-> plan[s]]]
  /\ Goto(s, "get_initial")
  /\ UNCHANGED <<catalog_vars, context, planCache, plan, initial>>

\* PyObject_GetAttrString: whatever the handler's name is bound to now.
GetInitial(s) ==
  /\ pc[s] = "get_initial"
  /\ initial' = [initial EXCEPT ![s] = main[ServerOf[s]][Handler(plan[s].name)].initial]
  /\ Goto(s, "run_initial")
  /\ UNCHANGED <<catalog_vars, process_vars, plan>>

\* Variant: the failure of pyinitial is logged, and the plan is used.
ImportFailsSilently(s) ==
  /\ pc[s] \in Importing
  /\ IF pc[s] \in {"run_initial", "finish_initial"}
     THEN Goto(s, "call") /\ UNCHANGED <<plan, initial>>
     ELSE EndStatement(s)
  /\ UNCHANGED <<catalog_vars, process_vars>>

\* Variant: so is a failure of the definitions.
ImportFailureIgnored(s) ==
  /\ pc[s] \in Importing
  /\ Goto(s, "call")
  /\ UNCHANGED <<catalog_vars, process_vars, plan, initial>>

\* The code raises on the way, or pyinitial does, at its start or half-way:
\* import_udf fails and the statement with it.  What was defined and assigned
\* until then stays.
ImportFails(s) ==
  /\ pc[s] \in Importing
  /\ EndStatement(s)
  /\ UNCHANGED <<catalog_vars, process_vars>>

\* PyObject_CallObject: pyinitial assigns the parts of its context one after
\* the other, and Python may switch threads in between.
RunInitial(s) ==
  /\ pc[s] = "run_initial"
  /\ context' = [context EXCEPT ![ServerOf[s]][GlobalOf[plan[s].name]] =
                   [first |-> initial[s], last |-> @.last]]
  /\ Goto(s, "finish_initial")
  /\ UNCHANGED <<catalog_vars, main, planCache, plan, initial>>

\* pyinitial assigns the rest and returns: the import is done.
FinishInitial(s) ==
  /\ pc[s] = "finish_initial"
  /\ context' = [context EXCEPT ![ServerOf[s]][GlobalOf[plan[s].name]] =
                   [first |-> @.first, last |-> initial[s]]]
  /\ initial' = [initial EXCEPT ![s] = NoCode]
  /\ Goto(s, "add_plan")
  /\ UNCHANGED <<catalog_vars, main, planCache, plan>>

\* The rest of the compilation fails.
CompileFails(s) ==
  /\ pc[s] = "add_plan"
  /\ EndStatement(s)
  /\ UNCHANGED <<catalog_vars, process_vars>>

\* pc_add_plan: the plan enters the cache, unless another session has added
\* one meanwhile (OB_SQL_PC_PLAN_DUPLICATE) or the cache takes no more; the
\* statement executes its own plan in every case.
AddPlan(s) ==
  /\ pc[s] = "add_plan"
  /\ \/ /\ planCache[ServerOf[s]][TenantOf[s]][plan[s].name] = NoCode
        /\ planCache' = [planCache EXCEPT ![ServerOf[s]][TenantOf[s]][plan[s].name] = plan[s]]
     \/ UNCHANGED planCache
  /\ Goto(s, "call")
  /\ UNCHANGED <<catalog_vars, main, context, plan, initial>>

\* ObPythonUDFCell::eval calls what __main__ binds to <name>_pyfun, or fails
\* when there is nothing; either way the statement ends some time.
Call(s) ==
  /\ pc[s] = "call"
  /\ EndStatement(s)
  /\ UNCHANGED <<catalog_vars, process_vars>>

Catalog == \E t \in Tenants, n \in Names : CreateUdf(t, n) \/ DropUdf(t, n)
Evict == \E v \in Servers, t \in Tenants, n \in Names : EvictPlan(v, t, n)

Statement(s) ==
  \/ \E n \in Names : HitPlan(s, n) \/ Resolve(s, n)
  \/ DefineInitial(s) \/ DefineFun(s) \/ GetInitial(s)
  \/ RunInitial(s) \/ FinishInitial(s) \/ ImportFails(s)
  \/ AddPlan(s) \/ CompileFails(s) \/ Call(s)

Next == Catalog \/ Evict \/ \E s \in Sessions : Statement(s)

Spec == Init /\ [][Next]_vars

-----------------------------------------------------------------------------
(* Properties. *)

Executing(s) == pc[s] = "call"

\* What the call of a session's statement finds.
Found(s) == main[ServerOf[s]][Handler(plan[s].name)].fun

\* The function in a session's plan is not the only one of its name: it was
\* dropped and created again, or another tenant has created one.
Redefined(s) ==
  \E t \in Tenants : versions[t][plan[s].name] > IF t = TenantOf[s] THEN 1 ELSE 0

\* A statement finds its function (eval's "Get function handler failed" is not
\* reached), whatever other sessions import, fail to import, drop and create
\* again, and however old its cached plan is.
FunctionFound == \A s \in Sessions : Executing(s) => Found(s) # NoCode

\* The function that a statement calls has the name of the one in its plan and,
\* as long as it is the only one of this name so far, is this very code.
CallsOwnFunction ==
  \A s \in Sessions : Executing(s) =>
    /\ Found(s).name \in {plan[s].name, NoCode.name}
    /\ Redefined(s) \/ Found(s) \in {plan[s], NoCode}

\* The context cache never hands a call the context of other code, nor one
\* that is half set up: when a statement calls the only function of its name
\* so far, this function's own pyinitial has assigned all of the context, also
\* while other functions are redefined, imports fail half-way through their
\* pyinitial, and another session runs the same pyinitial again.
CallsInitialised ==
  \A s \in Sessions : Executing(s) /\ ~Redefined(s) =>
    context[ServerOf[s]][GlobalOf[plan[s].name]] = [first |-> plan[s], last |-> plan[s]]
=============================================================================
