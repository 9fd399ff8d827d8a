---------------------------- MODULE ImportProofs ----------------------------
(***************************************************************************)
(* Theorems about UdfImport, for any servers, sessions, tenants, names and *)
(* number of versions.                                                     *)
(***************************************************************************)
EXTENDS UdfImport, TLAPS

\* A code that is kept under a name is a version of a function of that name
\* that some tenant has created.
CodeFits(c, n) ==
  c # NoCode => c \in Codes /\ c.name = n /\ c.version <= versions[c.tenant][n]

\* The handlers of the function in a session's plan.
Bound(s) == main[ServerOf[s]][plan[s].name]

\* The statement runs pyinitial; it has done so.
Initialising(s) == pc[s] \in {"run_initial", "finish_initial"}
Compiled(s) == pc[s] \in {"add_plan", "call"}

\* What a statement relies on: each step of its import has bound what the
\* next ones look up, and nobody takes it away.
SessionFits(s) ==
  /\ pc[s] # "idle" => plan[s] \in Codes /\ CodeFits(plan[s], plan[s].name)
  /\ initial[s] # NoCode => Initialising(s) /\ CodeFits(initial[s], plan[s].name)
  /\ pc[s] \in {"define_fun", "get_initial"} => Bound(s).initial # NoCode
  /\ Initialising(s) => initial[s] # NoCode
  /\ pc[s] = "get_initial" \/ Initialising(s) \/ Compiled(s) => Bound(s).fun # NoCode

CatalogFits == \A t \in Tenants, n \in Names : catalog[t][n] <= versions[t][n]

MainFits ==
  \A v \in Servers, n \in Names : CodeFits(main[v][n].initial, n) /\ CodeFits(main[v][n].fun, n)

CacheFits ==
  \A v \in Servers, t \in Tenants, n \in Names :
    /\ CodeFits(planCache[v][t][n], n)
    /\ planCache[v][t][n] # NoCode => main[v][n].fun # NoCode

IndInv ==
  /\ TypeOK
  /\ CatalogFits
  /\ MainFits
  /\ CacheFits
  /\ \A s \in Sessions : SessionFits(s)

-----------------------------------------------------------------------------

\* The code of a version is not NoCode, whose version is 0.
LEMMA CodeIsSome == ASSUME NEW c \in Codes PROVE c # NoCode
<1>1. c.version \in 1..MaxVersions /\ NoCode.version = 0
  BY DEF Codes, NoCode
<1> QED BY <1>1

\* A session that does not move keeps its part: versions are only added and
\* handlers are only bound again.
LEMMA Bystander ==
  ASSUME TypeOK, NEW u \in Sessions, SessionFits(u),
         pc'[u] = pc[u], plan'[u] = plan[u], initial'[u] = initial[u],
         \A t \in Tenants, n \in Names : versions[t][n] <= versions'[t][n],
         \A t \in Tenants, n \in Names : versions'[t][n] \in Nat,
         \A v \in Servers, n \in Names :
           /\ main[v][n].initial # NoCode => main'[v][n].initial # NoCode
           /\ main[v][n].fun # NoCode => main'[v][n].fun # NoCode
  PROVE  SessionFits(u)'
<1>0. ServerOf[u] \in Servers
  BY ImportAssumption
<1>1. ASSUME NEW c \in Codes, NEW n \in Names, c.version <= versions[c.tenant][n]
      PROVE  c.version <= versions'[c.tenant][n]
  <2>1. c.tenant \in Tenants /\ c.version \in Nat
    BY DEF Codes
  <2>2. versions[c.tenant][n] \in Nat
    BY <2>1 DEF TypeOK
  <2> QED BY <1>1, <2>1, <2>2
<1>2. ASSUME pc[u] # "idle" PROVE plan[u] \in Codes /\ plan[u].name \in Names
  BY <1>2 DEF SessionFits, Initialising, Compiled, Codes
<1>3. pc'[u] # "idle" => plan'[u] \in Codes /\ CodeFits(plan[u], plan[u].name)'
  BY <1>1, <1>2 DEF SessionFits, Initialising, Compiled, CodeFits
<1>4. initial'[u] # NoCode => Initialising(u)' /\ CodeFits(initial[u], plan[u].name)'
  BY <1>1, <1>2 DEF SessionFits, Initialising, Compiled, CodeFits
<1>5. /\ pc'[u] \in {"define_fun", "get_initial"} => Bound(u)'.initial # NoCode
      /\ (pc[u] = "get_initial" \/ Initialising(u) \/ Compiled(u))' => Bound(u)'.fun # NoCode
  BY <1>0, <1>2 DEF SessionFits, Initialising, Compiled, Bound
<1> QED BY <1>3, <1>4, <1>5 DEF SessionFits, Initialising, Compiled

\* Initially nothing is bound, cached or running.
LEMMA InitInv == Init => IndInv
<1> SUFFICES ASSUME Init PROVE IndInv
  OBVIOUS
<1>1. TypeOK
  BY ImportAssumption DEF Init, TypeOK, AnyCode, Contexts, Places, Importing
<1>2. CatalogFits /\ MainFits /\ CacheFits
  BY DEF Init, CatalogFits, MainFits, CacheFits, CodeFits
<1>3. ASSUME NEW s \in Sessions PROVE SessionFits(s)
  BY DEF Init, SessionFits, Initialising, Compiled
<1> QED BY <1>1, <1>2, <1>3 DEF IndInv

\* A function is created or dropped: versions grow, and nothing else is seen
\* of it in the processes.
LEMMA CatalogInv ==
  ASSUME IndInv, NEW t \in Tenants, NEW n \in Names, CreateUdf(t, n) \/ DropUdf(t, n)
  PROVE  IndInv'
<1>0. TypeOK /\ CatalogFits /\ MainFits /\ CacheFits /\ \A s \in Sessions : SessionFits(s)
  BY DEF IndInv
<1>1. UNCHANGED <<main, context, planCache, pc, plan, initial>>
  BY DEF CreateUdf, DropUdf, process_vars, session_vars
<1>2. /\ catalog' \in [Tenants -> [Names -> 0..MaxVersions]]
      /\ versions' \in [Tenants -> [Names -> 0..MaxVersions]]
      /\ CatalogFits'
      /\ \A u \in Tenants, m \in Names : versions[u][m] <= versions'[u][m]
  <2>1. CASE CreateUdf(t, n)
    BY <2>1, <1>0, ImportAssumption DEF CreateUdf, TypeOK, CatalogFits
  <2>2. CASE DropUdf(t, n)
    BY <2>2, <1>0, ImportAssumption DEF DropUdf, TypeOK, CatalogFits
  <2> QED BY <2>1, <2>2
<1>3. TypeOK'
  BY <1>0, <1>1, <1>2 DEF TypeOK
<1>4. ASSUME NEW c \in AnyCode, NEW m \in Names, CodeFits(c, m)
      PROVE  c # NoCode => c \in Codes /\ c.name = m /\ c.version <= versions'[c.tenant][m]
  <2> SUFFICES ASSUME c # NoCode PROVE c.version <= versions'[c.tenant][m]
    BY <1>4 DEF CodeFits
  <2>1. c \in Codes /\ c.version <= versions[c.tenant][m]
    BY <1>4 DEF CodeFits
  <2>2. c.tenant \in Tenants /\ c.version \in Nat
    BY <2>1 DEF Codes
  <2>3. versions[c.tenant][m] \in Nat /\ versions'[c.tenant][m] \in Nat
    BY <2>2, <1>0, <1>2, ImportAssumption DEF TypeOK
  <2> QED BY <2>1, <2>2, <2>3, <1>2
<1>5. MainFits'
  <2> SUFFICES ASSUME NEW v \in Servers, NEW m \in Names
               PROVE  CodeFits(main[v][m].initial, m)' /\ CodeFits(main[v][m].fun, m)'
    BY DEF MainFits
  <2>1. /\ main[v][m].initial \in AnyCode /\ CodeFits(main[v][m].initial, m)
        /\ main[v][m].fun \in AnyCode /\ CodeFits(main[v][m].fun, m)
    BY <1>0 DEF TypeOK, MainFits
  <2> QED BY <2>1, <1>1, <1>4 DEF CodeFits
<1>6. CacheFits'
  <2> SUFFICES ASSUME NEW v \in Servers, NEW u \in Tenants, NEW m \in Names
               PROVE  /\ CodeFits(planCache[v][u][m], m)'
                      /\ planCache'[v][u][m] # NoCode => main'[v][m].fun # NoCode
    BY DEF CacheFits
  <2>1. /\ planCache[v][u][m] \in AnyCode /\ CodeFits(planCache[v][u][m], m)
        /\ planCache[v][u][m] # NoCode => main[v][m].fun # NoCode
    BY <1>0 DEF TypeOK, CacheFits
  <2> QED BY <2>1, <1>1, <1>4 DEF CodeFits
<1>7. ASSUME NEW s \in Sessions PROVE SessionFits(s)'
  <2>1. \A u \in Tenants, m \in Names : versions'[u][m] \in Nat
    BY <1>2, ImportAssumption
  <2> QED BY <1>0, <1>1, <1>2, <2>1, Bystander
<1> QED BY <1>2, <1>3, <1>5, <1>6, <1>7 DEF IndInv

\* A plan leaves the cache.
LEMMA EvictInv ==
  ASSUME IndInv, NEW v \in Servers, NEW t \in Tenants, NEW n \in Names, EvictPlan(v, t, n)
  PROVE  IndInv'
<1>0. TypeOK /\ CatalogFits /\ MainFits /\ CacheFits /\ \A s \in Sessions : SessionFits(s)
  BY DEF IndInv
<1>1. UNCHANGED <<catalog, versions, main, context, pc, plan, initial>>
  BY DEF EvictPlan, catalog_vars, session_vars
<1>2. planCache' \in [Servers -> [Tenants -> [Names -> AnyCode]]]
  BY <1>0 DEF EvictPlan, TypeOK, AnyCode
<1>3. TypeOK' /\ CatalogFits' /\ MainFits'
  BY <1>0, <1>1, <1>2 DEF TypeOK, CatalogFits, MainFits, CodeFits
<1>4. CacheFits'
  <2> SUFFICES ASSUME NEW w \in Servers, NEW u \in Tenants, NEW m \in Names
               PROVE  /\ CodeFits(planCache[w][u][m], m)'
                      /\ planCache'[w][u][m] # NoCode => main'[w][m].fun # NoCode
    BY DEF CacheFits
  <2>1. planCache'[w][u][m] \in {planCache[w][u][m], NoCode}
    BY <1>0 DEF EvictPlan, TypeOK
  <2> QED BY <2>1, <1>0, <1>1 DEF CacheFits, CodeFits
<1>5. ASSUME NEW s \in Sessions PROVE SessionFits(s)'
  BY <1>0, <1>1 DEF SessionFits, Initialising, Compiled, CodeFits, Bound
<1> QED BY <1>3, <1>4, <1>5 DEF IndInv

\* A statement begins with a cached plan or resolves its function, fails, or
\* ends: the process does not change.
LEMMA BeginEndInv ==
  ASSUME IndInv, NEW s \in Sessions,
         \/ \E n \in Names : HitPlan(s, n) \/ Resolve(s, n)
         \/ ImportFails(s) \/ CompileFails(s) \/ Call(s)
  PROVE  IndInv'
<1>0. TypeOK /\ CatalogFits /\ MainFits /\ CacheFits /\ \A u \in Sessions : SessionFits(u)
  BY DEF IndInv
<1>1. /\ UNCHANGED <<catalog, versions, main, context, planCache>>
      /\ \E line \in Places : pc' = [pc EXCEPT ![s] = line]
  BY DEF HitPlan, Resolve, ImportFails, CompileFails, Call, EndStatement, Goto, Places,
     Importing, catalog_vars, process_vars
<1>2. ServerOf[s] \in Servers /\ TenantOf[s] \in Tenants
  BY ImportAssumption
<1>3. /\ plan' \in [Sessions -> AnyCode] /\ initial' \in [Sessions -> AnyCode]
      /\ \A u \in Sessions \ {s} : plan'[u] = plan[u] /\ initial'[u] = initial[u]
      /\ SessionFits(s)'
  <2>1. ASSUME NEW n \in Names, HitPlan(s, n)
        PROVE  <1>3!:
    <3>1. /\ pc[s] = "idle" /\ plan' = [plan EXCEPT ![s] = planCache[ServerOf[s]][TenantOf[s]][n]]
          /\ planCache[ServerOf[s]][TenantOf[s]][n] # NoCode
          /\ pc' = [pc EXCEPT ![s] = "call"] /\ initial' = initial
      BY <2>1 DEF HitPlan, Goto
    <3>2. planCache[ServerOf[s]][TenantOf[s]][n] \in AnyCode
      BY <1>0, <1>2 DEF TypeOK
    <3>3. plan'[s] \in Codes /\ plan'[s].name = n /\ plan'[s] # NoCode
          /\ plan'[s].version <= versions[plan'[s].tenant][n] /\ main[ServerOf[s]][n].fun # NoCode
      BY <1>0, <1>2, <3>1, <3>2 DEF TypeOK, CacheFits, CodeFits
    <3>4. initial[s] = NoCode
      BY <1>0, <3>1 DEF SessionFits, Initialising, Compiled
    <3>5. pc'[s] = "call" /\ initial'[s] = NoCode
      BY <1>0, <3>1, <3>4 DEF TypeOK
    <3> QED BY <1>0, <1>1, <3>1, <3>2, <3>3, <3>5 DEF TypeOK, SessionFits,
           Initialising, Compiled, CodeFits, Bound
  <2>2. ASSUME NEW n \in Names, Resolve(s, n)
        PROVE  <1>3!:
    <3> DEFINE c == [tenant |-> TenantOf[s], name |-> n, version |-> catalog[TenantOf[s]][n]]
    <3>1. /\ pc[s] = "idle" /\ plan' = [plan EXCEPT ![s] = c]
          /\ catalog[TenantOf[s]][n] # 0
          /\ pc' = [pc EXCEPT ![s] = "define_initial"] /\ initial' = initial
      BY <2>2 DEF Resolve, Goto
    <3>2. catalog[TenantOf[s]][n] \in 1..MaxVersions
          /\ catalog[TenantOf[s]][n] <= versions[TenantOf[s]][n]
      BY <1>0, <1>2, <3>1, ImportAssumption DEF TypeOK, CatalogFits
    <3>3. c \in Codes /\ c.name = n /\ c.version <= versions[c.tenant][n]
      BY <1>2, <3>2 DEF Codes
    <3>4. initial[s] = NoCode
      BY <1>0, <3>1 DEF SessionFits, Initialising, Compiled
    <3>5. pc'[s] = "define_initial" /\ initial'[s] = NoCode /\ plan'[s] = c
      BY <1>0, <3>1, <3>4 DEF TypeOK
    <3> HIDE DEF c
    <3> QED BY <1>0, <1>1, <3>1, <3>3, <3>5 DEF TypeOK, AnyCode, SessionFits,
           Initialising, Compiled, CodeFits, Bound
  <2>3. ASSUME ImportFails(s) \/ CompileFails(s) \/ Call(s)
        PROVE  <1>3!:
    <3>1. /\ pc' = [pc EXCEPT ![s] = "idle"] /\ plan' = [plan EXCEPT ![s] = NoCode]
          /\ initial' = [initial EXCEPT ![s] = NoCode]
      BY <2>3 DEF ImportFails, CompileFails, Call, EndStatement, Goto
    <3>2. pc'[s] = "idle" /\ initial'[s] = NoCode
      BY <1>0, <3>1 DEF TypeOK
    <3> QED BY <1>0, <3>1, <3>2 DEF TypeOK, AnyCode, SessionFits, Initialising, Compiled
  <2> QED BY <2>1, <2>2, <2>3
<1>4. TypeOK'
  BY <1>0, <1>1, <1>3 DEF TypeOK
<1>5. CatalogFits' /\ MainFits' /\ CacheFits'
  BY <1>0, <1>1 DEF CatalogFits, MainFits, CacheFits, CodeFits
<1>6. ASSUME NEW u \in Sessions, u # s PROVE SessionFits(u)'
  <2>1. pc'[u] = pc[u]
    BY <1>0, <1>1, <1>6 DEF TypeOK
  <2> QED BY <1>0, <1>1, <1>3, <1>6, <2>1 DEF SessionFits, Initialising, Compiled, CodeFits, Bound
<1> QED BY <1>3, <1>4, <1>5, <1>6 DEF IndInv

\* The code of a statement's plan, which runs in __main__, binds a handler.
LEMMA DefineInv ==
  ASSUME IndInv, NEW s \in Sessions, DefineInitial(s) \/ DefineFun(s)
  PROVE  IndInv'
<1> DEFINE v == ServerOf[s]
           n == plan[s].name
<1>0. TypeOK /\ CatalogFits /\ MainFits /\ CacheFits /\ \A u \in Sessions : SessionFits(u)
  BY DEF IndInv
<1>1. UNCHANGED <<catalog, versions, context, planCache, plan, initial>>
  BY DEF DefineInitial, DefineFun, catalog_vars
<1>2. /\ v \in Servers /\ n \in Names /\ plan[s] \in Codes /\ plan[s] # NoCode
      /\ CodeFits(plan[s], n) /\ initial[s] = NoCode
  <2>1. pc[s] \in {"define_initial", "define_fun"}
    BY DEF DefineInitial, DefineFun
  <2>2. plan[s] \in Codes /\ CodeFits(plan[s], n) /\ initial[s] = NoCode
    BY <1>0, <2>1 DEF SessionFits, Initialising, Compiled
  <2> QED BY <2>2, CodeIsSome, ImportAssumption DEF Codes
<1>3. /\ main' \in [Servers -> [Names -> [initial : AnyCode, fun : AnyCode]]]
      /\ \A w \in Servers, m \in Names :
           /\ main'[w][m].initial \in {main[w][m].initial}
                \cup (IF w = v /\ m = n THEN {plan[s]} ELSE {})
           /\ main'[w][m].fun \in {main[w][m].fun}
                \cup (IF w = v /\ m = n THEN {plan[s]} ELSE {})
  <2>1. CASE DefineInitial(s)
    <3>1. main' = [main EXCEPT ![v][n] = [initial |-> plan[s], fun |-> main[v][n].fun]]
      BY <2>1 DEF DefineInitial, Handler
    <3> QED BY <3>1, <1>0, <1>2 DEF TypeOK, AnyCode
  <2>2. CASE DefineFun(s)
    <3>1. main' = [main EXCEPT ![v][n] = [initial |-> main[v][n].initial, fun |-> plan[s]]]
      BY <2>2 DEF DefineFun, Handler
    <3> QED BY <3>1, <1>0, <1>2 DEF TypeOK, AnyCode
  <2> QED BY <2>1, <2>2
<1>4. \E line \in Places : pc' = [pc EXCEPT ![s] = line]
  BY DEF DefineInitial, DefineFun, Goto, Places, Importing
<1>5. TypeOK'
  BY <1>0, <1>1, <1>3, <1>4 DEF TypeOK
<1>6. \A w \in Servers, m \in Names :
        /\ main[w][m].initial # NoCode => main'[w][m].initial # NoCode
        /\ main[w][m].fun # NoCode => main'[w][m].fun # NoCode
  BY <1>2, <1>3
<1>7. MainFits'
  <2> SUFFICES ASSUME NEW w \in Servers, NEW m \in Names
               PROVE  CodeFits(main[w][m].initial, m)' /\ CodeFits(main[w][m].fun, m)'
    BY DEF MainFits
  <2>1. CodeFits(main[w][m].initial, m) /\ CodeFits(main[w][m].fun, m)
    BY <1>0 DEF MainFits
  <2>2. /\ main'[w][m].initial = main[w][m].initial \/ (m = n /\ main'[w][m].initial = plan[s])
        /\ main'[w][m].fun = main[w][m].fun \/ (m = n /\ main'[w][m].fun = plan[s])
    BY <1>3
  <2> QED BY <1>1, <1>2, <2>1, <2>2 DEF CodeFits
<1>8. CatalogFits' /\ CacheFits'
  BY <1>0, <1>1, <1>6 DEF CatalogFits, CacheFits, CodeFits
<1>9. SessionFits(s)'
  <2>1. CASE DefineInitial(s)
    <3>1. pc'[s] = "define_fun" /\ main'[v][n].initial = plan[s]
      BY <2>1, <1>0, <1>2 DEF DefineInitial, Goto, Handler, TypeOK
    <3> QED BY <3>1, <1>1, <1>2 DEF SessionFits, Initialising, Compiled, CodeFits, Bound
  <2>2. CASE DefineFun(s)
    <3>1. pc'[s] = "get_initial" /\ main'[v][n].fun = plan[s]
      BY <2>2, <1>0, <1>2 DEF DefineFun, Goto, Handler, TypeOK
    <3>2. main[v][n].initial # NoCode
      BY <2>2, <1>0 DEF DefineFun, SessionFits, Initialising, Compiled, Bound
    <3> QED BY <3>1, <3>2, <1>1, <1>2, <1>6 DEF SessionFits, Initialising, Compiled, CodeFits, Bound
  <2> QED BY <2>1, <2>2
<1>10. ASSUME NEW u \in Sessions, u # s PROVE SessionFits(u)'
  <2>1. pc'[u] = pc[u]
    BY <1>0, <1>4, <1>10 DEF TypeOK
  <2>2. \A t \in Tenants, m \in Names : versions[t][m] <= versions'[t][m] /\ versions'[t][m] \in Nat
    BY <1>0, <1>1, ImportAssumption DEF TypeOK
  <2> QED BY <1>0, <1>1, <1>6, <2>1, <2>2, Bystander
<1> QED BY <1>5, <1>7, <1>8, <1>9, <1>10 DEF IndInv

\* The import looks pyinitial up: another session's version may be bound by
\* now, but never nothing.
LEMMA GetInitialInv == ASSUME IndInv, NEW s \in Sessions, GetInitial(s) PROVE IndInv'
<1> DEFINE c == Bound(s).initial
<1>0. TypeOK /\ CatalogFits /\ MainFits /\ CacheFits /\ \A u \in Sessions : SessionFits(u)
  BY DEF IndInv
<1>1. /\ UNCHANGED <<catalog, versions, main, context, planCache, plan>>
      /\ pc[s] = "get_initial" /\ pc' = [pc EXCEPT ![s] = "run_initial"]
      /\ initial' = [initial EXCEPT ![s] = c]
  BY DEF GetInitial, Goto, Handler, Bound, catalog_vars, process_vars
<1>2. plan[s] \in Codes /\ plan[s].name \in Names /\ ServerOf[s] \in Servers
  BY <1>0, <1>1, ImportAssumption DEF SessionFits, Initialising, Compiled, Codes
<1>3. c \in AnyCode /\ c # NoCode /\ CodeFits(c, plan[s].name)
  BY <1>0, <1>1, <1>2 DEF TypeOK, MainFits, SessionFits, Initialising, Compiled, Bound
<1>4. TypeOK'
  BY <1>0, <1>1, <1>3 DEF TypeOK, Places, Importing
<1>5. CatalogFits' /\ MainFits' /\ CacheFits'
  BY <1>0, <1>1 DEF CatalogFits, MainFits, CacheFits, CodeFits
<1>6. SessionFits(s)'
  <2>1. pc'[s] = "run_initial" /\ initial'[s] = c
    BY <1>0, <1>1 DEF TypeOK
  <2> HIDE DEF c
  <2> QED BY <2>1, <1>0, <1>1, <1>3 DEF SessionFits, Initialising, Compiled, CodeFits, Bound
<1>7. ASSUME NEW u \in Sessions, u # s PROVE SessionFits(u)'
  <2>1. pc'[u] = pc[u] /\ initial'[u] = initial[u]
    BY <1>0, <1>1, <1>7 DEF TypeOK
  <2> QED BY <1>0, <1>1, <2>1 DEF SessionFits, Initialising, Compiled, CodeFits, Bound
<1> QED BY <1>4, <1>5, <1>6, <1>7 DEF IndInv

\* pyinitial runs, half of it or all: only the context changes in the process.
LEMMA InitialInv ==
  ASSUME IndInv, NEW s \in Sessions, RunInitial(s) \/ FinishInitial(s)
  PROVE  IndInv'
<1> DEFINE v == ServerOf[s]
           n == plan[s].name
<1>0. TypeOK /\ CatalogFits /\ MainFits /\ CacheFits /\ \A u \in Sessions : SessionFits(u)
  BY DEF IndInv
<1>1. /\ UNCHANGED <<catalog, versions, main, planCache, plan>>
      /\ \E line \in Places : pc' = [pc EXCEPT ![s] = line]
      /\ Initialising(s)
  BY DEF RunInitial, FinishInitial, Goto, Places, Importing, Initialising, catalog_vars
<1>2. /\ plan[s] \in Codes /\ n \in Names /\ v \in Servers /\ CodeFits(plan[s], n)
      /\ main[v][n].fun # NoCode /\ initial[s] # NoCode /\ CodeFits(initial[s], n)
      /\ initial[s] \in AnyCode /\ GlobalOf[n] \in Globals
  BY <1>0, <1>1, ImportAssumption DEF SessionFits, Initialising, Codes, Bound, TypeOK
<1>3. context' \in [Servers -> [Globals -> Contexts]] /\ initial' \in [Sessions -> AnyCode]
  <2>1. context[v][GlobalOf[n]] \in Contexts
    BY <1>0, <1>2 DEF TypeOK
  <2>2. CASE RunInitial(s)
    BY <2>1, <2>2, <1>0, <1>2 DEF RunInitial, TypeOK, Contexts
  <2>3. CASE FinishInitial(s)
    BY <2>1, <2>3, <1>0, <1>2 DEF FinishInitial, TypeOK, Contexts, AnyCode
  <2> QED BY <2>2, <2>3
<1>4. TypeOK'
  BY <1>0, <1>1, <1>3 DEF TypeOK
<1>5. CatalogFits' /\ MainFits' /\ CacheFits'
  BY <1>0, <1>1 DEF CatalogFits, MainFits, CacheFits, CodeFits
<1>6. SessionFits(s)'
  <2>1. \/ pc'[s] = "finish_initial" /\ initial'[s] = initial[s]
        \/ pc'[s] = "add_plan" /\ initial'[s] = NoCode
    BY <1>0 DEF RunInitial, FinishInitial, Goto, TypeOK
  <2> QED BY <2>1, <1>1, <1>2 DEF SessionFits, Initialising, Compiled, CodeFits, Bound
<1>7. ASSUME NEW u \in Sessions, u # s PROVE SessionFits(u)'
  <2>1. pc'[u] = pc[u] /\ initial'[u] = initial[u]
    BY <1>0, <1>7 DEF RunInitial, FinishInitial, Goto, TypeOK
  <2> QED BY <1>0, <1>1, <2>1 DEF SessionFits, Initialising, Compiled, CodeFits, Bound
<1> QED BY <1>4, <1>5, <1>6, <1>7 DEF IndInv

\* The plan enters the cache, or does not, with its handler bound.
LEMMA AddPlanInv == ASSUME IndInv, NEW s \in Sessions, AddPlan(s) PROVE IndInv'
<1> DEFINE v == ServerOf[s]
           n == plan[s].name
<1>0. TypeOK /\ CatalogFits /\ MainFits /\ CacheFits /\ \A u \in Sessions : SessionFits(u)
  BY DEF IndInv
<1>1. /\ UNCHANGED <<catalog, versions, main, context, plan, initial>>
      /\ pc[s] = "add_plan" /\ pc' = [pc EXCEPT ![s] = "call"]
      /\ \/ planCache' = [planCache EXCEPT ![v][TenantOf[s]][n] = plan[s]]
         \/ UNCHANGED planCache
  BY DEF AddPlan, Goto, catalog_vars
<1>2. /\ plan[s] \in Codes /\ n \in Names /\ v \in Servers /\ CodeFits(plan[s], n)
      /\ main[v][n].fun # NoCode /\ initial[s] = NoCode /\ TenantOf[s] \in Tenants
  BY <1>0, <1>1, ImportAssumption DEF SessionFits, Initialising, Compiled, Codes, Bound
<1>3. /\ planCache' \in [Servers -> [Tenants -> [Names -> AnyCode]]]
      /\ \A w \in Servers, t \in Tenants, m \in Names :
           \/ planCache'[w][t][m] = planCache[w][t][m]
           \/ w = v /\ m = n /\ planCache'[w][t][m] = plan[s]
  <2>0. plan[s] \in AnyCode /\ planCache \in [Servers -> [Tenants -> [Names -> AnyCode]]]
    BY <1>0, <1>2 DEF TypeOK, AnyCode
  <2>1. CASE planCache' = [planCache EXCEPT ![v][TenantOf[s]][n] = plan[s]]
    BY <2>0, <2>1, <1>2
  <2>2. CASE UNCHANGED planCache
    BY <2>0, <2>2
  <2> QED BY <1>1, <2>1, <2>2
<1>4. TypeOK' /\ CatalogFits' /\ MainFits'
  BY <1>0, <1>1, <1>3 DEF TypeOK, Places, CatalogFits, MainFits, CodeFits
<1>5. CacheFits'
  <2> SUFFICES ASSUME NEW w \in Servers, NEW t \in Tenants, NEW m \in Names
               PROVE  /\ CodeFits(planCache[w][t][m], m)'
                      /\ planCache'[w][t][m] # NoCode => main'[w][m].fun # NoCode
    BY DEF CacheFits
  <2>1. \/ planCache'[w][t][m] = planCache[w][t][m]
        \/ w = v /\ m = n /\ planCache'[w][t][m] = plan[s]
    BY <1>3
  <2>2. CASE planCache'[w][t][m] = planCache[w][t][m]
    BY <2>2, <1>0, <1>1 DEF CacheFits, CodeFits
  <2>3. CASE w = v /\ m = n /\ planCache'[w][t][m] = plan[s]
    BY <2>3, <1>1, <1>2 DEF CodeFits
  <2> QED BY <2>1, <2>2, <2>3
<1>6. SessionFits(s)'
  <2>1. pc'[s] = "call" /\ initial'[s] = NoCode
    BY <1>0, <1>1, <1>2 DEF TypeOK
  <2> QED BY <2>1, <1>1, <1>2 DEF SessionFits, Initialising, Compiled, CodeFits, Bound
<1>7. ASSUME NEW u \in Sessions, u # s PROVE SessionFits(u)'
  <2>1. pc'[u] = pc[u]
    BY <1>0, <1>1, <1>7 DEF TypeOK
  <2> QED BY <1>0, <1>1, <2>1 DEF SessionFits, Initialising, Compiled, CodeFits, Bound
<1> QED BY <1>4, <1>5, <1>6, <1>7 DEF IndInv

\* Every step preserves the invariant.
LEMMA NextInv == IndInv /\ [Next]_vars => IndInv'
<1> SUFFICES ASSUME IndInv, [Next]_vars PROVE IndInv'
  OBVIOUS
<1>1. CASE UNCHANGED vars
  BY <1>1 DEF vars, catalog_vars, process_vars, session_vars, IndInv, TypeOK, CatalogFits,
     MainFits, CacheFits, SessionFits, Initialising, Compiled, CodeFits, Bound
<1>2. CASE Catalog
  BY <1>2, CatalogInv DEF Catalog
<1>3. CASE Evict
  BY <1>3, EvictInv DEF Evict
<1>4. ASSUME NEW s \in Sessions, Statement(s) PROVE IndInv'
  BY <1>4, BeginEndInv, DefineInv, GetInitialInv, InitialInv, AddPlanInv
     DEF Statement
<1> QED BY <1>1, <1>2, <1>3, <1>4 DEF Next

\* IndInv holds in every reachable state.
LEMMA IndInvAlways == Spec => []IndInv
BY InitInv, NextInv, PTL DEF Spec

\* The only function of a name: of two codes that fit the name of a session's
\* plan, as long as that is not redefined, neither is of another tenant or of
\* a later version.
LEMMA OnlyCode ==
  ASSUME TypeOK, NEW s \in Sessions, plan[s] \in Codes, CodeFits(plan[s], plan[s].name),
         ~Redefined(s), NEW c, c # NoCode, CodeFits(c, plan[s].name)
  PROVE  c = plan[s]
<1> DEFINE n == plan[s].name
<1>1. ASSUME NEW d \in Codes, d.name = n, d.version <= versions[d.tenant][n]
      PROVE  d = [tenant |-> TenantOf[s], name |-> n, version |-> 1]
  <2>1. d.tenant \in Tenants /\ d.version \in 1..MaxVersions /\ n \in Names
    BY <1>1 DEF Codes
  <2>2. versions[d.tenant][n] \in 0..MaxVersions
    BY <2>1 DEF TypeOK
  <2>3. ~(versions[d.tenant][n] > IF d.tenant = TenantOf[s] THEN 1 ELSE 0)
    BY <2>1 DEF Redefined
  <2>4. d.tenant = TenantOf[s] /\ d.version = 1
    BY <1>1, <2>1, <2>2, <2>3, ImportAssumption
  <2>5. d = [tenant |-> d.tenant, name |-> d.name, version |-> d.version]
    BY DEF Codes
  <2> QED BY <1>1, <2>4, <2>5
<1>2. plan[s].version <= versions[plan[s].tenant][n]
  BY CodeIsSome DEF CodeFits
<1>3. c \in Codes /\ c.name = n /\ c.version <= versions[c.tenant][n]
  BY DEF CodeFits
<1>4. plan[s] = [tenant |-> TenantOf[s], name |-> n, version |-> 1]
  BY <1>1, <1>2
<1>5. c = [tenant |-> TenantOf[s], name |-> n, version |-> 1]
  BY <1>1, <1>3
<1> QED BY <1>4, <1>5

\* Type correctness of the imports, for every instance.
THEOREM ImportTypes == Spec => []TypeOK
<1>1. IndInv => TypeOK
  BY DEF IndInv
<1> QED BY <1>1, IndInvAlways, PTL

\* A statement that executes finds its function in __main__, for every
\* interleaving of imports, failed imports, DDL and evictions: eval's lookup
\* of the handler does not fail.
THEOREM FunctionAlwaysFound == Spec => []FunctionFound
<1>1. IndInv => FunctionFound
  BY DEF IndInv, FunctionFound, Executing, Found, Handler, SessionFits, Initialising,
     Compiled, Bound
<1> QED BY <1>1, IndInvAlways, PTL

\* What it finds has the name in its plan, and is the very code of its plan
\* until the name is created a second time in the cluster.
THEOREM OwnFunctionCalled == Spec => []CallsOwnFunction
<1>1. ASSUME IndInv PROVE CallsOwnFunction
  <2> SUFFICES ASSUME NEW s \in Sessions, pc[s] = "call"
               PROVE  /\ Found(s).name = plan[s].name
                      /\ Redefined(s) \/ Found(s) = plan[s]
    BY DEF CallsOwnFunction, Executing
  <2>1. plan[s] \in Codes /\ CodeFits(plan[s], plan[s].name)
    BY <1>1 DEF IndInv, SessionFits, Initialising, Compiled
  <2>2. plan[s].name \in Names /\ ServerOf[s] \in Servers
    BY <2>1, ImportAssumption DEF Codes
  <2>3. Found(s) # NoCode /\ CodeFits(Found(s), plan[s].name)
    BY <1>1, <2>2 DEF IndInv, SessionFits, Initialising, Compiled, MainFits, Found, Handler, Bound
  <2>4. Found(s).name = plan[s].name
    BY <2>3 DEF CodeFits
  <2>5. Redefined(s) \/ Found(s) = plan[s]
    BY <1>1, <2>1, <2>3, OnlyCode DEF IndInv
  <2> QED BY <2>4, <2>5
<1> QED BY <1>1, IndInvAlways, PTL

-----------------------------------------------------------------------------
(* The context, when no two functions keep theirs in the same variable. *)

OwnVariables == \A m, n \in Names : GlobalOf[m] = GlobalOf[n] => m = n

\* The context in a function's variable, on a server.
ContextOf(v, n) == context[v][GlobalOf[n]]

\* All of it has been assigned.
SetUp(v, n) == ContextOf(v, n).first # NoCode /\ ContextOf(v, n).last # NoCode

\* A context is assigned by versions of the function whose variable holds it,
\* and is set up for every plan that is cached or executes.
ContextFits ==
  /\ \A v \in Servers, n \in Names :
       CodeFits(ContextOf(v, n).first, n) /\ CodeFits(ContextOf(v, n).last, n)
  /\ \A v \in Servers, t \in Tenants, n \in Names : planCache[v][t][n] # NoCode => SetUp(v, n)
  /\ \A s \in Sessions :
       /\ pc[s] = "finish_initial" => ContextOf(ServerOf[s], plan[s].name).first # NoCode
       /\ Compiled(s) => SetUp(ServerOf[s], plan[s].name)

\* Versions are only added, so that what fits a name goes on fitting it.
LEMMA FitsOn ==
  ASSUME TypeOK, TypeOK', [Next]_vars, NEW c, NEW n \in Names, CodeFits(c, n)
  PROVE  c # NoCode => c \in Codes /\ c.name = n /\ c.version <= versions'[c.tenant][n]
<1> SUFFICES ASSUME c # NoCode PROVE c.version <= versions'[c.tenant][n]
  BY DEF CodeFits
<1>1. c \in Codes /\ c.version <= versions[c.tenant][n]
  BY DEF CodeFits
<1>2. c.tenant \in Tenants /\ c.version \in Nat
  BY <1>1 DEF Codes
<1>3. versions[c.tenant][n] \in Nat /\ versions'[c.tenant][n] \in Nat
  BY <1>2, ImportAssumption DEF TypeOK
<1>4. versions[c.tenant][n] <= versions'[c.tenant][n]
  <2>1. CASE \E t \in Tenants, m \in Names : CreateUdf(t, m)
    <3>1. PICK t \in Tenants, m \in Names : versions' = [versions EXCEPT ![t][m] = @ + 1]
      BY <2>1 DEF CreateUdf
    <3>2. versions'[c.tenant][n] \in {versions[c.tenant][n], versions[c.tenant][n] + 1}
      BY <1>2, <3>1 DEF TypeOK
    <3> QED BY <1>3, <3>2
  <2>2. CASE UNCHANGED versions
    BY <1>3, <2>2
  <2>3. (\E t \in Tenants, m \in Names : CreateUdf(t, m)) \/ UNCHANGED versions
    BY DEF Next, Catalog, Evict, Statement, DropUdf, EvictPlan, HitPlan, Resolve, DefineInitial,
       DefineFun, GetInitial, RunInitial, FinishInitial, ImportFails, AddPlan, CompileFails, Call,
       catalog_vars, vars
  <2> QED BY <2>1, <2>2, <2>3
<1> QED BY <1>1, <1>2, <1>3, <1>4

\* A step that changes no context, caches no plan whose context is not set up,
\* and lets no other statement reach its call.
LEMMA ContextKept ==
  ASSUME IndInv, IndInv', [Next]_vars, ContextFits, UNCHANGED context,
         \A v \in Servers, t \in Tenants, n \in Names :
           planCache'[v][t][n] \in {planCache[v][t][n], NoCode} \/ SetUp(v, n),
         \A u \in Sessions : (pc[u] = "finish_initial" \/ Compiled(u))' =>
           \/ pc'[u] = pc[u] /\ plan'[u] = plan[u]
           \/ pc'[u] # "finish_initial" /\ SetUp(ServerOf[u], plan'[u].name)
  PROVE  ContextFits'
<1>0. TypeOK /\ TypeOK'
  BY DEF IndInv
<1>1. ASSUME NEW w \in Servers, NEW n \in Names
      PROVE  CodeFits(ContextOf(w, n).first, n)' /\ CodeFits(ContextOf(w, n).last, n)'
  <2>1. CodeFits(ContextOf(w, n).first, n) /\ CodeFits(ContextOf(w, n).last, n)
    BY DEF ContextFits
  <2> QED BY <1>0, <2>1, FitsOn DEF CodeFits, ContextOf
<1>2. ASSUME NEW w \in Servers, NEW t \in Tenants, NEW n \in Names, planCache'[w][t][n] # NoCode
      PROVE  SetUp(w, n)'
  <2>1. SetUp(w, n)
    BY <1>2 DEF ContextFits
  <2> QED BY <2>1 DEF SetUp, ContextOf
<1>3. ASSUME NEW u \in Sessions
      PROVE  /\ pc'[u] = "finish_initial" => ContextOf(ServerOf[u], plan[u].name)'.first # NoCode
             /\ Compiled(u)' => SetUp(ServerOf[u], plan[u].name)'
  BY DEF ContextFits, Compiled, SetUp, ContextOf
<1> QED BY <1>1, <1>2, <1>3 DEF ContextFits

\* pyinitial assigns the context of its own function and no other's, and what
\* it assigns is a version of that function: never less than was there.
LEMMA InitialContext ==
  ASSUME OwnVariables, IndInv, IndInv', [Next]_vars, ContextFits,
         NEW s \in Sessions, RunInitial(s) \/ FinishInitial(s)
  PROVE  ContextFits'
<1> DEFINE v == ServerOf[s]
           k == plan[s].name
           c == initial[s]
           old == ContextOf(v, k)
           new == IF RunInitial(s) THEN [first |-> c, last |-> old.last]
                                   ELSE [first |-> old.first, last |-> c]
<1>1. /\ UNCHANGED <<plan, planCache>>
      /\ Initialising(s)
      /\ context' = [context EXCEPT ![v][GlobalOf[k]] = new]
      /\ \/ RunInitial(s) /\ pc[s] = "run_initial" /\ pc' = [pc EXCEPT ![s] = "finish_initial"]
         \/ ~RunInitial(s) /\ pc[s] = "finish_initial" /\ pc' = [pc EXCEPT ![s] = "add_plan"]
  BY DEF RunInitial, FinishInitial, Goto, Initialising, ContextOf
<1>2. /\ TypeOK /\ TypeOK'
      /\ plan[s] \in Codes /\ CodeFits(c, k) /\ c # NoCode
  BY <1>1 DEF IndInv, SessionFits, Initialising
<1>3. v \in Servers /\ k \in Names /\ GlobalOf \in [Names -> Globals]
  BY <1>2, ImportAssumption DEF Codes
<1>4. /\ CodeFits(new.first, k) /\ CodeFits(new.last, k)
      /\ new.first # NoCode
      /\ old.last # NoCode \/ ~RunInitial(s) => new.last # NoCode
  <2>1. CodeFits(old.first, k) /\ CodeFits(old.last, k)
    BY <1>3 DEF ContextFits
  <2>2. pc[s] = "finish_initial" => old.first # NoCode
    BY DEF ContextFits
  <2>3. CASE RunInitial(s)
    <3>1. new.first = c /\ new.last = old.last
      BY <2>3
    <3> QED BY <1>2, <2>1, <2>3, <3>1
  <2>4. CASE ~RunInitial(s)
    <3>1. new.first = old.first /\ new.last = c
      BY <2>4
    <3> QED BY <1>1, <1>2, <2>1, <2>2, <2>4, <3>1
  <2> QED BY <2>3, <2>4
<1> HIDE DEF new
<1>5. ASSUME NEW w \in Servers, NEW n \in Names
      PROVE  ContextOf(w, n)' = IF w = v /\ n = k THEN new ELSE ContextOf(w, n)
  BY <1>1, <1>2, <1>3 DEF ContextOf, OwnVariables, TypeOK
<1>6. ASSUME NEW w \in Servers, NEW n \in Names
      PROVE  CodeFits(ContextOf(w, n).first, n)' /\ CodeFits(ContextOf(w, n).last, n)'
  <2>1. CodeFits(ContextOf(w, n)'.first, n) /\ CodeFits(ContextOf(w, n)'.last, n)
    BY <1>4, <1>5 DEF ContextFits
  <2> QED BY <1>2, <2>1, FitsOn DEF CodeFits
<1>7. ASSUME NEW w \in Servers, NEW n \in Names, SetUp(w, n)
      PROVE  SetUp(w, n)'
  BY <1>4, <1>5, <1>7 DEF SetUp
<1>8. ASSUME NEW w \in Servers, NEW t \in Tenants, NEW n \in Names, planCache'[w][t][n] # NoCode
      PROVE  SetUp(w, n)'
  BY <1>1, <1>7, <1>8 DEF ContextFits
<1>9. ASSUME NEW u \in Sessions
      PROVE  /\ pc'[u] = "finish_initial" => ContextOf(ServerOf[u], plan[u].name)'.first # NoCode
             /\ Compiled(u)' => SetUp(ServerOf[u], plan[u].name)'
  <2>0. ServerOf[u] \in Servers
    BY ImportAssumption
  <2>1. CASE u = s
    <3>1. context'[v][GlobalOf[k]] = new
      BY <1>3, <1>5 DEF ContextOf
    <3>2. /\ ContextOf(ServerOf[u], plan[u].name)' = new
          /\ pc'[u] \in {"finish_initial", "add_plan"}
          /\ pc'[u] = "add_plan" => ~RunInitial(s)
      <4>1. ContextOf(ServerOf[u], plan[u].name)' = context'[v][GlobalOf[k]]
        BY <1>1, <2>1 DEF ContextOf
      <4> QED BY <1>1, <1>2, <2>1, <3>1, <4>1 DEF TypeOK
    <3> QED BY <1>4, <3>2 DEF Compiled, SetUp
  <2>2. CASE u # s
    <3>1. pc'[u] = pc[u] /\ plan'[u] = plan[u]
      BY <1>1, <1>2, <2>2 DEF TypeOK
    <3>2. CASE pc[u] = "finish_initial" \/ Compiled(u)
      <4>1. plan[u].name \in Names
        BY <3>2 DEF IndInv, SessionFits, Codes, Compiled
      <4>2. /\ pc[u] = "finish_initial" => ContextOf(ServerOf[u], plan[u].name).first # NoCode
            /\ Compiled(u) => SetUp(ServerOf[u], plan[u].name)
        BY DEF ContextFits
      <4> DEFINE d == ContextOf(ServerOf[u], plan[u].name)
      <4>3. d' = context'[ServerOf[u]][GlobalOf[plan[u].name]]
        BY <3>1 DEF ContextOf
      <4>4. \/ context'[ServerOf[u]][GlobalOf[plan[u].name]] = new
               /\ d = old
            \/ context'[ServerOf[u]][GlobalOf[plan[u].name]] = d
        BY <1>5, <2>0, <4>1 DEF ContextOf
      <4> QED BY <1>4, <3>1, <4>2, <4>3, <4>4 DEF Compiled, SetUp
    <3>3. CASE ~(pc[u] = "finish_initial" \/ Compiled(u))
      BY <3>1, <3>3 DEF Compiled
    <3> QED BY <3>2, <3>3
  <2> QED BY <2>1, <2>2
<1> QED BY <1>6, <1>8, <1>9 DEF ContextFits

\* A plan that enters the cache has its context set up.
LEMMA AddPlanContext ==
  ASSUME IndInv, IndInv', [Next]_vars, ContextFits, NEW s \in Sessions, AddPlan(s)
  PROVE  ContextFits'
<1> DEFINE v == ServerOf[s]
           k == plan[s].name
<1>1. /\ UNCHANGED <<context, plan>>
      /\ pc[s] = "add_plan" /\ pc' = [pc EXCEPT ![s] = "call"]
      /\ \/ planCache' = [planCache EXCEPT ![v][TenantOf[s]][k] = plan[s]]
         \/ UNCHANGED planCache
  BY DEF AddPlan, Goto
<1>2. TypeOK /\ SetUp(v, k)
  BY <1>1 DEF IndInv, ContextFits, Compiled
<1>3. ASSUME NEW w \in Servers, NEW t \in Tenants, NEW n \in Names
      PROVE  planCache'[w][t][n] \in {planCache[w][t][n], NoCode} \/ SetUp(w, n)
  <2>1. planCache'[w][t][n] = planCache[w][t][n] \/ (w = v /\ n = k)
    <3>0. planCache \in [Servers -> [Tenants -> [Names -> AnyCode]]]
      BY <1>2 DEF TypeOK
    <3>1. CASE planCache' = [planCache EXCEPT ![v][TenantOf[s]][k] = plan[s]]
      BY <3>0, <3>1
    <3>2. CASE UNCHANGED planCache
      BY <3>2
    <3> QED BY <1>1, <3>1, <3>2
  <2> QED BY <1>2, <2>1
<1>4. ASSUME NEW u \in Sessions
      PROVE  \/ pc'[u] = pc[u] /\ plan'[u] = plan[u]
             \/ pc'[u] # "finish_initial" /\ SetUp(ServerOf[u], plan'[u].name)
  BY <1>1, <1>2 DEF TypeOK
<1> QED BY <1>1, <1>3, <1>4, ContextKept

\* No other step touches a context, and a statement that begins to execute
\* has its plan from the cache.
LEMMA OtherContext ==
  ASSUME IndInv, IndInv', [Next]_vars, ContextFits,
         ~\E s \in Sessions : RunInitial(s) \/ FinishInitial(s) \/ AddPlan(s)
  PROVE  ContextFits'
<1>0. TypeOK /\ TypeOK'
  BY DEF IndInv
<1>1. UNCHANGED context
  BY DEF Next, Catalog, Evict, Statement, CreateUdf, DropUdf, EvictPlan, HitPlan, Resolve,
     DefineInitial, DefineFun, GetInitial, ImportFails, CompileFails, Call, process_vars, vars
<1>2. ASSUME NEW w \in Servers, NEW t \in Tenants, NEW n \in Names
      PROVE  planCache'[w][t][n] \in {planCache[w][t][n], NoCode}
  <2>1. UNCHANGED planCache \/ \E v \in Servers, u \in Tenants, m \in Names : EvictPlan(v, u, m)
    BY DEF Next, Catalog, Evict, Statement, CreateUdf, DropUdf, HitPlan, Resolve,
       DefineInitial, DefineFun, GetInitial, ImportFails, CompileFails, Call, process_vars, vars
  <2>2. ASSUME NEW v \in Servers, NEW u \in Tenants, NEW m \in Names, EvictPlan(v, u, m)
        PROVE  planCache'[w][t][n] \in {planCache[w][t][n], NoCode}
    <3>1. planCache' = [planCache EXCEPT ![v][u][m] = NoCode]
      BY <2>2 DEF EvictPlan
    <3> QED BY <1>0, <3>1 DEF TypeOK
  <2> QED BY <2>1, <2>2
<1>3. ASSUME NEW u \in Sessions, (pc[u] = "finish_initial" \/ Compiled(u))'
      PROVE  \/ pc'[u] = pc[u] /\ plan'[u] = plan[u]
             \/ pc'[u] # "finish_initial" /\ SetUp(ServerOf[u], plan'[u].name)
  <2>1. CASE \E n \in Names : HitPlan(u, n)
    <3>1. PICK n \in Names : HitPlan(u, n)
      BY <2>1
    <3>2. ServerOf[u] \in Servers /\ TenantOf[u] \in Tenants
      BY ImportAssumption
    <3>3. /\ planCache[ServerOf[u]][TenantOf[u]][n] # NoCode
          /\ plan'[u] = planCache[ServerOf[u]][TenantOf[u]][n]
          /\ pc'[u] = "call"
      BY <1>0, <3>1 DEF HitPlan, Goto, TypeOK
    <3>4. plan'[u].name = n /\ SetUp(ServerOf[u], n)
      BY <3>2, <3>3 DEF IndInv, CacheFits, CodeFits, ContextFits
    <3> QED BY <3>3, <3>4
  <2>2. CASE ~\E n \in Names : HitPlan(u, n)
    <3>1. CASE \E s \in Sessions : Statement(s)
      <4>1. PICK s \in Sessions : Statement(s)
        BY <3>1
      <4>2. CASE s = u
        BY <1>0, <1>3, <2>2, <4>1, <4>2 DEF Statement, Resolve, DefineInitial, DefineFun,
           GetInitial, ImportFails, CompileFails, Call, EndStatement, Goto, TypeOK, Compiled
      <4>3. CASE s # u
        BY <1>0, <4>1, <4>3 DEF Statement, HitPlan, Resolve, DefineInitial, DefineFun,
           GetInitial, ImportFails, CompileFails, Call, EndStatement, Goto, TypeOK
      <4> QED BY <4>2, <4>3
    <3>2. CASE UNCHANGED <<pc, plan>>
      BY <3>2
    <3> QED BY <3>1, <3>2 DEF Next, Catalog, Evict, CreateUdf, DropUdf, EvictPlan,
           session_vars, vars
  <2> QED BY <2>1, <2>2
<1> QED BY <1>1, <1>2, <1>3, ContextKept

\* When no two functions keep their context in the same variable, a statement
\* that calls the only function of its name so far finds the context that the
\* function's own pyinitial has set up, whichever session imported it.
THEOREM OwnContextCalled == OwnVariables /\ Spec => []CallsInitialised
<1>1. Init => ContextFits
  BY ImportAssumption DEF Init, ContextFits, CodeFits, ContextOf, Compiled
<1>2. OwnVariables /\ IndInv /\ IndInv' /\ ContextFits /\ [Next]_vars => ContextFits'
  BY InitialContext, AddPlanContext, OtherContext
<1>3. ASSUME IndInv, ContextFits PROVE CallsInitialised
  <2> SUFFICES ASSUME NEW s \in Sessions, pc[s] = "call", ~Redefined(s)
               PROVE  ContextOf(ServerOf[s], plan[s].name) = [first |-> plan[s], last |-> plan[s]]
    BY DEF CallsInitialised, Executing, ContextOf
  <2>1. TypeOK /\ plan[s] \in Codes /\ CodeFits(plan[s], plan[s].name)
    BY <1>3 DEF IndInv, SessionFits, Initialising, Compiled
  <2>2. plan[s].name \in Names /\ ServerOf[s] \in Servers
    BY <2>1, ImportAssumption DEF Codes
  <2> DEFINE d == ContextOf(ServerOf[s], plan[s].name)
  <2>3. /\ d.first # NoCode /\ CodeFits(d.first, plan[s].name)
        /\ d.last # NoCode /\ CodeFits(d.last, plan[s].name)
    BY <1>3, <2>2 DEF ContextFits, Compiled, SetUp
  <2>4. d \in Contexts
    BY <2>1, <2>2, ImportAssumption DEF ContextOf, TypeOK
  <2>5. d.first = plan[s] /\ d.last = plan[s]
    BY <2>1, <2>3, OnlyCode
  <2> QED BY <2>4, <2>5 DEF Contexts
<1>4. OwnVariables => []OwnVariables
  <2>1. OwnVariables => OwnVariables'
    BY DEF OwnVariables
  <2> QED BY <2>1, PTL
<1> QED BY <1>1, <1>2, <1>3, <1>4, IndInvAlways, PTL DEF Spec
=============================================================================
