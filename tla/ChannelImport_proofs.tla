------------------------ MODULE ChannelImport_proofs ------------------------
(***************************************************************************)
(* What holds of the imports for every number of calls, payloads, SKUs and *)
(* connections.  Three inductive invariants, each of which may use those   *)
(* before it: what a call is about to log is true of the orders (IInv, to  *)
(* which the types belong), its counters and log rows fit its place in the *)
(* batch (BooksInv), and it has one SKU for every name of the payload it   *)
(* is about to make an order of (LinesInv).                                *)
(***************************************************************************)
EXTENDS ChannelImport, Functions, FiniteSetTheorems, TLAPS

InLoop(i) == imp[i].pc \in {"check", "map", "create", "log", "caught"}

\* A call that is under way has a run on a connection, and in the loop a payload.
Placed(i) ==
    /\ imp[i].pc # "idle" => run[i].conn \in Connections
    /\ InLoop(i) => run[i].batch \in Batches /\ imp[i].at \in 1 .. Len(run[i].batch)

\* What the log row with this code for this external order claims.
Backed(i, ext, code) ==
    /\ code = "SUCCESS" => \E o \in orders : o.run = i /\ o.ext = ext
    /\ code = "DUPLICATE_ORDER" => \E o \in orders : o.conn = run[i].conn /\ o.ext = ext

Truthful(i) ==
    /\ imp[i].pc \in {"log", "caught"} => Backed(i, Current(i).ext, imp[i].code)
    /\ \A n \in 1 .. Len(run[i].logs) : Backed(i, run[i].logs[n].ext, run[i].logs[n].code)

IInv ==
    /\ TypeOK
    /\ \A i \in Imports : Placed(i) /\ Truthful(i)
    /\ ExternalOrderOnce

\* The payload a call works on is one of the tables' payloads.
LEMMA CurrentPayload ==
    ASSUME NEW i \in Imports, InLoop(i), Placed(i)
    PROVE  Current(i) \in Payload /\ Current(i).ext \in Externals /\ Current(i).no \in Numbers
<1>1. run[i].batch \in Seq(Payload) /\ imp[i].at \in 1 .. Len(run[i].batch)
  BY ImportAssumption DEF Placed
<1>2. Current(i) \in Payload
  BY <1>1 DEF Current
<1> QED
  BY <1>2 DEF Payload

\* A step of one call that keeps every order, and every run but its own.
Frame(i) ==
    /\ orders \subseteq orders'
    /\ \A j \in Imports \ {i} : imp'[j] = imp[j] /\ run'[j] = run[j]

\* Such a step keeps what the invariant says of the other calls.
LEMMA OthersKept ==
    ASSUME NEW i \in Imports, Frame(i), NEW j \in Imports \ {i}, Placed(j), Truthful(j)
    PROVE  Placed(j)' /\ Truthful(j)'
<1>1. imp'[j] = imp[j] /\ run'[j] = run[j] /\ orders \subseteq orders'
  BY DEF Frame
<1>2. Placed(j)'
  BY <1>1 DEF Placed, InLoop
<1>3. ASSUME NEW ext, NEW code, Backed(j, ext, code) PROVE Backed(j, ext, code)'
  BY <1>1, <1>3 DEF Backed
<1>4. Truthful(j)'
  BY <1>1, <1>3 DEF Truthful, Current
<1> QED
  BY <1>2, <1>4

\* A step that leaves the runs alone and takes a call to another point of its loop.
LEMMA GoStep ==
    ASSUME TypeOK, NEW i \in Imports, NEW pc, NEW at, NEW found \in SUBSET Skus,
           NEW code \in Codes, NEW s \in {0, 1}, NEW f \in {0, 1},
           pc \in {"check", "map", "create", "log", "caught", "finish", "touch", "done", "lost"},
           at \in Nat, Locals(i, pc, at, found, code, s, f)
    PROVE  /\ imp' \in [Imports -> Call]
           /\ imp'[i].pc = pc /\ imp'[i].at = at /\ imp'[i].code = code
           /\ imp'[i].skus = found
           /\ \A j \in Imports \ {i} : imp'[j] = imp[j]
<1> DEFINE new == [pc |-> pc, at |-> at, skus |-> found, code |-> code,
                   success |-> imp[i].success + s, failed |-> imp[i].failed + f]
<1>1. imp[i] \in Call /\ imp \in [Imports -> Call]
  BY DEF TypeOK
<1>2. imp[i].success + s \in Nat /\ imp[i].failed + f \in Nat
  BY <1>1 DEF Call
<1>3. new \in Call
  BY <1>2 DEF Call
<1>4. imp' = [imp EXCEPT ![i] = new]
  BY DEF Locals
<1>5. new.pc = pc /\ new.at = at /\ new.code = code /\ new.skus = found
  OBVIOUS
<1> HIDE DEF new
<1> QED
  BY <1>1, <1>3, <1>4, <1>5

\* Go is such a step.
LEMMA GoIsLocal ==
    ASSUME TypeOK, NEW i \in Imports, NEW pc, NEW code \in Codes,
           NEW s \in {0, 1}, NEW f \in {0, 1},
           pc \in {"check", "map", "create", "log", "caught", "finish", "touch", "done", "lost"},
           Go(i, pc, code, s, f)
    PROVE  /\ imp' \in [Imports -> Call]
           /\ imp'[i].pc = pc /\ imp'[i].at = imp[i].at /\ imp'[i].code = code
           /\ \A j \in Imports \ {i} : imp'[j] = imp[j]
<1>1. imp[i].at \in Nat /\ imp[i].skus \in SUBSET Skus
  BY DEF TypeOK, Call
<1>2. \A at \in Nat : \A found \in SUBSET Skus :
        Locals(i, pc, at, found, code, s, f) =>
            /\ imp' \in [Imports -> Call]
            /\ imp'[i].pc = pc /\ imp'[i].at = at /\ imp'[i].code = code
            /\ \A j \in Imports \ {i} : imp'[j] = imp[j]
  BY GoStep
<1>3. Locals(i, pc, imp[i].at, imp[i].skus, code, s, f)
  BY DEF Go
<1> QED
  BY <1>1, <1>2, <1>3

\* A rewrite of the run's own row that keeps its batch and connection.
LEMMA RunStep ==
    ASSUME TypeOK, NEW i \in Imports, NEW status \in {"RUNNING", "COMPLETED", "FAILED"},
           NEW success \in Nat, NEW failed \in Nat,
           NEW logs \in Seq([ext : Externals, code : Codes]),
           SetRun(i, status, success, failed, logs)
    PROVE  /\ run' \in [Imports -> Run]
           /\ run'[i].conn = run[i].conn /\ run'[i].batch = run[i].batch
           /\ run'[i].logs = logs
           /\ \A j \in Imports \ {i} : run'[j] = run[j]
<1> DEFINE new == [kind |-> run[i].kind, conn |-> run[i].conn, batch |-> run[i].batch,
                   status |-> status, success |-> success, failed |-> failed, logs |-> logs]
<1>1. run \in [Imports -> Run] /\ run[i] \in Run
  BY DEF TypeOK
<1>2. new \in Run
  BY <1>1 DEF Run
<1>3. run' = [run EXCEPT ![i] = new]
  BY DEF SetRun
<1>4. new.conn = run[i].conn /\ new.batch = run[i].batch /\ new.logs = logs
  OBVIOUS
<1> HIDE DEF new
<1> QED
  BY <1>1, <1>2, <1>3, <1>4

\* The step of one call, given what it does to itself.
LEMMA CallStep ==
    ASSUME IInv, NEW i \in Imports, Frame(i), Placed(i)', Truthful(i)', TypeOK',
           ExternalOrderOnce'
    PROVE  IInv'
BY OthersKept DEF IInv

\* A step that changes no table keeps the invariant when what it will log is backed.
LEMMA LocalStep ==
    ASSUME IInv, NEW i \in Imports, UNCHANGED tables, NEW pc, NEW at, NEW found \in SUBSET Skus,
           NEW code \in Codes, NEW s \in {0, 1}, NEW f \in {0, 1},
           pc \in {"check", "map", "create", "log", "caught", "finish", "touch", "done", "lost"},
           at \in Nat, Locals(i, pc, at, found, code, s, f), imp[i].pc # "idle",
           pc \in {"check", "map", "create", "log", "caught"} => InLoop(i) /\ at = imp[i].at,
           pc \in {"log", "caught"} => Backed(i, Current(i).ext, code)
    PROVE  IInv'
<1>1. /\ UNCHANGED <<orders, mapping, skus, unused, run, synced>>
      /\ TypeOK /\ Placed(i) /\ Truthful(i) /\ ExternalOrderOnce
  BY DEF tables, IInv
<1>2. /\ imp' \in [Imports -> Call]
      /\ imp'[i].pc = pc /\ imp'[i].at = at /\ imp'[i].code = code
      /\ \A j \in Imports \ {i} : imp'[j] = imp[j]
  BY <1>1, GoStep
<1>3. TypeOK'
  BY <1>1, <1>2 DEF TypeOK
<1>4. Placed(i)'
  BY <1>1, <1>2 DEF Placed, InLoop
<1>5. Truthful(i)'
  BY <1>1, <1>2 DEF Truthful, Backed, Current
<1>6. Frame(i) /\ ExternalOrderOnce'
  BY <1>1, <1>2 DEF Frame, ExternalOrderOnce
<1> QED
  BY <1>3, <1>4, <1>5, <1>6, CallStep

\* The same for a step that stays at its payload.
LEMMA GoLocalStep ==
    ASSUME IInv, NEW i \in Imports, UNCHANGED tables, NEW pc,
           NEW code \in Codes, NEW s \in {0, 1}, NEW f \in {0, 1},
           pc \in {"check", "map", "create", "log", "caught", "finish", "touch", "done", "lost"},
           Go(i, pc, code, s, f), imp[i].pc # "idle",
           pc \in {"check", "map", "create", "log", "caught"} => InLoop(i),
           pc \in {"log", "caught"} => Backed(i, Current(i).ext, code)
    PROVE  IInv'
<1> DEFINE at == imp[i].at  found == imp[i].skus
<1>1. at \in Nat /\ found \in SUBSET Skus
  BY DEF IInv, TypeOK, Call
<1>2. Locals(i, pc, at, found, code, s, f) /\ at = imp[i].at
  BY DEF Go
<1> HIDE DEF at, found
<1> QED
  BY <1>1, <1>2, LocalStep

\* A call that begins, with its run, keeps the invariant.
LEMMA BeginStep ==
    ASSUME IInv, NEW i \in Imports, Start(i) \/ RecordEvent(i)
    PROVE  IInv'
<1>1. PICK pc \in {"check", "touch"}, new \in Run :
         /\ run' = [run EXCEPT ![i] = new] /\ imp' = [imp EXCEPT ![i] = NewCall(pc)]
         /\ new.conn \in Connections /\ new.logs = <<>>
         /\ pc = "check" => new.batch \in Batches
  <2>1. CASE Start(i)
    <3>1. PICK c \in Connections, b \in Batches :
             run' = [run EXCEPT ![i] = NewRun("import", c, b, "RUNNING", 0)]
      BY <2>1 DEF Start
    <3> DEFINE new == NewRun("import", c, b, "RUNNING", 0)
    <3>2. new \in Run /\ new.conn = c /\ new.batch = b /\ new.logs = <<>>
      BY DEF NewRun, Run
    <3>3. imp' = [imp EXCEPT ![i] = NewCall("check")]
      BY <2>1 DEF Start
    <3> QED
      BY <3>1, <3>2, <3>3
  <2>2. CASE RecordEvent(i)
    <3>1. PICK c \in Connections :
             run' = [run EXCEPT ![i] = NewRun("event", c, <<>>, "COMPLETED", 1)]
      BY <2>2 DEF RecordEvent
    <3> DEFINE new == NewRun("event", c, <<>>, "COMPLETED", 1)
    <3>2. new \in Run /\ new.conn = c /\ new.logs = <<>>
      BY DEF NewRun, Run
    <3>3. imp' = [imp EXCEPT ![i] = NewCall("touch")]
      BY <2>2 DEF RecordEvent
    <3> QED
      BY <3>1, <3>2, <3>3
  <2> QED
    BY <2>1, <2>2
<1>2. UNCHANGED <<orders, mapping, skus, unused, synced>>
  BY DEF Start, RecordEvent, catalog
<1>3. /\ TypeOK /\ ExternalOrderOnce
  BY DEF IInv
<1>4. NewCall(pc) \in Call /\ NewCall(pc).pc = pc /\ NewCall(pc).at = 1
  BY DEF NewCall, Call, Codes
<1>5. /\ run' \in [Imports -> Run] /\ imp' \in [Imports -> Call]
      /\ run'[i] = new /\ imp'[i].pc = pc /\ imp'[i].at = 1
      /\ \A j \in Imports \ {i} : run'[j] = run[j] /\ imp'[j] = imp[j]
  BY <1>1, <1>3, <1>4 DEF TypeOK
<1>6. TypeOK'
  BY <1>2, <1>3, <1>5 DEF TypeOK
<1>7. Placed(i)'
  <2>1. pc = "check" => 1 \in 1 .. Len(new.batch)
    <3> SUFFICES ASSUME pc = "check" PROVE 1 \in 1 .. Len(new.batch)
      OBVIOUS
    <3>1. new.batch \in Seq(Payload) /\ new.batch # <<>>
      BY <1>1, ImportAssumption
    <3> QED
      BY <3>1
  <2> QED
    BY <1>1, <1>5, <2>1 DEF Placed, InLoop
<1>8. Truthful(i)'
  BY <1>1, <1>5 DEF Truthful
<1>9. Frame(i) /\ ExternalOrderOnce'
  BY <1>2, <1>3, <1>5 DEF Frame, ExternalOrderOnce
<1> QED
  BY <1>6, <1>7, <1>8, <1>9, CallStep

\* An order that the unique indexes let in becomes the only one of its external id and
\* number, and backs a SUCCESS row of the call that made it.
LEMMA InsertStep ==
    ASSUME IInv, NEW i \in Imports, imp[i].pc = "create", Accepts(NewOrder(i)),
           orders' = orders \cup {NewOrder(i)}, UNCHANGED <<run, synced, catalog>>,
           NEW pc \in {"log", "caught"}, NEW code \in {"SUCCESS", "IMPORT_ERROR"},
           NEW s \in {0, 1}, NEW f \in {0, 1}, Go(i, pc, code, s, f)
    PROVE  IInv'
<1> DEFINE o == NewOrder(i)
<1>1. TypeOK /\ Placed(i) /\ Truthful(i) /\ ExternalOrderOnce /\ InLoop(i)
  BY DEF IInv, InLoop
<1>2. /\ o \in Order /\ o.run = i /\ o.ext = Current(i).ext
      /\ o.conn = run[i].conn /\ o.no = Current(i).no
  <2>1. run[i].conn \in Connections /\ imp[i].skus \in SUBSET Skus /\ imp[i].at \in Nat
    BY <1>1 DEF Placed, TypeOK, Call
  <2>2. Current(i).ext \in Externals /\ Current(i).no \in Numbers
    BY <1>1, CurrentPayload
  <2> QED
    BY <2>1, <2>2 DEF NewOrder, Order
<1>3. \A p \in orders : p.no # o.no /\ ~(p.conn = o.conn /\ p.ext = o.ext)
  BY DEF Accepts
<1>4. orders' = orders \cup {o}
  OBVIOUS
<1> HIDE DEF o
<1>5. /\ imp' \in [Imports -> Call]
      /\ imp'[i].pc = pc /\ imp'[i].at = imp[i].at /\ imp'[i].code = code
      /\ \A j \in Imports \ {i} : imp'[j] = imp[j]
  BY <1>1, GoIsLocal DEF Codes
<1>6. UNCHANGED <<run, mapping, skus, unused, synced>>
  BY DEF catalog
<1>7. TypeOK'
  BY <1>1, <1>2, <1>4, <1>5, <1>6 DEF TypeOK
<1>8. Placed(i)'
  BY <1>1, <1>5, <1>6 DEF Placed, InLoop
<1>9. Truthful(i)'
  <2>1. ASSUME NEW ext, NEW cd, Backed(i, ext, cd) PROVE Backed(i, ext, cd)'
    BY <1>4, <1>6, <2>1 DEF Backed
  <2>2. Backed(i, Current(i).ext, code)'
    BY <1>2, <1>4, <1>5, <1>6 DEF Backed, Current
  <2> QED
    BY <1>1, <1>5, <1>6, <2>1, <2>2 DEF Truthful
<1>10. ExternalOrderOnce'
  BY <1>1, <1>3, <1>4 DEF ExternalOrderOnce
<1>11. Frame(i)
  BY <1>4, <1>5, <1>6 DEF Frame
<1> QED
  BY <1>7, <1>8, <1>9, <1>10, <1>11, CallStep


\* CreateOrder inserts, or throws and leaves the orders alone.
LEMMA CreateStep ==
    ASSUME IInv, NEW i \in Imports, CreateOrder(i)
    PROVE  IInv'
<1>1. CASE Accepts(NewOrder(i))
  <2>1. /\ orders' = orders \cup {NewOrder(i)} /\ Go(i, "log", "SUCCESS", 1, 0)
        /\ UNCHANGED <<run, synced, catalog>> /\ imp[i].pc = "create"
    BY <1>1 DEF CreateOrder
  <2> QED
    BY <1>1, <2>1, InsertStep
<1>2. CASE ~Accepts(NewOrder(i))
  <2>1. /\ Go(i, "caught", "IMPORT_ERROR", 0, 1) /\ UNCHANGED tables
        /\ imp[i].pc = "create"
    BY <1>2 DEF CreateOrder, Throw, tables, catalog
  <2>2. InLoop(i) /\ Backed(i, Current(i).ext, "IMPORT_ERROR") /\ "IMPORT_ERROR" \in Codes
    BY <2>1 DEF InLoop, Backed, Codes
  <2> QED
    BY <2>1, <2>2, GoLocalStep
<1> QED
  BY <1>1, <1>2

\* A log row that is backed joins rows that are.
LEMMA LoggedStep ==
    ASSUME IInv, NEW i \in Imports, imp[i].pc \in {"log", "caught"}, Logged(i)
    PROVE  /\ run' \in [Imports -> Run]
           /\ run'[i].conn = run[i].conn /\ run'[i].batch = run[i].batch
           /\ \A j \in Imports \ {i} : run'[j] = run[j]
           /\ \A n \in 1 .. Len(run'[i].logs) :
                 Backed(i, run'[i].logs[n].ext, run'[i].logs[n].code)
<1> DEFINE row == [ext |-> Current(i).ext, code |-> imp[i].code]
           old == run[i].logs
           new == Append(old, row)
<1>1. TypeOK /\ Placed(i) /\ Truthful(i) /\ InLoop(i)
  BY DEF IInv, InLoop
<1>2. row \in [ext : Externals, code : Codes]
  BY <1>1, CurrentPayload DEF TypeOK, Call
<1>3. /\ run[i].status \in {"RUNNING", "COMPLETED", "FAILED"} /\ run[i].success \in Nat
      /\ run[i].failed \in Nat /\ old \in Seq([ext : Externals, code : Codes])
  BY <1>1 DEF TypeOK, Run
<1>4. new \in Seq([ext : Externals, code : Codes])
  BY <1>2, <1>3
<1>5. SetRun(i, run[i].status, run[i].success, run[i].failed, new)
  BY DEF Logged
<1>6. row.ext = Current(i).ext /\ row.code = imp[i].code
  OBVIOUS
<1>7. /\ Len(new) = Len(old) + 1 /\ Len(old) \in Nat /\ new[Len(old) + 1] = row
      /\ \A n \in 1 .. Len(old) : new[n] = old[n]
  BY <1>2, <1>3
<1>8. \A n \in 1 .. Len(old) : Backed(i, old[n].ext, old[n].code)
  BY <1>1 DEF Truthful
<1>9. Backed(i, row.ext, row.code)
  BY <1>1, <1>6 DEF Truthful
<1> HIDE DEF new, old, row
<1>10. \A n \in 1 .. Len(new) : Backed(i, new[n].ext, new[n].code)
  BY <1>7, <1>8, <1>9
<1>11. /\ run' \in [Imports -> Run]
       /\ run'[i].conn = run[i].conn /\ run'[i].batch = run[i].batch
       /\ run'[i].logs = new
       /\ \A j \in Imports \ {i} : run'[j] = run[j]
  BY <1>1, <1>3, <1>4, <1>5, RunStep
<1> QED
  BY <1>10, <1>11

\* Writing the log row of a payload and going to the next one keeps the invariant.
LEMMA WriteLogStep ==
    ASSUME IInv, NEW i \in Imports, WriteLog(i)
    PROVE  IInv'
<1> DEFINE pc == IF imp[i].at < Len(run[i].batch) THEN "check" ELSE "finish"
           at == imp[i].at + 1
<1>1. /\ imp[i].pc \in {"log", "caught"} /\ Logged(i) /\ Locals(i, pc, at, {}, "SUCCESS", 0, 0)
      /\ UNCHANGED <<orders, mapping, skus, unused, synced>>
  BY DEF WriteLog, NextPayload, catalog
<1>2. TypeOK /\ Placed(i) /\ ExternalOrderOnce /\ InLoop(i)
  BY <1>1 DEF IInv, InLoop
<1>3. /\ run[i].batch \in Seq(Payload) /\ imp[i].at \in 1 .. Len(run[i].batch)
      /\ run[i].batch \in Batches /\ run[i].conn \in Connections
  BY <1>2, ImportAssumption DEF Placed, InLoop
<1>4. /\ at \in Nat /\ pc \in {"check", "finish"}
      /\ pc = "check" => at \in 1 .. Len(run[i].batch)
  BY <1>3
<1> HIDE DEF pc, at
<1>5. /\ imp' \in [Imports -> Call] /\ imp'[i].pc = pc /\ imp'[i].at = at
      /\ \A j \in Imports \ {i} : imp'[j] = imp[j]
  <2> DEFINE none == {}
  <2>1. none \in SUBSET Skus /\ "SUCCESS" \in Codes /\ 0 \in {0, 1}
    BY DEF Codes
  <2>2. Locals(i, pc, at, none, "SUCCESS", 0, 0)
    BY <1>1
  <2>3. pc \in {"check", "map", "create", "log", "caught", "finish", "touch", "done", "lost"}
    BY <1>4
  <2> HIDE DEF none
  <2> QED
    BY <1>2, <1>4, <2>1, <2>2, <2>3, GoStep
<1>6. /\ run' \in [Imports -> Run]
      /\ run'[i].conn = run[i].conn /\ run'[i].batch = run[i].batch
      /\ \A j \in Imports \ {i} : run'[j] = run[j]
      /\ \A n \in 1 .. Len(run'[i].logs) :
            Backed(i, run'[i].logs[n].ext, run'[i].logs[n].code)
  BY <1>1, LoggedStep
<1>7. TypeOK'
  BY <1>1, <1>2, <1>5, <1>6 DEF TypeOK
<1>8. Placed(i)'
  BY <1>3, <1>4, <1>5, <1>6 DEF Placed, InLoop
<1>9. Truthful(i)'
  BY <1>1, <1>4, <1>5, <1>6 DEF Truthful, Backed
<1>10. Frame(i) /\ ExternalOrderOnce'
  BY <1>1, <1>2, <1>5, <1>6 DEF Frame, ExternalOrderOnce
<1> QED
  BY <1>7, <1>8, <1>9, <1>10, CallStep

\* The final update of the run keeps the invariant.
LEMMA FinishStep ==
    ASSUME IInv, NEW i \in Imports, Finish(i)
    PROVE  IInv'
<1> DEFINE st == IF imp[i].failed > 0 /\ imp[i].success = 0 THEN "FAILED" ELSE "COMPLETED"
           s == imp[i].success
           f == imp[i].failed
           l == run[i].logs
<1>1. /\ imp[i].pc = "finish" /\ Go(i, "touch", "SUCCESS", 0, 0)
      /\ SetRun(i, st, s, f, l)
      /\ UNCHANGED <<orders, mapping, skus, unused, synced>>
  BY DEF Finish, catalog
<1>2. TypeOK /\ Placed(i) /\ Truthful(i) /\ ExternalOrderOnce
  BY DEF IInv
<1>3. /\ st \in {"RUNNING", "COMPLETED", "FAILED"}
      /\ s \in Nat /\ f \in Nat
      /\ l \in Seq([ext : Externals, code : Codes]) /\ l = run[i].logs
  BY <1>2 DEF TypeOK, Call, Run
<1> HIDE DEF st, s, f, l
<1>4. /\ run' \in [Imports -> Run]
      /\ run'[i].conn = run[i].conn /\ run'[i].logs = run[i].logs
      /\ \A j \in Imports \ {i} : run'[j] = run[j]
  <2>1. TypeOK /\ SetRun(i, st, s, f, l)
    BY <1>1, <1>2
  <2>2. st \in {"RUNNING", "COMPLETED", "FAILED"} /\ s \in Nat /\ f \in Nat
    BY <1>3
  <2>3. l \in Seq([ext : Externals, code : Codes])
    BY <1>3
  <2>4. /\ run' \in [Imports -> Run]
        /\ run'[i].conn = run[i].conn /\ run'[i].batch = run[i].batch
        /\ run'[i].logs = l
        /\ \A j \in Imports \ {i} : run'[j] = run[j]
    BY <2>1, <2>2, <2>3, RunStep
  <2> QED
    BY <1>3, <2>4
<1>5. /\ imp' \in [Imports -> Call] /\ imp'[i].pc = "touch"
      /\ \A j \in Imports \ {i} : imp'[j] = imp[j]
  BY <1>1, <1>2, GoIsLocal DEF Codes
<1>6. TypeOK'
  BY <1>1, <1>2, <1>4, <1>5 DEF TypeOK
<1>7. Placed(i)'
  BY <1>1, <1>2, <1>4, <1>5 DEF Placed, InLoop
<1>8. Truthful(i)'
  BY <1>1, <1>2, <1>4, <1>5 DEF Truthful, Backed
<1>9. Frame(i) /\ ExternalOrderOnce'
  BY <1>1, <1>2, <1>4, <1>5 DEF Frame, ExternalOrderOnce
<1> QED
  BY <1>6, <1>7, <1>8, <1>9, CallStep

\* The update of the connection keeps the invariant.
LEMMA TouchStep ==
    ASSUME IInv, NEW i \in Imports, Touch(i)
    PROVE  IInv'
<1>1. /\ imp[i].pc = "touch" /\ Go(i, "done", "SUCCESS", 0, 0)
      /\ synced' = [synced EXCEPT ![run[i].conn] = i]
      /\ UNCHANGED <<orders, mapping, skus, unused, run>>
  BY DEF Touch, catalog
<1>2. TypeOK /\ Placed(i) /\ Truthful(i) /\ ExternalOrderOnce
  BY DEF IInv
<1>3. /\ imp' \in [Imports -> Call] /\ imp'[i].pc = "done"
      /\ \A j \in Imports \ {i} : imp'[j] = imp[j]
  BY <1>1, <1>2, GoIsLocal DEF Codes
<1>4. TypeOK'
  BY <1>1, <1>2, <1>3 DEF TypeOK
<1>5. Placed(i)' /\ Truthful(i)'
  BY <1>1, <1>2, <1>3 DEF Placed, InLoop, Truthful, Backed
<1>6. Frame(i) /\ ExternalOrderOnce'
  BY <1>1, <1>2, <1>3 DEF Frame, ExternalOrderOnce
<1> QED
  BY <1>4, <1>5, <1>6, CallStep

\* A statement whose answer is lost took effect: the order is there, or the row is.
LEMMA LoseAnswerStep ==
    ASSUME IInv, NEW i \in Imports, LoseAnswer(i)
    PROVE  IInv'
<1>1. Go(i, "caught", "IMPORT_ERROR", 0, 1) /\ UNCHANGED <<synced, mapping, skus, unused>>
  BY DEF LoseAnswer, Throw, catalog
<1>2. CASE /\ imp[i].pc = "create" /\ Accepts(NewOrder(i))
           /\ orders' = orders \cup {NewOrder(i)} /\ UNCHANGED run
  BY <1>1, <1>2, InsertStep DEF catalog
<1>3. CASE imp[i].pc = "log" /\ Logged(i) /\ UNCHANGED orders
  <2>1. TypeOK /\ Placed(i) /\ ExternalOrderOnce
    BY DEF IInv
  <2>2. /\ imp' \in [Imports -> Call] /\ imp'[i].pc = "caught" /\ imp'[i].at = imp[i].at
        /\ imp'[i].code = "IMPORT_ERROR"
        /\ \A j \in Imports \ {i} : imp'[j] = imp[j]
    BY <1>1, <2>1, GoIsLocal DEF Codes
  <2>3. /\ run' \in [Imports -> Run]
        /\ run'[i].conn = run[i].conn /\ run'[i].batch = run[i].batch
        /\ \A j \in Imports \ {i} : run'[j] = run[j]
        /\ \A n \in 1 .. Len(run'[i].logs) :
              Backed(i, run'[i].logs[n].ext, run'[i].logs[n].code)
    BY <1>3, LoggedStep
  <2>4. TypeOK'
    BY <1>1, <1>3, <2>1, <2>2, <2>3 DEF TypeOK
  <2>5. Placed(i)'
    BY <1>3, <2>1, <2>2, <2>3 DEF Placed, InLoop
  <2>6. Truthful(i)'
    BY <1>3, <2>2, <2>3 DEF Truthful, Backed
  <2>7. Frame(i) /\ ExternalOrderOnce'
    BY <1>3, <2>1, <2>2, <2>3 DEF Frame, ExternalOrderOnce
  <2> QED
    BY <2>4, <2>5, <2>6, <2>7, CallStep
<1> QED
  BY <1>2, <1>3 DEF LoseAnswer

\* The steps that read the tables, and the failures, only change local variables.
LEMMA ReadStep ==
    ASSUME IInv, NEW i \in Imports,
           FindDuplicate(i) \/ ResolveSkus(i) \/ Fail(i) \/ Stop(i)
    PROVE  IInv'
<1>1. UNCHANGED tables /\ TypeOK /\ Placed(i)
  BY DEF FindDuplicate, ResolveSkus, Fail, Stop, IInv
<1>2. Codes = {"SUCCESS", "DUPLICATE_ORDER", "UNMAPPED_SKU", "IMPORT_ERROR"}
  BY DEF Codes
<1>3. CASE FindDuplicate(i)
  <2>1. imp[i].pc = "check" /\ InLoop(i)
    BY <1>3 DEF FindDuplicate, InLoop
  <2>2. CASE Imported(run[i].conn, Current(i).ext)
    <3>1. Go(i, "log", "DUPLICATE_ORDER", 0, 1)
      BY <1>3, <2>2 DEF FindDuplicate
    <3>2. Backed(i, Current(i).ext, "DUPLICATE_ORDER")
      BY <2>2 DEF Backed, Imported
    <3> QED
      BY <1>1, <1>2, <2>1, <3>1, <3>2, GoLocalStep
  <2>3. CASE ~Imported(run[i].conn, Current(i).ext)
    <3>1. Go(i, "map", "SUCCESS", 0, 0)
      BY <1>3, <2>3 DEF FindDuplicate
    <3> QED
      BY <1>1, <1>2, <2>1, <3>1, GoLocalStep
  <2> QED
    BY <2>2, <2>3
<1>4. CASE ResolveSkus(i)
  <2> DEFINE c == run[i].conn  names == Current(i).skus
  <2>1. imp[i].pc = "map" /\ InLoop(i)
    BY <1>4 DEF ResolveSkus, InLoop
  <2>2. CASE Unresolved(c, names) # {}
    <3>1. Go(i, "log", "UNMAPPED_SKU", 0, 1)
      BY <1>4, <2>2 DEF ResolveSkus
    <3>2. Backed(i, Current(i).ext, "UNMAPPED_SKU")
      BY DEF Backed
    <3> QED
      BY <1>1, <1>2, <2>1, <3>1, <3>2, GoLocalStep
  <2>3. CASE ~(Unresolved(c, names) # {})
    <3> DEFINE found == Resolved(c, names)  at == imp[i].at
    <3>1. Locals(i, "create", at, found, "SUCCESS", 0, 0)
      BY <1>4, <2>3 DEF ResolveSkus
    <3>2. found \in SUBSET Skus /\ at \in Nat /\ at = imp[i].at
      BY <1>1 DEF Resolved, TypeOK, Call
    <3> HIDE DEF found, at
    <3> QED
      BY <1>1, <1>2, <2>1, <3>1, <3>2, LocalStep
  <2> QED
    BY <2>2, <2>3
<1>5. CASE Fail(i)
  <2>1. Go(i, "caught", "IMPORT_ERROR", 0, 1) /\ InLoop(i) /\ imp[i].pc # "idle"
    BY <1>5 DEF Fail, Throw, InLoop
  <2>2. Backed(i, Current(i).ext, "IMPORT_ERROR")
    BY DEF Backed
  <2> QED
    BY <1>1, <1>2, <2>1, <2>2, GoLocalStep
<1>6. CASE Stop(i)
  <2>1. Go(i, "lost", "SUCCESS", 0, 0) /\ imp[i].pc # "idle"
    BY <1>6 DEF Stop
  <2> QED
    BY <1>1, <1>2, <2>1, GoLocalStep
<1> QED
  BY <1>3, <1>4, <1>5, <1>6

\* The catalogue's steps touch no order, run or call.
LEMMA CatalogStep ==
    ASSUME IInv, Catalog
    PROVE  IInv'
<1>1. UNCHANGED <<orders, run, synced, imp>>
  BY DEF Catalog, MapSku, FindUnused, DeleteSku
<1>2. /\ mapping' \in [Connections -> [Skus -> ExternalSkus \cup {None}]]
      /\ skus' \subseteq Skus /\ unused' \subseteq Deletable
  <2>1. /\ mapping \in [Connections -> [Skus -> ExternalSkus \cup {None}]]
        /\ skus \subseteq Skus /\ unused \subseteq Deletable
    BY DEF IInv, TypeOK
  <2>2. ASSUME NEW m \in Remaps, MapSku(m[1], m[2], m[3])
        PROVE  mapping' \in [Connections -> [Skus -> ExternalSkus \cup {None}]]
    <3>1. m[1] \in Connections /\ m[2] \in Skus /\ m[3] \in ExternalSkus
      BY ImportAssumption
    <3>2. mapping' = [mapping EXCEPT ![m[1]][m[2]] = m[3]]
      BY <2>2 DEF MapSku
    <3> QED
      BY <2>1, <3>1, <3>2
  <2>3. ASSUME NEW s \in Deletable, FindUnused(s) \/ DeleteSku(s)
        PROVE  /\ mapping' \in [Connections -> [Skus -> ExternalSkus \cup {None}]]
               /\ skus' \subseteq Skus /\ unused' \subseteq Deletable
    BY <2>1, <2>3 DEF FindUnused, DeleteSku
  <2>4. ASSUME NEW m \in Remaps, MapSku(m[1], m[2], m[3])
        PROVE  skus' = skus /\ unused' = unused
    BY <2>4 DEF MapSku
  <2> QED
    BY <2>1, <2>2, <2>3, <2>4 DEF Catalog
<1>3. TypeOK'
  BY <1>1, <1>2 DEF IInv, TypeOK
<1>4. \A i \in Imports : Placed(i)' /\ Truthful(i)'
  BY <1>1 DEF IInv, Placed, InLoop, Truthful, Backed, Current
<1>5. ExternalOrderOnce'
  BY <1>1 DEF IInv, ExternalOrderOnce
<1> QED
  BY <1>3, <1>4, <1>5 DEF IInv

\* Before the first call there is nothing to get wrong.
LEMMA InitInv == Init => IInv
<1> SUFFICES ASSUME Init PROVE IInv
  OBVIOUS
<1>1. NewRun("none", None, <<>>, "RUNNING", 0) \in Run
  BY DEF NewRun, Run
<1>2. NewCall("idle") \in Call /\ NewCall("idle").pc = "idle"
  BY DEF NewCall, Call, Codes
<1>3. NewRun("none", None, <<>>, "RUNNING", 0).logs = <<>>
  BY DEF NewRun
<1>4. TypeOK
  BY <1>1, <1>2, ImportAssumption DEF Init, TypeOK
<1>5. \A i \in Imports : Placed(i) /\ Truthful(i)
  BY <1>2, <1>3 DEF Init, Placed, InLoop, Truthful
<1>6. ExternalOrderOnce
  BY DEF Init, ExternalOrderOnce
<1> QED
  BY <1>4, <1>5, <1>6 DEF IInv

\* Every step of every call, and of the catalogue, keeps the invariant.
LEMMA NextInv == IInv /\ [Next]_vars => IInv'
<1> SUFFICES ASSUME IInv, [Next]_vars PROVE IInv'
  OBVIOUS
<1>1. CASE UNCHANGED vars
  BY <1>1 DEF vars, tables, IInv, TypeOK, Placed, InLoop, Truthful, Backed, Current,
              ExternalOrderOnce
<1>2. ASSUME NEW i \in Imports, Start(i) \/ RecordEvent(i) \/ Progress(i)
                                \/ Fail(i) \/ LoseAnswer(i) \/ Stop(i)
      PROVE  IInv'
  BY <1>2, BeginStep, ReadStep, CreateStep, WriteLogStep, FinishStep, TouchStep,
     LoseAnswerStep DEF Progress
<1> QED
  BY <1>1, <1>2, CatalogStep DEF Next

\* IInv is an inductive invariant; the three theorems below are read off it.
THEOREM ImportInvariance == Spec => []IInv
  BY InitInv, NextInv, PTL DEF Spec

\* Tables and local variables keep their types: in particular a call never looks past the
\* end of its batch.
THEOREM ImportTypes == Spec => []TypeOK
<1>1. IInv => TypeOK
  BY DEF IInv
<1> QED
  BY <1>1, ImportInvariance, PTL

\* Submitting an external order again, at any time, any number of times and with calls
\* failing or stopping anywhere, never makes a second order of it.
THEOREM ImportedOnce == Spec => []ExternalOrderOnce
<1>1. IInv => ExternalOrderOnce
  BY DEF IInv
<1> QED
  BY <1>1, ImportInvariance, PTL

\* A log row that says SUCCESS has an order of its own run behind it, and one that says
\* DUPLICATE_ORDER an order of its connection, whatever failed on the way.
THEOREM LogsTrue == Spec => []LogsTellTheTruth
<1>1. IInv => LogsTellTheTruth
  BY DEF IInv, Truthful, Backed, LogsTellTheTruth, Made, Imported
<1> QED
  BY <1>1, ImportInvariance, PTL

-----------------------------------------------------------------------------
(***************************************************************************)
(* The books of a run.  Its counters are right when it ends because they   *)
(* are right after every payload: what follows relates the local counters, *)
(* the orders made and the log rows written to the place in the batch.     *)
(***************************************************************************)
Busy(i) == InLoop(i) \/ imp[i].pc = "finish"

\* Payloads that the counters already include.
Counted(i) == IF imp[i].pc \in {"log", "caught"} THEN imp[i].at ELSE imp[i].at - 1

\* Where a call is says what its run's row says.
RowInv(i) ==
    /\ imp[i].pc = "idle" => run[i].kind = "none" /\ Made(i) = {}
    /\ Busy(i) => run[i].kind = "import" /\ run[i].status = "RUNNING" /\ run[i].batch \in Batches
    /\ imp[i].pc = "finish" => imp[i].at = Len(run[i].batch) + 1
    /\ imp[i].pc \in {"touch", "done"} => run[i].status # "RUNNING"

\* The call's counters against the orders it made and the payloads it is through with.
Tally(i) ==
    LET made == Cardinality(Made(i))  s == imp[i].success  f == imp[i].failed IN
    /\ s <= made /\ made <= s + f /\ Counted(i) <= s + f
    /\ ~Faults => s = made /\ s + f = Counted(i)

\* What RunsAddUp says of a run that has ended.
AddsUp(i) ==
    LET r == run[i]  made == Cardinality(Made(i))  total == Len(r.batch) IN
    /\ r.success <= made /\ made <= r.success + r.failed /\ total <= r.success + r.failed
    /\ r.status = "FAILED" <=> r.success = 0
    /\ ~Faults => r.success = made /\ r.success + r.failed = total

\* The payloads up to place n, and the log rows, that name an external order.
Passed(i, e, n) == {m \in 1 .. n : run[i].batch[m].ext = e}
Rows(i, e) == {k \in 1 .. Len(run[i].logs) : run[i].logs[k].ext = e}
Covered(i, n) == \A e \in Externals : Cardinality(Passed(i, e, n)) <= Cardinality(Rows(i, e))

\* Counters and rows of one call and its run.
Books(i) ==
    /\ RowInv(i)
    /\ IsFiniteSet(Made(i))
    /\ Busy(i) => Tally(i) /\ Covered(i, imp[i].at - 1)
    /\ Ended(i) => ~Busy(i) /\ AddsUp(i) /\ Covered(i, Len(run[i].batch))

\* A call that is done is the only kind a connection's time stamp comes from.
BooksInv ==
    /\ \A i \in Imports : Books(i)
    /\ SyncedByEndedRun
    /\ \A c \in Connections : synced[c] # None => imp[synced[c]].pc = "done"


\* What a call's step does to its local variables.
LEMMA LocalsShape ==
    ASSUME TypeOK, NEW i \in Imports, NEW pc, NEW at, NEW found, NEW code, NEW s, NEW f,
           Locals(i, pc, at, found, code, s, f)
    PROVE  /\ imp'[i].pc = pc /\ imp'[i].at = at /\ imp'[i].skus = found
           /\ imp'[i].success = imp[i].success + s /\ imp'[i].failed = imp[i].failed + f
           /\ \A j \in Imports \ {i} : imp'[j] = imp[j]
BY DEF Locals, TypeOK

\* The same for a step that stays at its payload.
LEMMA GoShape ==
    ASSUME TypeOK, NEW i \in Imports, NEW pc, NEW code, NEW s, NEW f, Go(i, pc, code, s, f)
    PROVE  /\ imp'[i].pc = pc /\ imp'[i].at = imp[i].at /\ imp'[i].skus = imp[i].skus
           /\ imp'[i].success = imp[i].success + s /\ imp'[i].failed = imp[i].failed + f
           /\ \A j \in Imports \ {i} : imp'[j] = imp[j]
BY DEF Go, Locals, TypeOK

\* The books of the calls that a step of call i leaves alone stay as they are.
LEMMA OthersBooks ==
    ASSUME NEW j \in Imports, imp'[j] = imp[j], run'[j] = run[j], Made(j)' = Made(j), Books(j)
    PROVE  Books(j)'
<1>1. Tally(j)' <=> Tally(j)
  BY DEF Tally, Counted
<1>2. AddsUp(j)' <=> AddsUp(j)
  BY DEF AddsUp
<1>3. RowInv(j)' <=> RowInv(j)
  BY DEF RowInv, Busy, InLoop
<1>4. \A n : Covered(j, n) => Covered(j, n)'
  BY DEF Covered, Passed, Rows
<1>5. (Busy(j)' <=> Busy(j)) /\ (Ended(j)' <=> Ended(j))
  BY DEF Busy, InLoop, Ended
<1>6. Covered(j, imp[j].at - 1) => Covered(j, imp[j].at - 1)'
  BY DEF Covered, Passed, Rows
<1>7. Covered(j, Len(run[j].batch)) => Covered(j, Len(run[j].batch))'
  BY DEF Covered, Passed, Rows
<1> QED
  BY <1>1, <1>2, <1>3, <1>5, <1>6, <1>7 DEF Books

\* A step of call i keeps the books of all when it keeps its own: the others are out of
\* its reach, and a connection is only marked by a call that has just ended its run.
LEMMA BooksStep ==
    ASSUME IInv, BooksInv, NEW i \in Imports, imp[i].pc # "done", Frame(i), Books(i)',
           \A j \in Imports \ {i} : Made(j)' = Made(j),
           \/ synced' = synced
           \/ synced' = [synced EXCEPT ![run[i].conn] = i] /\ imp'[i].pc = "done"
    PROVE  BooksInv'
<1>1. \A j \in Imports : Books(j)'
  BY OthersBooks DEF Frame, BooksInv
<1>2. ASSUME NEW c \in Connections, synced'[c] # None
      PROVE  run'[synced'[c]].status # "RUNNING" /\ imp'[synced'[c]].pc = "done"
  <2>1. CASE synced'[c] = synced[c]
    <3>1. PICK j \in Imports : j = synced[c]
      BY <1>2, <2>1 DEF IInv, TypeOK
    <3>2. j # i /\ imp[j].pc = "done" /\ run[j].status # "RUNNING"
      BY <1>2, <2>1, <3>1 DEF BooksInv, SyncedByEndedRun
    <3> QED
      BY <2>1, <3>1, <3>2 DEF Frame
  <2>2. CASE synced'[c] # synced[c]
    <3>1. synced'[c] = i /\ imp'[i].pc = "done"
      BY <2>2 DEF IInv, TypeOK
    <3>2. RowInv(i)'
      BY DEF Books
    <3> QED
      BY <3>1, <3>2 DEF RowInv
  <2> QED
    BY <2>1, <2>2
<1> QED
  BY <1>1, <1>2 DEF BooksInv, SyncedByEndedRun

\* The counters stay right when a step counts what it adds: m orders and d payloads.
LEMMA TallyStep ==
    ASSUME TypeOK, NEW i \in Imports, IsFiniteSet(Made(i)), Tally(i), NEW m \in {0, 1},
           NEW d \in {0, 1}, NEW s \in {0, 1}, NEW f \in {0, 1}, imp[i].at \in Nat,
           Cardinality(Made(i)') = Cardinality(Made(i)) + m, Counted(i)' = Counted(i) + d,
           imp'[i].success = imp[i].success + s, imp'[i].failed = imp[i].failed + f,
           s <= m, m <= s + f, d <= s + f, Faults \/ (s = m /\ s + f = d)
    PROVE  Tally(i)'
<1>1. PICK k \in Nat : k = Cardinality(Made(i))
  BY FS_CardinalityType
<1>2. PICK g \in Int : g = Counted(i)
  BY DEF Counted
<1>3. PICK p \in Nat, q \in Nat : p = imp[i].success /\ q = imp[i].failed
  BY DEF TypeOK, Call
<1>4. p <= k /\ k <= p + q /\ g <= p + q /\ (~Faults => p = k /\ p + q = g)
  BY <1>1, <1>2, <1>3 DEF Tally
<1>5. /\ p + s <= k + m /\ k + m <= (p + s) + (q + f) /\ g + d <= (p + s) + (q + f)
      /\ ~Faults => p + s = k + m /\ (p + s) + (q + f) = g + d
  BY <1>4
<1>6. /\ Cardinality(Made(i)') = k + m /\ Counted(i)' = g + d
      /\ imp'[i].success = p + s /\ imp'[i].failed = q + f
  BY <1>1, <1>2, <1>3
<1> QED
  BY <1>5, <1>6 DEF Tally

\* A row for the current payload covers it, and takes nothing from what was covered.
LEMMA RowWritten ==
    ASSUME IInv, NEW i \in Imports, InLoop(i), Logged(i), Covered(i, imp[i].at - 1),
           NEW e \in Externals
    PROVE  /\ Cardinality(Passed(i, e, imp[i].at)) <= Cardinality(Rows(i, e)')
           /\ Cardinality(Passed(i, e, imp[i].at - 1)) <= Cardinality(Rows(i, e)')
<1> DEFINE row == [ext |-> Current(i).ext, code |-> imp[i].code]
           old == run[i].logs
           at == imp[i].at
           before == Passed(i, e, at - 1)
           upto == Passed(i, e, at)
           rows == Rows(i, e)
           n == Len(old)
<1>1. TypeOK /\ Placed(i) /\ run[i].batch \in Seq(Payload) /\ at \in 1 .. Len(run[i].batch)
  BY ImportAssumption DEF IInv, Placed
<1>2. row \in [ext : Externals, code : Codes] /\ row.ext = Current(i).ext
  BY <1>1, CurrentPayload DEF TypeOK, Call
<1>3. old \in Seq([ext : Externals, code : Codes])
  BY <1>1 DEF TypeOK, Run
<1>4. run'[i].logs = Append(old, row)
  BY <1>1 DEF Logged, SetRun, TypeOK
<1>5. at \in Nat /\ at >= 1 /\ n \in Nat
  BY <1>1, <1>3
<1>6. IsFiniteSet(before) /\ IsFiniteSet(upto) /\ IsFiniteSet(rows)
  <2>1. IsFiniteSet(1 .. at - 1) /\ IsFiniteSet(1 .. at) /\ IsFiniteSet(1 .. n)
    <3>1. 1 \in Int /\ at - 1 \in Int /\ at \in Int /\ n \in Int
      BY <1>5
    <3> HIDE DEF at, n
    <3> QED
      BY <3>1, FS_Interval
  <2>2. before \subseteq 1 .. at - 1 /\ upto \subseteq 1 .. at /\ rows \subseteq 1 .. n
    BY DEF Passed, Rows
  <2> HIDE DEF before, upto, rows, at, n
  <2> QED
    BY <2>1, <2>2, FS_Subset
<1>7. /\ Cardinality(before) \in Nat /\ Cardinality(upto) \in Nat
      /\ Cardinality(rows) \in Nat /\ Cardinality(before) <= Cardinality(rows)
  BY <1>6, FS_CardinalityType DEF Covered
<1>8. CASE row.ext = e
  <2>1. upto = before \cup {at} /\ at \notin before
    BY <1>1, <1>2, <1>5, <1>8 DEF Passed, Current
  <2>2. Rows(i, e)' = rows \cup {n + 1} /\ n + 1 \notin rows
    BY <1>2, <1>3, <1>4, <1>8 DEF Rows
  <2> HIDE DEF before, upto, rows, at, n
  <2>3. Cardinality(upto) = Cardinality(before) + 1
    BY <1>6, <2>1, FS_AddElement
  <2>4. Cardinality(Rows(i, e)') = Cardinality(rows) + 1
    BY <1>6, <2>2, FS_AddElement
  <2> QED
    BY <1>7, <2>3, <2>4 DEF at, before, upto
<1>9. CASE row.ext # e
  <2>1. upto = before
    BY <1>1, <1>2, <1>5, <1>9 DEF Passed, Current
  <2>2. Rows(i, e)' = rows
    BY <1>2, <1>3, <1>4, <1>9 DEF Rows
  <2> HIDE DEF before, upto, rows, at, n
  <2> QED
    BY <1>7, <2>1, <2>2 DEF at, before, upto
<1> QED
  BY <1>8, <1>9

\* A call that begins has made, counted and logged nothing.
LEMMA BeginBooks ==
    ASSUME IInv, BooksInv, NEW i \in Imports, Start(i) \/ RecordEvent(i)
    PROVE  BooksInv'
<1>1. /\ TypeOK /\ imp[i].pc = "idle" /\ RowInv(i) /\ IsFiniteSet(Made(i))
      /\ UNCHANGED <<orders, synced>>
  BY DEF IInv, BooksInv, Books, Start, RecordEvent
<1>2. Made(i) = {} /\ \A j \in Imports : Made(j)' = Made(j)
  BY <1>1 DEF RowInv, Made
<1>3. Books(i)' /\ Frame(i)
  <2>1. CASE Start(i)
    <3>1. PICK c \in Connections, b \in Batches :
             run' = [run EXCEPT ![i] = NewRun("import", c, b, "RUNNING", 0)]
      BY <2>1 DEF Start
    <3>2. imp' = [imp EXCEPT ![i] = NewCall("check")]
      BY <2>1 DEF Start
    <3>3. /\ run'[i].kind = "import" /\ run'[i].status = "RUNNING" /\ run'[i].batch = b
          /\ run'[i].logs = <<>> /\ imp'[i].pc = "check" /\ imp'[i].at = 1
          /\ imp'[i].success = 0 /\ imp'[i].failed = 0
      BY <1>1, <3>1, <3>2 DEF TypeOK, NewRun, NewCall
    <3>4. Made(i)' = {} /\ Cardinality(Made(i)') = 0 /\ IsFiniteSet(Made(i)')
      BY <1>2, FS_EmptySet
    <3>5. Tally(i)'
      BY <3>3, <3>4 DEF Tally, Counted
    <3>6. Covered(i, imp[i].at - 1)'
      <4>1. ASSUME NEW e \in Externals
            PROVE  Passed(i, e, imp[i].at - 1)' = {} /\ Rows(i, e)' = {}
        BY <3>3 DEF Passed, Rows
      <4> QED
        BY <4>1, FS_EmptySet DEF Covered
    <3>7. RowInv(i)' /\ ~Ended(i)'
      BY <3>3, <3>4 DEF RowInv, Busy, InLoop, Ended
    <3>8. Frame(i)
      BY <1>1, <3>1, <3>2 DEF Frame, TypeOK
    <3> QED
      BY <3>4, <3>5, <3>6, <3>7, <3>8 DEF Books
  <2>2. CASE RecordEvent(i)
    <3>1. PICK c \in Connections :
             run' = [run EXCEPT ![i] = NewRun("event", c, <<>>, "COMPLETED", 1)]
      BY <2>2 DEF RecordEvent
    <3>2. imp' = [imp EXCEPT ![i] = NewCall("touch")]
      BY <2>2 DEF RecordEvent
    <3>3. /\ run'[i].kind = "event" /\ run'[i].status = "COMPLETED" /\ imp'[i].pc = "touch"
      BY <1>1, <3>1, <3>2 DEF TypeOK, NewRun, NewCall
    <3>4. RowInv(i)' /\ ~Ended(i)' /\ ~Busy(i)' /\ IsFiniteSet(Made(i)')
      BY <1>1, <1>2, <3>3 DEF RowInv, Busy, InLoop, Ended
    <3>5. Frame(i)
      BY <1>1, <3>1, <3>2 DEF Frame, TypeOK
    <3> QED
      BY <3>4, <3>5 DEF Books
  <2> QED
    BY <2>1, <2>2
<1> QED
  BY <1>1, <1>2, <1>3, BooksStep

\* A step that stays at a payload and leaves the runs alone keeps the books when it counts
\* what it does: m orders made, s successes and f failures.
LEMMA PayloadBooks ==
    ASSUME IInv, BooksInv, NEW i \in Imports, InLoop(i), NEW pc \in {"map", "create", "log", "caught"},
           NEW code, NEW s \in {0, 1}, NEW f \in {0, 1}, NEW m \in {0, 1}, NEW d \in {0, 1},
           imp'[i].pc = pc, imp'[i].at = imp[i].at,
           imp'[i].success = imp[i].success + s, imp'[i].failed = imp[i].failed + f,
           \A j \in Imports \ {i} : imp'[j] = imp[j] /\ Made(j)' = Made(j) /\ run'[j] = run[j],
           run'[i].kind = run[i].kind, run'[i].status = run[i].status,
           run'[i].batch = run[i].batch,
           synced' = synced, orders \subseteq orders',
           IsFiniteSet(Made(i)'), Cardinality(Made(i)') = Cardinality(Made(i)) + m,
           Counted(i)' = Counted(i) + d, Covered(i, imp[i].at - 1)',
           s <= m, m <= s + f, d <= s + f, Faults \/ (s = m /\ s + f = d)
    PROVE  BooksInv'
<1>1. TypeOK /\ Books(i) /\ Busy(i) /\ imp[i].at \in Nat
  BY DEF IInv, BooksInv, Busy, TypeOK, Call
<1>2. Tally(i)'
  <2>1. IsFiniteSet(Made(i)) /\ Tally(i)
    BY <1>1 DEF Books
  <2> QED
    BY <1>1, <2>1, TallyStep
<1>3. RowInv(i)' /\ ~Ended(i)'
  BY <1>1 DEF Books, RowInv, Busy, InLoop, Ended
<1>4. Books(i)'
  BY <1>2, <1>3 DEF Books
<1>5. Frame(i) /\ imp[i].pc # "done"
  BY DEF Frame, InLoop
<1> QED
  BY <1>4, <1>5, BooksStep

\* A step that changes no table counts a payload exactly when it is through with it.
LEMMA ReadBooks ==
    ASSUME IInv, BooksInv, NEW i \in Imports, InLoop(i), UNCHANGED tables,
           NEW pc \in {"map", "create", "log", "caught"}, NEW at, NEW found, NEW code,
           NEW f \in {0, 1}, Locals(i, pc, at, found, code, 0, f), at = imp[i].at,
           pc \in {"log", "caught"} => f = 1 /\ (Faults \/ imp[i].pc \notin {"log", "caught"}),
           pc \notin {"log", "caught"} => f = 0 /\ imp[i].pc \notin {"log", "caught"}
    PROVE  BooksInv'
<1> DEFINE zero == 0
           d == IF pc \in {"log", "caught"} /\ imp[i].pc \notin {"log", "caught"} THEN 1 ELSE 0
<1>1. TypeOK /\ Books(i) /\ Busy(i) /\ imp[i].at \in Nat
  BY DEF IInv, BooksInv, Busy, TypeOK, Call
<1>2. /\ imp'[i].pc = pc /\ imp'[i].at = imp[i].at
      /\ imp'[i].success = imp[i].success + zero /\ imp'[i].failed = imp[i].failed + f
      /\ \A j \in Imports \ {i} : imp'[j] = imp[j]
  BY <1>1, LocalsShape
<1>3. /\ \A j \in Imports : Made(j)' = Made(j)
      /\ run' = run /\ synced' = synced /\ orders \subseteq orders'
  BY DEF tables, Made
<1>4. IsFiniteSet(Made(i)) /\ Cardinality(Made(i)) \in Nat
  BY <1>1, FS_CardinalityType DEF Books
<1>5. IsFiniteSet(Made(i)') /\ Cardinality(Made(i)') = Cardinality(Made(i)) + zero
  BY <1>3, <1>4
<1>6. Covered(i, imp[i].at - 1)'
  BY <1>1, <1>2, <1>3 DEF Books, Covered, Passed, Rows
<1>7. Counted(i)' = Counted(i) + d /\ d \in {0, 1} /\ d <= f /\ (Faults \/ f = d)
  BY <1>1, <1>2 DEF Counted
<1>8. zero \in {0, 1} /\ zero <= zero /\ zero <= zero + f /\ d <= zero + f
      /\ (Faults \/ (zero = zero /\ zero + f = d))
  BY <1>7
<1> HIDE DEF zero, d
<1> QED
  BY <1>2, <1>3, <1>5, <1>6, <1>7, <1>8, PayloadBooks

\* The steps that look something up, and an exception in the try block.
LEMMA LookupBooks ==
    ASSUME IInv, BooksInv, NEW i \in Imports, InLoop(i), UNCHANGED tables,
           \/ FindDuplicate(i) \/ ResolveSkus(i) \/ Fail(i)
           \/ imp[i].pc = "create" /\ Throw(i)
    PROVE  BooksInv'
<1> DEFINE at == imp[i].at
<1>1. at = imp[i].at
  OBVIOUS
<1>2. ASSUME Go(i, "log", "DUPLICATE_ORDER", 0, 1) \/ Go(i, "log", "UNMAPPED_SKU", 0, 1),
             imp[i].pc \in {"check", "map"}
      PROVE  BooksInv'
  <2>1. PICK code : Locals(i, "log", at, imp[i].skus, code, 0, 1)
    BY <1>2 DEF Go
  <2> HIDE DEF at
  <2> QED
    BY <1>1, <1>2, <2>1, ReadBooks
<1>3. ASSUME Go(i, "map", "SUCCESS", 0, 0), imp[i].pc = "check"
      PROVE  BooksInv'
  <2>1. Locals(i, "map", at, imp[i].skus, "SUCCESS", 0, 0)
    BY <1>3 DEF Go
  <2> HIDE DEF at
  <2> QED
    BY <1>1, <1>3, <2>1, ReadBooks
<1>4. ASSUME NEW found, Locals(i, "create", at, found, "SUCCESS", 0, 0), imp[i].pc = "map"
      PROVE  BooksInv'
  <2> HIDE DEF at
  <2> QED
    BY <1>1, <1>4, ReadBooks
<1>5. ASSUME Throw(i), Faults \/ imp[i].pc = "create"
      PROVE  BooksInv'
  <2>1. Locals(i, "caught", at, imp[i].skus, "IMPORT_ERROR", 0, 1)
    BY <1>5 DEF Throw, Go
  <2> HIDE DEF at
  <2> QED
    BY <1>1, <1>5, <2>1, ReadBooks
<1>6. CASE FindDuplicate(i)
  BY <1>2, <1>3, <1>6 DEF FindDuplicate
<1>7. CASE ResolveSkus(i)
  <2> DEFINE c == run[i].conn  names == Current(i).skus
  <2>1. CASE Unresolved(c, names) # {}
    BY <1>2, <1>7, <2>1 DEF ResolveSkus
  <2>2. CASE ~(Unresolved(c, names) # {})
    <3>1. Locals(i, "create", at, Resolved(c, names), "SUCCESS", 0, 0) /\ imp[i].pc = "map"
      BY <1>7, <2>2 DEF ResolveSkus
    <3> HIDE DEF at
    <3> QED
      BY <1>4, <3>1
  <2> QED
    BY <2>1, <2>2
<1>8. CASE Fail(i)
  BY <1>5, <1>8 DEF Fail
<1> QED
  BY <1>5, <1>6, <1>7, <1>8

\* An order that is let in is one more of its run; the call counts it as a success, or as
\* a failure when it never learns of it.
LEMMA InsertBooks ==
    ASSUME IInv, BooksInv, NEW i \in Imports, imp[i].pc = "create", Accepts(NewOrder(i)),
           orders' = orders \cup {NewOrder(i)}, UNCHANGED <<run, synced>>,
           NEW pc \in {"log", "caught"}, NEW code, NEW s \in {0, 1}, NEW f \in {0, 1},
           Go(i, pc, code, s, f), s + f = 1, Faults \/ s = 1
    PROVE  BooksInv'
<1> DEFINE one == 1
           o == NewOrder(i)
<1>1. TypeOK /\ Books(i) /\ InLoop(i) /\ imp[i].at \in Nat
  BY DEF IInv, BooksInv, InLoop, TypeOK, Call
<1>2. /\ imp'[i].pc = pc /\ imp'[i].at = imp[i].at
      /\ imp'[i].success = imp[i].success + s /\ imp'[i].failed = imp[i].failed + f
      /\ \A j \in Imports \ {i} : imp'[j] = imp[j]
  BY <1>1, GoShape
<1>3. o.run = i
  BY DEF NewOrder
<1>4. o \notin orders
  BY DEF Accepts
<1>5. /\ \A j \in Imports \ {i} : Made(j)' = Made(j)
      /\ Made(i)' = Made(i) \cup {o} /\ o \notin Made(i)
  <2> HIDE DEF o
  <2>1. orders' = orders \cup {o}
    BY DEF o
  <2> QED
    BY <1>3, <1>4, <2>1 DEF Made
<1>6. IsFiniteSet(Made(i)') /\ Cardinality(Made(i)') = Cardinality(Made(i)) + one
  <2> HIDE DEF o
  <2> QED
    BY <1>1, <1>5, FS_AddElement DEF Books
<1>7. Counted(i)' = Counted(i) + one
  BY <1>1, <1>2 DEF Counted
<1>8. Covered(i, imp[i].at - 1)'
  BY <1>1, <1>2 DEF Books, Busy, Covered, Passed, Rows
<1>9. /\ one \in {0, 1} /\ s <= one /\ one <= s + f
      /\ (Faults \/ (s = one /\ s + f = one))
  OBVIOUS
<1>10. orders \subseteq orders' /\ synced' = synced /\ run' = run
  OBVIOUS
<1> HIDE DEF one, o
<1> QED
  BY ZenonT(60), <1>1, <1>2, <1>5, <1>6, <1>7, <1>8, <1>9, <1>10, PayloadBooks

\* Logged changes the row of the run only, and of it only the log rows.
LEMMA LoggedShape ==
    ASSUME TypeOK, NEW i \in Imports, Logged(i)
    PROVE  /\ run'[i].kind = run[i].kind /\ run'[i].conn = run[i].conn
           /\ run'[i].batch = run[i].batch /\ run'[i].status = run[i].status
           /\ run'[i].success = run[i].success /\ run'[i].failed = run[i].failed
           /\ \A j \in Imports \ {i} : run'[j] = run[j]
BY DEF Logged, SetRun, TypeOK

\* Writing the row of a payload keeps the books, and closes them over that payload.
LEMMA WriteLogBooks ==
    ASSUME IInv, BooksInv, NEW i \in Imports, WriteLog(i)
    PROVE  BooksInv'
<1> DEFINE pc == IF imp[i].at < Len(run[i].batch) THEN "check" ELSE "finish"
           at == imp[i].at + 1
           none == {}
<1>1. /\ TypeOK /\ Books(i) /\ InLoop(i) /\ Placed(i) /\ imp[i].pc \in {"log", "caught"}
      /\ Logged(i) /\ Locals(i, pc, at, none, "SUCCESS", 0, 0) /\ UNCHANGED <<orders, synced>>
  BY DEF IInv, BooksInv, InLoop, WriteLog, NextPayload
<1>2. /\ run[i].batch \in Seq(Payload) /\ imp[i].at \in 1 .. Len(run[i].batch)
  BY <1>1, ImportAssumption DEF Placed
<1>3. /\ imp[i].at \in Nat /\ at = imp[i].at + 1 /\ pc \in {"check", "finish"}
      /\ pc = "finish" => at = Len(run[i].batch) + 1
  BY <1>2
<1>4. imp[i].success \in Nat /\ imp[i].failed \in Nat
  BY <1>1 DEF TypeOK, Call
<1> HIDE DEF pc, at, none
<1>5. /\ imp'[i].pc = pc /\ imp'[i].at = at
      /\ imp'[i].success = imp[i].success + 0 /\ imp'[i].failed = imp[i].failed + 0
      /\ \A j \in Imports \ {i} : imp'[j] = imp[j]
  BY <1>1, LocalsShape
<1>6. \A j \in Imports : Made(j)' = Made(j)
  BY <1>1 DEF Made
<1>7. Counted(i)' = Counted(i)
  BY <1>1, <1>3, <1>5 DEF Counted
<1>8. Tally(i)'
  BY <1>1, <1>4, <1>5, <1>6, <1>7 DEF Books, Busy, Tally
<1>9. /\ run'[i].kind = run[i].kind /\ run'[i].batch = run[i].batch
      /\ run'[i].status = run[i].status
      /\ \A j \in Imports \ {i} : run'[j] = run[j]
  BY <1>1, LoggedShape
<1>10. Covered(i, imp[i].at - 1)'
  <2>1. Covered(i, imp[i].at - 1)
    BY <1>1 DEF Books, Busy
  <2>2. \A e \in Externals : Cardinality(Passed(i, e, imp[i].at)) <= Cardinality(Rows(i, e)')
    BY <1>1, <2>1, RowWritten
  <2>3. imp'[i].at - 1 = imp[i].at
    BY <1>3, <1>5
  <2> QED
    BY <1>9, <2>2, <2>3 DEF Covered, Passed
<1>11. RowInv(i)' /\ ~Ended(i)'
  BY <1>1, <1>3, <1>5, <1>9 DEF Books, RowInv, Busy, InLoop, Ended
<1>12. Books(i)'
  BY <1>1, <1>6, <1>8, <1>10, <1>11 DEF Books
<1>13. Frame(i) /\ imp[i].pc # "done" /\ synced' = synced
  BY <1>1, <1>5, <1>9 DEF Frame
<1> QED
  BY <1>6, <1>12, <1>13, BooksStep

\* A statement that took effect without an answer is counted as a failure on top.
LEMMA LoseAnswerBooks ==
    ASSUME IInv, BooksInv, NEW i \in Imports, LoseAnswer(i)
    PROVE  BooksInv'
<1>1. Faults /\ Go(i, "caught", "IMPORT_ERROR", 0, 1) /\ synced' = synced
  BY DEF LoseAnswer, Throw
<1>2. CASE /\ imp[i].pc = "create" /\ Accepts(NewOrder(i))
           /\ orders' = orders \cup {NewOrder(i)} /\ UNCHANGED run
  BY <1>1, <1>2, InsertBooks
<1>3. CASE imp[i].pc = "log" /\ Logged(i) /\ UNCHANGED orders
  <2> DEFINE zero == 0
             one == 1
  <2>1. TypeOK /\ Books(i) /\ InLoop(i) /\ imp[i].at \in Nat
    BY <1>3 DEF IInv, BooksInv, InLoop, TypeOK, Call
  <2>2. /\ imp'[i].pc = "caught" /\ imp'[i].at = imp[i].at
        /\ imp'[i].success = imp[i].success + zero /\ imp'[i].failed = imp[i].failed + one
        /\ \A j \in Imports \ {i} : imp'[j] = imp[j]
    BY <1>1, <2>1, GoShape
  <2>3. \A j \in Imports : Made(j)' = Made(j)
    BY <1>3 DEF Made
  <2>4. IsFiniteSet(Made(i)) /\ Cardinality(Made(i)) \in Nat
    BY <2>1, FS_CardinalityType DEF Books
  <2>5. IsFiniteSet(Made(i)') /\ Cardinality(Made(i)') = Cardinality(Made(i)) + zero
    BY <2>3, <2>4
  <2>6. /\ run'[i].kind = run[i].kind /\ run'[i].batch = run[i].batch
        /\ run'[i].status = run[i].status
        /\ \A j \in Imports \ {i} : run'[j] = run[j]
    BY <1>3, <2>1, LoggedShape
  <2>7. Covered(i, imp[i].at - 1)'
    <3>1. Covered(i, imp[i].at - 1)
      BY <2>1 DEF Books, Busy
    <3>2. \A e \in Externals :
             Cardinality(Passed(i, e, imp[i].at - 1)) <= Cardinality(Rows(i, e)')
      BY <1>3, <2>1, <3>1, RowWritten
    <3> QED
      BY <2>2, <2>6, <3>2 DEF Covered, Passed
  <2>8. Counted(i)' = Counted(i) + zero
    BY <1>3, <2>1, <2>2 DEF Counted
  <2>9. /\ zero \in {0, 1} /\ one \in {0, 1} /\ zero <= zero /\ zero <= zero + one
        /\ (Faults \/ (zero = zero /\ zero + one = zero)) /\ orders \subseteq orders'
    BY <1>1, <1>3
  <2> HIDE DEF zero, one
  <2> QED
    BY <1>1, <2>1, <2>2, <2>3, <2>5, <2>6, <2>7, <2>8, <2>9, PayloadBooks
<1> QED
  BY <1>2, <1>3 DEF LoseAnswer

\* At the end of the loop the local counters are those of the whole batch, and Finish
\* writes them down.
LEMMA FinishBooks ==
    ASSUME IInv, BooksInv, NEW i \in Imports, Finish(i)
    PROVE  BooksInv'
<1> DEFINE st == IF imp[i].failed > 0 /\ imp[i].success = 0 THEN "FAILED" ELSE "COMPLETED"
<1>1. /\ TypeOK /\ Books(i) /\ Busy(i) /\ imp[i].pc = "finish"
      /\ Go(i, "touch", "SUCCESS", 0, 0) /\ UNCHANGED <<orders, synced>>
      /\ SetRun(i, st, imp[i].success, imp[i].failed, run[i].logs)
  BY DEF IInv, BooksInv, Busy, Finish
<1>2. PICK s \in Nat, f \in Nat, n \in Nat :
         s = imp[i].success /\ f = imp[i].failed /\ n = Len(run[i].batch)
  <2>1. imp[i].success \in Nat /\ imp[i].failed \in Nat
    BY <1>1 DEF TypeOK, Call
  <2>2. run[i].batch \in Seq(Payload)
    BY <1>1, ImportAssumption DEF Books, RowInv
  <2> QED
    BY <2>1, <2>2
<1>3. n >= 1
  <2>1. run[i].batch \in Seq(Payload) /\ run[i].batch # <<>>
    BY <1>1, ImportAssumption DEF Books, RowInv
  <2> QED
    BY <1>2, <2>1
<1>4. imp[i].at = n + 1
  BY <1>1, <1>2 DEF Books, RowInv
<1>5. /\ imp'[i].pc = "touch" /\ \A j \in Imports \ {i} : imp'[j] = imp[j]
  BY <1>1, GoShape
<1>6. /\ run'[i].kind = run[i].kind /\ run'[i].batch = run[i].batch /\ run'[i].status = st
      /\ run'[i].success = s /\ run'[i].failed = f /\ run'[i].logs = run[i].logs
      /\ \A j \in Imports \ {i} : run'[j] = run[j]
  BY <1>1, <1>2 DEF SetRun, TypeOK
<1>7. \A j \in Imports : Made(j)' = Made(j)
  BY <1>1 DEF Made
<1>8. PICK k \in Nat : k = Cardinality(Made(i))
  BY <1>1, FS_CardinalityType DEF Books
<1>9. s <= k /\ k <= s + f /\ n <= s + f /\ (~Faults => s = k /\ s + f = n)
  <2>1. Counted(i) = n
    BY <1>1, <1>4 DEF Counted
  <2> QED
    BY <1>1, <1>2, <1>8, <2>1 DEF Books, Tally
<1>10. st = "FAILED" <=> s = 0
  <2>1. s = 0 => f > 0
    BY <1>3, <1>9
  <2>2. st = IF f > 0 /\ s = 0 THEN "FAILED" ELSE "COMPLETED"
    BY <1>2
  <2> QED
    BY <2>1, <2>2
<1>11. st # "RUNNING"
  OBVIOUS
<1> HIDE DEF st
<1>12. AddsUp(i)'
  <2>1. Cardinality(Made(i)') = k
    BY <1>7, <1>8
  <2>2. Len(run'[i].batch) = n
    BY <1>2, <1>6
  <2> QED
    BY <1>6, <1>9, <1>10, <2>1, <2>2 DEF AddsUp
<1>13. Covered(i, Len(run[i].batch))'
  <2>1. imp[i].at - 1 = n
    BY <1>4
  <2>2. Covered(i, n)
    BY <1>1, <2>1 DEF Books
  <2>3. Len(run'[i].batch) = n
    BY <1>2, <1>6
  <2> QED
    BY <1>6, <2>2, <2>3 DEF Covered, Passed, Rows
<1>14. RowInv(i)' /\ ~Busy(i)'
  BY <1>5, <1>6, <1>11 DEF RowInv, Busy, InLoop
<1>15. Books(i)'
  BY <1>1, <1>7, <1>12, <1>13, <1>14 DEF Books
<1>16. Frame(i) /\ imp[i].pc # "done" /\ synced' = synced
  BY <1>1, <1>5, <1>6 DEF Frame
<1> QED
  BY <1>7, <1>15, <1>16, BooksStep

\* A call that marks its connection, or stops, leaves its run as it is.
LEMMA LeaveBooks ==
    ASSUME IInv, BooksInv, NEW i \in Imports, Touch(i) \/ Stop(i)
    PROVE  BooksInv'
<1>1. PICK pc \in {"done", "lost"} :
         /\ Go(i, pc, "SUCCESS", 0, 0) /\ UNCHANGED <<orders, run>>
         /\ pc = "done" => imp[i].pc = "touch"
         /\ imp[i].pc \notin {"idle", "done"}
         /\ \/ synced' = synced
            \/ synced' = [synced EXCEPT ![run[i].conn] = i] /\ pc = "done"
  BY DEF Touch, Stop, tables
<1>2. TypeOK /\ Books(i)
  BY DEF IInv, BooksInv
<1>3. imp'[i].pc = pc /\ \A j \in Imports \ {i} : imp'[j] = imp[j]
  BY <1>1, <1>2, GoShape
<1>4. \A j \in Imports : Made(j)' = Made(j)
  BY <1>1 DEF Made
<1>5. AddsUp(i) => AddsUp(i)'
  BY <1>1, <1>4 DEF AddsUp
<1>6. Covered(i, Len(run[i].batch)) => Covered(i, Len(run[i].batch))'
  BY <1>1 DEF Covered, Passed, Rows
<1>7. RowInv(i)' /\ ~Busy(i)'
  BY <1>1, <1>2, <1>3 DEF Books, RowInv, Busy, InLoop
<1>8. Ended(i)' <=> Ended(i)
  BY <1>1 DEF Ended
<1>9. Books(i)'
  BY <1>2, <1>4, <1>5, <1>6, <1>7, <1>8 DEF Books
<1>10. Frame(i)
  BY <1>1, <1>3 DEF Frame
<1> QED
  BY <1>1, <1>3, <1>4, <1>9, <1>10, BooksStep

\* Nothing is on the books at first.
LEMMA InitBooks == Init => BooksInv
<1> SUFFICES ASSUME Init PROVE BooksInv
  OBVIOUS
<1>1. ASSUME NEW i \in Imports PROVE Books(i)
  <2>1. run[i].kind = "none" /\ imp[i].pc = "idle"
    BY DEF Init, NewRun, NewCall
  <2>2. Made(i) = {}
    BY DEF Init, Made
  <2> QED
    BY <2>1, <2>2, FS_EmptySet DEF Books, RowInv, Busy, InLoop, Ended
<1> QED
  BY <1>1 DEF BooksInv, SyncedByEndedRun, Init

\* Every step keeps the books.
LEMMA NextBooks == IInv /\ BooksInv /\ [Next]_vars => BooksInv'
<1> SUFFICES ASSUME IInv, BooksInv, [Next]_vars PROVE BooksInv'
  OBVIOUS
<1>1. CASE UNCHANGED <<orders, run, synced, imp>>
  <2>1. \A i \in Imports : Made(i)' = Made(i)
    BY <1>1 DEF Made
  <2>2. \A i \in Imports : Books(i)'
    BY <1>1, <2>1, OthersBooks DEF BooksInv
  <2> QED
    BY <1>1, <2>2 DEF BooksInv, SyncedByEndedRun
<1>2. CASE UNCHANGED vars \/ Catalog
  BY <1>1, <1>2 DEF vars, tables, Catalog, MapSku, FindUnused, DeleteSku
<1>3. ASSUME NEW i \in Imports, FindDuplicate(i) \/ ResolveSkus(i) \/ Fail(i)
      PROVE  BooksInv'
  <2>1. InLoop(i) /\ UNCHANGED tables
    BY <1>3 DEF FindDuplicate, ResolveSkus, Fail, InLoop
  <2> QED
    BY <1>3, <2>1, LookupBooks
<1>4. ASSUME NEW i \in Imports, CreateOrder(i) PROVE BooksInv'
  <2>1. imp[i].pc = "create" /\ InLoop(i) /\ UNCHANGED <<run, synced, mapping, skus, unused>>
    BY <1>4 DEF CreateOrder, InLoop, catalog
  <2>2. CASE Accepts(NewOrder(i))
    <3> DEFINE one == 1
               zero == 0
    <3>1. orders' = orders \cup {NewOrder(i)} /\ Go(i, "log", "SUCCESS", one, zero)
      BY <1>4, <2>2 DEF CreateOrder
    <3>2. one \in {0, 1} /\ zero \in {0, 1} /\ one + zero = 1 /\ one = 1
      OBVIOUS
    <3> HIDE DEF one, zero
    <3> QED
      BY <2>1, <2>2, <3>1, <3>2, InsertBooks
  <2>3. CASE ~Accepts(NewOrder(i))
    <3>1. UNCHANGED tables /\ Throw(i)
      BY <1>4, <2>1, <2>3 DEF CreateOrder, tables
    <3> QED
      BY <2>1, <3>1, LookupBooks
  <2> QED
    BY <2>2, <2>3
<1> QED
  BY <1>2, <1>3, <1>4, BeginBooks, WriteLogBooks, FinishBooks, LeaveBooks, LoseAnswerBooks
  DEF Next, Progress

\* IInv and BooksInv together are inductive.
LEMMA BooksInvariance == Spec => []BooksInv
<1>1. Spec => []IInv
  BY ImportInvariance
<1> QED
  BY <1>1, InitBooks, NextBooks, PTL DEF Spec

\* What a run reports when it has ended is true of the orders it made and of its batch,
\* however its statements failed on the way, and exact when none did.
THEOREM RunsReportTruly == Spec => []RunsAddUp
<1>1. BooksInv => RunsAddUp
  BY DEF BooksInv, Books, AddsUp, RunsAddUp
<1> QED
  BY <1>1, BooksInvariance, PTL

\* No payload of a run that has ended went unlogged, whether it was imported, turned away
\* or failed, also when the batch names an external order several times.
THEOREM PayloadsLogged == Spec => []EveryPayloadLogged
<1>1. BooksInv => EveryPayloadLogged
  BY DEF BooksInv, Books, Covered, Passed, Rows, EveryPayloadLogged
<1> QED
  BY <1>1, BooksInvariance, PTL

\* The run a connection's time of synchronisation comes from has ended.
THEOREM SyncedOnlyByEndedRuns == Spec => []SyncedByEndedRun
<1>1. BooksInv => SyncedByEndedRun
  BY DEF BooksInv
<1> QED
  BY <1>1, BooksInvariance, PTL

-----------------------------------------------------------------------------
(***************************************************************************)
(* The lines of an order.  A SKU has at most one name on a connection and  *)
(* a name at most one SKU, so the SKUs a call has found for a payload are  *)
(* as many as the names it looked up.  They are kept in memory until the   *)
(* order is written, while mappings move and SKUs disappear; only the      *)
(* foreign key of OrderItem sees to it that all of them still exist.       *)
(***************************************************************************)
OneNameEach ==
    \A c \in Connections : \A s, t \in Skus :
        mapping[c][s] = mapping[c][t] /\ s # t => mapping[c][s] = None

FoundAll(i) ==
    imp[i].pc = "create" => Cardinality(imp[i].skus) = Cardinality(Current(i).skus)

LinesInv ==
    /\ OneNameEach
    /\ \A i \in Imports : FoundAll(i)
    /\ OrdersAreWhole

\* When every name of a payload is resolved, there is one SKU for each.
LEMMA ResolvedOneEach ==
    ASSUME TypeOK, OneNameEach, NEW c \in Connections, NEW names \in SUBSET ExternalSkus,
           IsFiniteSet(names), Unresolved(c, names) = {}
    PROVE  Cardinality(Resolved(c, names)) = Cardinality(names)
<1> DEFINE found == Resolved(c, names)
           skuOf == [n \in names |-> CHOOSE s \in skus : mapping[c][s] = n]
<1>1. skus \subseteq Skus /\ None \notin names
  BY ImportAssumption DEF TypeOK
<1>2. \A n \in names : skuOf[n] \in skus /\ mapping[c][skuOf[n]] = n
  <2>1. \A n \in names : \E s \in skus : mapping[c][s] = n
    BY DEF Unresolved
  <2> QED
    BY <2>1
<1>3. found = {s \in skus : mapping[c][s] \in names}
  BY DEF Resolved
<1>4. \A n \in names : skuOf[n] \in found
  BY <1>2, <1>3
<1>5. skuOf \in [names -> found]
  <2> HIDE DEF found
  <2> QED
    BY <1>4
<1>6. \A s \in found : mapping[c][s] \in names /\ skuOf[mapping[c][s]] = s
  <2> SUFFICES ASSUME NEW s \in found PROVE mapping[c][s] \in names /\ skuOf[mapping[c][s]] = s
    OBVIOUS
  <2>1. s \in skus /\ mapping[c][s] \in names
    BY <1>3
  <2>2. PICK t \in skus : t = skuOf[mapping[c][s]] /\ mapping[c][t] = mapping[c][s]
    BY <1>2, <2>1
  <2> HIDE DEF skuOf
  <2> QED
    BY <1>1, <2>1, <2>2 DEF OneNameEach
<1> HIDE DEF found, skuOf
<1>7. \A m, n \in names : skuOf[m] = skuOf[n] => m = n
  BY <1>2
<1>8. \A s \in found : \E n \in names : skuOf[n] = s
  BY <1>6
<1>9. skuOf \in Bijection(names, found)
  BY <1>5, <1>7, <1>8 DEF Bijection, Injection, Surjection, IsInjective
<1>10. ExistsBijection(names, found)
  BY <1>9 DEF ExistsBijection
<1> QED
  BY <1>10, FS_Bijection DEF found

\* The names of a payload are finitely many.
LEMMA PayloadNames ==
    ASSUME NEW i \in Imports, InLoop(i), Placed(i)
    PROVE  Current(i).skus \in SUBSET ExternalSkus /\ IsFiniteSet(Current(i).skus)
<1>1. Current(i).skus \in SUBSET ExternalSkus
  BY CurrentPayload DEF Payload
<1>2. IsFiniteSet(Current(i).skus)
  BY ImportAssumption DEF Placed, Current
<1> QED
  BY <1>1, <1>2

\* A step that leaves orders and catalogue alone, takes no call to the creation of an
\* order and keeps the batches of the runs that have orders keeps the lines.
LEMMA LinesKept ==
    ASSUME IInv, LinesInv, UNCHANGED <<orders, mapping, skus>>,
           \A j \in Imports : imp'[j].pc = "create" =>
               imp'[j] = imp[j] /\ run'[j] = run[j],
           \A o \in orders : run'[o.run].batch = run[o.run].batch
    PROVE  LinesInv'
<1>1. OneNameEach'
  BY DEF LinesInv, OneNameEach
<1>2. \A i \in Imports : FoundAll(i)'
  BY DEF LinesInv, FoundAll, Current
<1>3. OrdersAreWhole'
  BY DEF LinesInv, OrdersAreWhole
<1> QED
  BY <1>1, <1>2, <1>3 DEF LinesInv

\* A step of one call that leaves orders and catalogue alone and takes the call somewhere
\* else than to the creation of an order.
LEMMA ElsewhereLines ==
    ASSUME IInv, LinesInv, NEW i \in Imports, UNCHANGED <<orders, mapping, skus>>,
           \A j \in Imports \ {i} : imp'[j] = imp[j] /\ run'[j] = run[j],
           imp'[i].pc # "create",
           run'[i].batch = run[i].batch \/ Made(i) = {}
    PROVE  LinesInv'
<1>1. \A o \in orders : run'[o.run].batch = run[o.run].batch
  BY DEF Made, IInv, TypeOK, Order
<1>2. \A j \in Imports : imp'[j].pc = "create" => imp'[j] = imp[j] /\ run'[j] = run[j]
  OBVIOUS
<1> QED
  BY <1>1, <1>2, LinesKept

\* An order that is written has the lines its call has found, all about existing SKUs.
LEMMA InsertLines ==
    ASSUME IInv, LinesInv, NEW i \in Imports, imp[i].pc = "create", Accepts(NewOrder(i)),
           orders' = orders \cup {NewOrder(i)}, UNCHANGED <<run, mapping, skus>>,
           imp'[i].pc # "create", \A j \in Imports \ {i} : imp'[j] = imp[j]
    PROVE  LinesInv'
<1>1. PICK o : o = NewOrder(i)
  OBVIOUS
<1>2. o.skus = imp[i].skus /\ o.run = i /\ o.at = imp[i].at
  BY <1>1 DEF NewOrder
<1>3. o.skus \subseteq skus
  BY <1>1 DEF Accepts
<1>4. Cardinality(o.skus) = Cardinality(run[o.run].batch[o.at].skus)
  BY <1>2 DEF LinesInv, FoundAll, Current
<1>5. orders' = orders \cup {o}
  BY <1>1
<1>6. OrdersAreWhole'
  BY <1>3, <1>4, <1>5 DEF LinesInv, OrdersAreWhole
<1>7. OneNameEach' /\ \A j \in Imports : FoundAll(j)'
  BY DEF LinesInv, OneNameEach, FoundAll, Current
<1> QED
  BY <1>6, <1>7 DEF LinesInv

\* The step that resolves the names of a payload finds one SKU for each, or none of them
\* is used.
LEMMA ResolveLines ==
    ASSUME IInv, LinesInv, NEW i \in Imports, ResolveSkus(i)
    PROVE  LinesInv'
<1> DEFINE c == run[i].conn  names == Current(i).skus
<1>1. /\ TypeOK /\ InLoop(i) /\ Placed(i) /\ UNCHANGED <<orders, mapping, skus, run>>
      /\ imp[i].pc # "idle"
  BY DEF IInv, ResolveSkus, InLoop, tables
<1>2. CASE Unresolved(c, names) # {}
  <2>1. Go(i, "log", "UNMAPPED_SKU", 0, 1)
    BY <1>2 DEF ResolveSkus
  <2>2. imp'[i].pc = "log" /\ \A j \in Imports \ {i} : imp'[j] = imp[j]
    BY <1>1, <2>1, GoShape
  <2> QED
    BY <1>1, <2>2, ElsewhereLines
<1>3. CASE ~(Unresolved(c, names) # {})
  <2>1. Locals(i, "create", imp[i].at, Resolved(c, names), "SUCCESS", 0, 0)
    BY <1>3 DEF ResolveSkus
  <2>2. /\ imp'[i].at = imp[i].at /\ imp'[i].skus = Resolved(c, names)
        /\ \A j \in Imports \ {i} : imp'[j] = imp[j]
    BY <1>1, <2>1, LocalsShape
  <2>3. c \in Connections /\ names \in SUBSET ExternalSkus /\ IsFiniteSet(names)
    BY <1>1, PayloadNames DEF Placed
  <2>4. Cardinality(Resolved(c, names)) = Cardinality(names)
    <3>1. Unresolved(c, names) = {} /\ OneNameEach
      BY <1>3 DEF LinesInv
    <3> HIDE DEF c, names
    <3> QED
      BY <1>1, <2>3, <3>1, ResolvedOneEach
  <2>5. FoundAll(i)'
    BY <1>1, <2>2, <2>4 DEF FoundAll, Current
  <2>6. \A j \in Imports : FoundAll(j)'
    BY <1>1, <2>2, <2>5 DEF LinesInv, FoundAll, Current
  <2>7. OneNameEach' /\ OrdersAreWhole'
    BY <1>1 DEF LinesInv, OneNameEach, OrdersAreWhole
  <2> QED
    BY <2>6, <2>7 DEF LinesInv
<1> QED
  BY <1>2, <1>3

\* Mappings and SKUs change under the calls and never under an order.
LEMMA CatalogLines ==
    ASSUME IInv, LinesInv, Catalog
    PROVE  LinesInv'
<1>1. UNCHANGED <<orders, run, synced, imp>> /\ TypeOK /\ OneNameEach
  BY DEF Catalog, MapSku, FindUnused, DeleteSku, IInv, LinesInv
<1>2. \A i \in Imports : FoundAll(i)'
  BY <1>1 DEF LinesInv, FoundAll, Current
<1>3. CASE \E m \in Remaps : MapSku(m[1], m[2], m[3])
  <2>1. PICK c \in Connections, s \in Skus, x \in ExternalSkus : MapSku(c, s, x)
    BY <1>3, ImportAssumption
  <2>2. /\ mapping' = [mapping EXCEPT ![c][s] = x] /\ skus' = skus
        /\ \A t \in Skus \ {s} : mapping[c][t] # x
    BY <2>1 DEF MapSku
  <2>3. \A d \in Connections, t \in Skus :
           mapping'[d][t] = IF d = c /\ t = s THEN x ELSE mapping[d][t]
    BY <1>1, <2>2 DEF TypeOK
  <2>4. OneNameEach'
    BY <1>1, <2>2, <2>3 DEF OneNameEach
  <2>5. OrdersAreWhole'
    BY <1>1, <2>2 DEF LinesInv, OrdersAreWhole
  <2> QED
    BY <1>2, <2>4, <2>5 DEF LinesInv
<1>4. ASSUME NEW s \in Deletable, FindUnused(s) \/ DeleteSku(s)
      PROVE  LinesInv'
  <2>1. /\ skus' = skus \/ (skus' = skus \ {s} /\ ~InOrders(s))
        /\ \/ mapping' = mapping
           \/ mapping' = [c \in Connections |-> [mapping[c] EXCEPT ![s] = None]]
    BY <1>4 DEF FindUnused, DeleteSku
  <2>2. \A d \in Connections, t \in Skus :
           mapping'[d][t] = mapping[d][t] \/ (mapping'[d][t] = None /\ t = s)
    BY <1>1, <2>1 DEF TypeOK
  <2>3. s \in Skus
    BY ImportAssumption
  <2>4. OneNameEach'
    BY <1>1, <2>2, <2>3 DEF OneNameEach
  <2>5. OrdersAreWhole'
    BY <1>1, <2>1 DEF LinesInv, OrdersAreWhole, InOrders
  <2> QED
    BY <1>2, <2>4, <2>5 DEF LinesInv
<1> QED
  BY <1>3, <1>4 DEF Catalog

\* At first there are no orders, and the mappings are one to one.
LEMMA InitLines == Init => LinesInv
<1> SUFFICES ASSUME Init PROVE LinesInv
  OBVIOUS
<1>1. OneNameEach
  BY ImportAssumption DEF Init, OneNameEach
<1>2. \A i \in Imports : FoundAll(i)
  BY DEF Init, FoundAll, NewCall
<1>3. OrdersAreWhole
  BY DEF Init, OrdersAreWhole
<1> QED
  BY <1>1, <1>2, <1>3 DEF LinesInv

\* Every step keeps the lines.  That a run which begins has no orders yet comes from the
\* books.
LEMMA NextLines == IInv /\ BooksInv /\ LinesInv /\ [Next]_vars => LinesInv'
<1> SUFFICES ASSUME IInv, BooksInv, LinesInv, [Next]_vars PROVE LinesInv'
  OBVIOUS
<1>1. TypeOK
  BY DEF IInv
<1>2. CASE UNCHANGED vars
  BY <1>2 DEF vars, tables, LinesInv, OneNameEach, FoundAll, Current, OrdersAreWhole
<1>3. ASSUME NEW i \in Imports, Start(i) \/ RecordEvent(i) PROVE LinesInv'
  <2>1. Made(i) = {}
    BY <1>3 DEF BooksInv, Books, RowInv, Start, RecordEvent
  <2>2. PICK pc \in {"check", "touch"} :
           /\ imp' = [imp EXCEPT ![i] = NewCall(pc)]
           /\ \E new : run' = [run EXCEPT ![i] = new]
    BY <1>3 DEF Start, RecordEvent
  <2>3. /\ imp'[i].pc = pc
        /\ \A j \in Imports \ {i} : imp'[j] = imp[j] /\ run'[j] = run[j]
    BY <1>1, <2>2 DEF TypeOK, NewCall
  <2>4. UNCHANGED <<orders, mapping, skus>>
    BY <1>3 DEF Start, RecordEvent, catalog
  <2> QED
    BY <2>1, <2>3, <2>4, ElsewhereLines
<1>4. ASSUME NEW i \in Imports,
             FindDuplicate(i) \/ WriteLog(i) \/ Finish(i) \/ Touch(i) \/ Fail(i) \/ Stop(i)
      PROVE  LinesInv'
  <2>1. UNCHANGED <<orders, mapping, skus>>
    BY <1>4 DEF FindDuplicate, WriteLog, Finish, Touch, Fail, Stop, tables, catalog
  <2>2. run'[i].batch = run[i].batch /\ \A j \in Imports \ {i} : run'[j] = run[j]
    BY <1>1, <1>4 DEF FindDuplicate, WriteLog, Logged, SetRun, Finish, Touch, Fail, Stop,
                      tables, TypeOK
  <2>3. PICK pc \in {"check", "map", "log", "caught", "finish", "touch", "done", "lost"} :
           \E at, found, code, s, f : Locals(i, pc, at, found, code, s, f)
    BY <1>4 DEF FindDuplicate, WriteLog, NextPayload, Finish, Touch, Fail, Throw, Stop, Go
  <2>4. imp'[i].pc = pc /\ \A j \in Imports \ {i} : imp'[j] = imp[j]
    BY <1>1, <2>3, LocalsShape
  <2> QED
    BY <2>1, <2>2, <2>4, ElsewhereLines
<1>5. ASSUME NEW i \in Imports, CreateOrder(i) \/ LoseAnswer(i) PROVE LinesInv'
  <2>1. UNCHANGED <<mapping, skus>>
    BY <1>5 DEF CreateOrder, LoseAnswer, catalog
  <2>2. PICK pc \in {"log", "caught"} : \E code, s, f : Go(i, pc, code, s, f)
    BY <1>5 DEF CreateOrder, LoseAnswer, Throw
  <2>3. imp'[i].pc = pc /\ \A j \in Imports \ {i} : imp'[j] = imp[j]
    BY <1>1, <2>2, GoShape
  <2>4. CASE /\ imp[i].pc = "create" /\ Accepts(NewOrder(i))
             /\ orders' = orders \cup {NewOrder(i)} /\ UNCHANGED run
    BY <2>1, <2>3, <2>4, InsertLines
  <2>5. CASE UNCHANGED orders /\ (run' = run \/ Logged(i))
    <3>1. run'[i].batch = run[i].batch /\ \A j \in Imports \ {i} : run'[j] = run[j]
      BY <1>1, <2>5, LoggedShape
    <3> QED
      BY <2>1, <2>3, <2>5, <3>1, ElsewhereLines
  <2> QED
    BY <1>5, <2>4, <2>5 DEF CreateOrder, LoseAnswer
<1> QED
  BY <1>2, <1>3, <1>4, <1>5, ResolveLines, CatalogLines DEF Next, Progress

\* Every imported order has a line for every name of its payload and every line a SKU that
\* exists, although the SKUs were looked up in an earlier statement than the one that
\* writes the order, and mappings move and SKUs are deleted at any time.
THEOREM ImportedWhole == Spec => []OrdersAreWhole
<1>1. Spec => []IInv
  BY ImportInvariance
<1>2. Spec => []BooksInv
  BY BooksInvariance
<1>3. Spec => []LinesInv
  BY <1>1, <1>2, InitLines, NextLines, PTL DEF Spec
<1>4. LinesInv => OrdersAreWhole
  BY DEF LinesInv
<1> QED
  BY <1>3, <1>4, PTL
=============================================================================
