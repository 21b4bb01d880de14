------------------------------ MODULE TestForm ------------------------------
(***************************************************************************)
(* One row of the scenario editor: the form of a test step (TestConfigForm *)
(* with its draft fields), the retry policy it edits, and what the runner  *)
(* is told to assert.  The scenario keeps the step in `stored'; the form   *)
(* edits its own list `local', which an effect resets to <<stored>>        *)
(* whenever the row is drawn again.                                        *)
(*                                                                         *)
(* Of a step's configuration the model keeps what the form decides on: its *)
(* operation, the services it names, what it expects, the retry policy and *)
(* a delay's duration.  Everything else a request consists of (path, body, *)
(* key, topic, credentials) is `detail'.                                   *)
(***************************************************************************)
EXTENDS Integers, Sequences, FiniteSets

CONSTANTS
    None,       \* an absent value, JavaScript's undefined
    Types,      \* the kinds of step the author uses, of the DOMAIN of Operations
    Remote,     \* whether hydrations bring another browser's version
    Typed,      \* the numbers an author types into a number field
    MaxSteps    \* how many step ids are generated

VARIABLES
    stored,     \* the step as the scenario store has it
    local,      \* localTests of the form
    draft,      \* the draft of the number or JSON field on display
    unit,       \* delayUnits[test.id]
    present,    \* names of the services of the graph
    asserted,   \* history: the request the author confirmed as idempotent
    made        \* step ids generated so far

formVars == <<stored, local, draft, unit, present, asserted, made>>

-----------------------------------------------------------------------------
(* The kinds of step *)

Services == {"app", "store"}

\* The operations of each kind that the form or the retry policy tells apart;
\* a query and a command are texts, of which two stand for all.
Operations ==
    [http     |-> {"GET", "POST"},
     database |-> {"query1", "query2"},
     document |-> {"insert_one", "find_one", "count_documents", "exists"},
     shell    |-> {"command1", "command2"},
     cache    |-> {"ping", "set", "exists"},
     queue    |-> {"list_topics", "produce", "consume", "check_topic"},
     delay    |-> {"wait"}]

Expectations == {"status", "count", "exists", "exit", "found", "result"}

\* Rows exist, single value, value list, structured.
ResultModes == 1..4

\* Kinds of step whose configuration names a service of its own.
OwnService == {"document", "cache", "queue"}

IsAutomaticallyRetrySafe(test) ==
    CASE test.type = "http"     -> test.op \in {"GET", "HEAD", "OPTIONS"}
      [] test.type = "document" -> test.op \in {"find_one", "find_many", "count_documents", "exists"}
      [] test.type = "cache"    -> test.op \in {"ping", "get", "exists"}
      [] test.type = "queue"    -> test.op \in {"check_topic", "list_topics"}
      [] OTHER                  -> FALSE

RetryOperationSignature(test) == <<test.type, test.op>>

HasExplicitIdempotencyRetry(test) == test.mode # "never" /\ test.confirmed

\* Mutant: the confirmation survives a change of the operation.
KeepConfirmation(previous, next) == next

ClearStaleIdempotencyConfirmation(previous, next) ==
    IF ~previous.confirmed \/ RetryOperationSignature(previous) = RetryOperationSignature(next)
    THEN next
    ELSE [next EXCEPT !.mode = IF @ = None THEN previous.mode ELSE @, !.confirmed = FALSE]

GuidedRetryDescription(test) ==
    IF test.type = "delay" THEN "never"
    ELSE IF test.mode = "never" THEN "disabled"
    ELSE IF HasExplicitIdempotencyRetry(test) THEN "confirmed"
    ELSE IF IsAutomaticallyRetrySafe(test) THEN "safe" ELSE "not retried"

\* What the runner does after a transport failure once the operation was sent
\* (runner-v2/pkg/test/retry.go, shouldRetry).
ShouldRetry(test) ==
    /\ test.mode # "never"
    /\ test.type # "delay"
    /\ IsAutomaticallyRetrySafe(test) \/ test.confirmed

-----------------------------------------------------------------------------
(* What is expected of a step: shown by the form, asserted by the run *)

\* The expectations the form displays, by operation.
Displayed(test) ==
    CASE test.type = "http"                                     -> {"status"}
      [] test.type = "shell"                                    -> {"exit"}
      [] test.type = "database"                                 -> {"result"}
      [] test.type = "document" /\ test.op = "find_one"         -> {"found"}
      [] test.type = "document" /\ test.op = "count_documents"  -> {"count"}
      [] test.type = "queue" /\ test.op = "consume"             -> {"count"}
      [] test.type = "document" /\ test.op = "exists"           -> {"exists"}
      [] test.type = "cache" /\ test.op = "exists"              -> {"exists"}
      [] test.type = "queue" /\ test.op = "check_topic"         -> {"exists"}
      [] OTHER                                                  -> {}

\* What a field shows while its value is undefined.  A check box is 1 or 0.
ShownDefault(test, f) ==
    CASE f = "status" -> 200
      [] f = "exit"   -> 0
      [] f = "exists" -> 1
      [] f = "result" -> 1
      [] f = "count"  -> IF test.type = "queue" THEN 1 ELSE 0
      [] f = "found"  -> None

ShownValue(test, f) ==
    IF f = "delay" THEN test.duration
    ELSE IF test.want[f] = None THEN ShownDefault(test, f) ELSE test.want[f]

\* What the run asserts: the configuration built for the test, in which an
\* absent expectation of a document's existence is the executor's "true".
Asserted(test, f) ==
    IF f = "delay" THEN test.duration
    ELSE IF test.want[f] # None THEN test.want[f]
    ELSE CASE f = "status" -> 200
           [] f = "exit"   -> 0
           [] f = "exists" -> IF test.type = "cache" THEN 0 ELSE 1
           [] f = "count"  -> IF test.type = "queue" THEN 1 ELSE None
           [] OTHER        -> None

-----------------------------------------------------------------------------
(* Default steps *)

\* The service a new step of this kind targets: the first that fits, else the
\* first of the fallback services, else none.
FirstService(type, fallback) ==
    LET fit == IF type \in {"http", "shell"} THEN "app" ELSE "store"
    IN  IF fit \in present THEN fit
        ELSE IF fallback # {} THEN CHOOSE s \in fallback : TRUE ELSE None

DefaultOperation ==
    [http |-> "GET", database |-> "query1", document |-> "exists", shell |-> "command1",
     cache |-> "ping", queue |-> "list_topics", delay |-> "wait"]

CreateDefaultTest(type, fallback, id) ==
    LET target == IF type = "delay" THEN None ELSE FirstService(type, fallback)
    IN  [id        |-> id,
         type      |-> type,
         op        |-> DefaultOperation[type],
         detail    |-> 1,
         target    |-> target,
         service   |-> IF type \in OwnService THEN target ELSE None,
         want      |-> [f \in Expectations |->
                          CASE f = "status" /\ type = "http"     -> 200
                            [] f = "exit" /\ type = "shell"      -> 0
                            [] f = "exists" /\ type = "document" -> 1
                            [] f = "result" /\ type = "database" -> 1
                            [] OTHER                             -> None],
         mode      |-> None,
         confirmed |-> FALSE,
         duration  |-> 1000]

WithTypeDefaults(test, type) ==
    [CreateDefaultTest(type, present, test.id) EXCEPT !.mode = test.mode]

WithPrimaryService(test, service) ==
    [test EXCEPT !.target  = service,
                 !.service = IF test.type \in OwnService THEN service ELSE @]

-----------------------------------------------------------------------------
(* Draft fields *)

Unreadable == -1            \* text that is no number, or no JSON
Factor == [ms |-> 1, sec |-> 1000, min |-> 60000]

InferDelayUnit(duration) ==
    IF duration >= 60000 /\ duration % 60000 = 0 THEN "min"
    ELSE IF duration >= 1000 /\ duration % 1000 = 0 THEN "sec" ELSE "ms"

\* The draft field on display; a delay is compared in milliseconds.
DraftField(test) ==
    IF test.type = "delay" THEN "delay"
    ELSE LET f == Displayed(test) \ {"exists", "result"} IN IF f = {} THEN None ELSE CHOOSE x \in f : TRUE

NoDraft == [focused |-> FALSE, text |-> None]

FreshDraft(test) ==
    IF DraftField(test) = None THEN NoDraft
    ELSE [focused |-> FALSE, text |-> ShownValue(test, DraftField(test))]

\* The effect of a draft field: it follows its value unless it has the focus,
\* and it starts anew when another field takes its place.
DraftFollows(old, new) ==
    IF \/ DraftField(new) # DraftField(old)
       \/ new.id # old.id
       \/ /\ ~draft.focused
          /\ DraftField(new) # None
          /\ ShownValue(new, DraftField(new)) # ShownValue(old, DraftField(new))
    THEN FreshDraft(new)
    ELSE draft

-----------------------------------------------------------------------------
(* The form *)

\* updateTests, and onChange of the row that hosts the form: the scenario
\* takes over the first step of the list, when there is one, and the row is
\* drawn again with that step.
UpdateTests(next) ==
    /\ stored' = IF next = <<>> THEN stored ELSE next[1]
    /\ local'  = IF next = <<>> THEN <<>> ELSE <<next[1]>>

\* updateTest: a change of the step on display, made with the focus elsewhere.
UpdateTest(new) ==
    LET next == ClearStaleIdempotencyConfirmation(local[1], new)
    IN  /\ local # <<>>
        /\ UpdateTests(<<next>>)
        /\ draft' = DraftFollows(stored, next)
        /\ unit'  = IF next.type # "delay" THEN None
                    ELSE IF unit = None THEN InferDelayUnit(next.duration) ELSE unit

Unfocused == ~draft.focused

ChangeType(type) ==
    /\ Unfocused /\ local # <<>>
    /\ type # local[1].type
    /\ UpdateTest(WithTypeDefaults(local[1], type))
    /\ UNCHANGED <<present, asserted, made>>

ChangeTarget(service) ==
    /\ Unfocused /\ local # <<>>
    /\ local[1].type # "delay"
    /\ UpdateTest(WithPrimaryService(local[1], service))
    /\ UNCHANGED <<present, asserted, made>>

ChangeRetryMode(mode) ==
    /\ Unfocused /\ local # <<>>
    /\ local[1].type # "delay"
    /\ UpdateTest([local[1] EXCEPT !.mode = mode, !.confirmed = @ /\ mode # "never"])
    /\ UNCHANGED <<present, asserted, made>>

ConfirmIdempotency(checked) ==
    /\ Unfocused /\ local # <<>>
    /\ local[1].type # "delay"
    /\ local[1].mode # "never"
    /\ ~IsAutomaticallyRetrySafe(local[1])
    /\ UpdateTest([local[1] EXCEPT !.mode = "transient", !.confirmed = checked])
    /\ asserted' = IF checked THEN <<local[1].type, local[1].op, local[1].detail>> ELSE None
    /\ UNCHANGED <<present, made>>

\* Choosing a queue operation writes out the defaults the others leave undefined.
WithOperation(test, op) ==
    IF test.type = "queue"
    THEN [test EXCEPT !.op = op,
                      !.want = [@ EXCEPT !["count"]  = IF @ = None THEN 1 ELSE @,
                                         !["exists"] = IF @ = None THEN 1 ELSE @]]
    ELSE [test EXCEPT !.op = op]

\* The select of operations of a kind of step, the text of a query or a command.
Operation(type, op) ==
    /\ Unfocused /\ local # <<>>
    /\ local[1].type = type
    /\ op \in Operations[type] \ {local[1].op}
    /\ UpdateTest(WithOperation(local[1], op))
    /\ UNCHANGED <<present, asserted, made>>

ChangeMethod(op)            == Operation("http", op)
ChangeQuery(op)             == Operation("database", op)
ChangeDocumentOperation(op) == Operation("document", op)
ChangeCommand(op)           == Operation("shell", op)
ChangeCacheOperation(op)    == Operation("cache", op)
ChangeQueueOperation(op)    == Operation("queue", op)

\* Any other field of the request.
Detail(type, d) ==
    /\ Unfocused /\ local # <<>>
    /\ local[1].type = type
    /\ d # local[1].detail
    /\ UpdateTest([local[1] EXCEPT !.detail = d])
    /\ UNCHANGED <<present, asserted, made>>

ChangeRequest(d)    == Detail("http", d)      \* path, port, headers, body
ChangeLogin(d)      == Detail("database", d)  \* driver, database, user, password
ChangeCollection(d) == Detail("document", d)  \* database, collection, document, filter, update
ChangeEnvironment(d) == Detail("shell", d)    \* environment, expected output
ChangeCacheEntry(d) == Detail("cache", d)     \* key, value, time to live, database, password
ChangeMessage(d)    == Detail("queue", d)     \* topic, message, key, partition, timeout

\* An expectation chosen in a select or a check box.
Expect(f, n) ==
    /\ Unfocused /\ local # <<>>
    /\ f \in Displayed(local[1])
    /\ UpdateTest([local[1] EXCEPT !.want = [@ EXCEPT ![f] = n]])
    /\ UNCHANGED <<present, asserted, made>>

ToggleExists(checked) == Expect("exists", checked)
ChangeResultMode(m)   == Expect("result", m)

ChangeUnit(u) ==
    /\ Unfocused /\ local # <<>>
    /\ local[1].type = "delay"
    /\ unit' = u
    /\ draft' = IF u = unit THEN draft ELSE FreshDraft(local[1])
    /\ UNCHANGED <<stored, local, present, asserted, made>>

\* Typing into the draft field.  Only text that resolves is handed on.
TypeDraft(f, text, next) ==
    /\ DraftField(local[1]) = f
    /\ UpdateTests(<<ClearStaleIdempotencyConfirmation(local[1], next)>>)
    /\ draft' = [focused |-> TRUE, text |-> text]
    /\ UNCHANGED <<unit, present, asserted, made>>

TypeExpectation(type, f, n) ==
    /\ local # <<>>
    /\ local[1].type = type
    /\ TypeDraft(f, n, [local[1] EXCEPT !.want = [@ EXCEPT ![f] = n]])

TypeStatus(n)        == TypeExpectation("http", "status", n)
TypeExitCode(n)      == TypeExpectation("shell", "exit", n)
TypeDocumentCount(n) == TypeExpectation("document", "count", n)
TypeDocument(n)      == TypeExpectation("document", "found", n)
TypeMessageCount(n)  == TypeExpectation("queue", "count", n)

\* A delay is stored in milliseconds and is never shorter than 100.
TypeDelay(n) ==
    LET value == n * Factor[unit]
    IN  /\ local # <<>>
        /\ local[1].type = "delay"
        /\ TypeDraft("delay", value,
                     [local[1] EXCEPT !.duration = IF value < 100 THEN 100 ELSE value])

\* Text that does not resolve stays in the draft.  An emptied JSON field is a
\* value, undefined; an emptied number field is incomplete.
TypeUnreadable ==
    /\ local # <<>>
    /\ DraftField(local[1]) # None
    /\ draft' = [focused |-> TRUE, text |-> Unreadable]
    /\ UNCHANGED <<stored, local, unit, present, asserted, made>>

EmptyJson ==
    /\ local # <<>>
    /\ DraftField(local[1]) = "found"
    /\ UpdateTests(<<[local[1] EXCEPT !.want = [@ EXCEPT !["found"] = None]]>>)
    /\ draft' = [focused |-> TRUE, text |-> None]
    /\ UNCHANGED <<unit, present, asserted, made>>

\* Leaving the field: a number that does not resolve gives way to the value,
\* JSON that does not resolve stays with its error message.
Blur ==
    /\ draft.focused
    /\ draft' = [focused |-> FALSE,
                 text    |-> IF draft.text = Unreadable /\ DraftField(stored) # "found"
                             THEN ShownValue(stored, DraftField(stored)) ELSE draft.text]
    /\ UNCHANGED <<stored, local, unit, present, asserted, made>>

\* "Add Test" of the form: the row only takes over the first step.
AddInForm ==
    /\ Unfocused
    /\ made < MaxSteps
    /\ made' = made + 1
    /\ UpdateTests(Append(local, CreateDefaultTest("http", present, made')))
    /\ draft' = IF local = <<>> THEN FreshDraft(stored') ELSE draft
    /\ unit'  = IF local = <<>> THEN None ELSE unit
    /\ asserted' = IF local = <<>> THEN None ELSE asserted
    /\ UNCHANGED present

\* "Remove" of the form.
RemoveInForm ==
    /\ Unfocused /\ local # <<>>
    /\ UpdateTests(<<>>)
    /\ draft' = NoDraft
    /\ UNCHANGED <<unit, present, asserted, made>>

-----------------------------------------------------------------------------
(* Changes from outside the form: the row is drawn again *)

Redraw(next) ==
    /\ stored' = next
    /\ local'  = <<next>>
    /\ draft'  = IF local = <<>> THEN FreshDraft(next) ELSE DraftFollows(stored, next)

RemoveService(s) ==
    /\ Unfocused
    /\ s \in present
    /\ present' = present \ {s}
    /\ Redraw(stored)
    /\ UNCHANGED <<unit, asserted, made>>

AddService(s) ==
    /\ Unfocused
    /\ s \notin present
    /\ present' = present \union {s}
    /\ Redraw(stored)
    /\ UNCHANGED <<unit, asserted, made>>

\* A hydration brings the step as another browser saved it.
StepHydrated(n) ==
    /\ Remote
    /\ \E f \in Displayed(stored) : Redraw([stored EXCEPT !.want = [@ EXCEPT ![f] = n]])
    /\ UNCHANGED <<unit, present, asserted, made>>

FormInit ==
    /\ present = Services
    /\ made = 1
    /\ \E type \in Types : stored = CreateDefaultTest(type, {}, 1)
    /\ local = <<stored>>
    /\ draft = FreshDraft(stored)
    /\ unit = IF stored.type = "delay" THEN InferDelayUnit(stored.duration) ELSE None
    /\ asserted = None

FormNext ==
    \/ \E type \in Types : ChangeType(type)
    \/ \E s \in present : ChangeTarget(s)
    \/ \E mode \in {"transient", "never"} : ChangeRetryMode(mode)
    \/ \E checked \in BOOLEAN : ConfirmIdempotency(checked)
    \/ \E op \in Operations.http : ChangeMethod(op)
    \/ \E op \in Operations.database : ChangeQuery(op)
    \/ \E op \in Operations.document : ChangeDocumentOperation(op)
    \/ \E op \in Operations.shell : ChangeCommand(op)
    \/ \E op \in Operations.cache : ChangeCacheOperation(op)
    \/ \E op \in Operations.queue : ChangeQueueOperation(op)
    \/ \E d \in 1..2 : \/ ChangeRequest(d)
                       \/ ChangeLogin(d)
                       \/ ChangeCollection(d)
                       \/ ChangeEnvironment(d)
                       \/ ChangeCacheEntry(d)
                       \/ ChangeMessage(d)
    \/ \E checked \in 0..1 : ToggleExists(checked)
    \/ \E m \in ResultModes : ChangeResultMode(m)
    \/ \E u \in DOMAIN Factor : ChangeUnit(u)
    \/ \E n \in Typed : \/ TypeStatus(n)
                        \/ TypeExitCode(n)
                        \/ TypeDocumentCount(n)
                        \/ TypeDocument(n)
                        \/ TypeMessageCount(n)
                        \/ TypeDelay(n)
    \/ TypeUnreadable
    \/ EmptyJson
    \/ Blur
    \/ AddInForm
    \/ RemoveInForm
    \/ \E s \in Services : RemoveService(s)
    \/ \E s \in Services : AddService(s)
    \/ \E n \in 0..1 : StepHydrated(n)

FormSpec == FormInit /\ [][FormNext]_formVars

-----------------------------------------------------------------------------
(* validateScenario, for one step *)

StepErrors(test) ==
    IF test.target = None THEN {"no target"} ELSE {test.target} \ present

\* Whether the step refers to a service, as the removal dialog counts it.
References(test, s) == s \in {test.target, test.service}

-----------------------------------------------------------------------------
(* Properties *)

\* The form edits one step, of a kind and with an operation the runner knows.
FormTypeOK ==
    /\ stored.type \in Types \union {"http"}
    /\ stored.op \in Operations[stored.type]
    /\ stored.target \in Services \union {None}
    /\ stored.want \in [Expectations -> Nat \union {None}]
    /\ stored.mode \in {None, "transient", "never"}
    /\ stored.id \in 1..made /\ made \in 1..MaxSteps
    /\ local \in {<<>>, <<stored>>}
    /\ (stored.type = "delay") <=> (unit # None)

\* A step is run a second time only when its operation is read-only or when
\* the author confirmed exactly that operation as idempotent: changes of the
\* kind, the operation, the query or the command withdraw the confirmation
\* (clearStaleIdempotencyConfirmation, test-retry-policy.ts).
RetriedAsConfirmed ==
    ShouldRetry(stored) /\ ~IsAutomaticallyRetrySafe(stored) =>
        /\ asserted # None
        /\ RetryOperationSignature(stored) = <<asserted[1], asserted[2]>>

\* What the form says about retries is what the runner does
\* (guidedRetryDescription against shouldRetry of the runner).
RetryAsDescribed ==
    ShouldRetry(stored) <=> GuidedRetryDescription(stored) \in {"confirmed", "safe"}

\* A step that refers to a removed service, by its target or in its
\* configuration, fails validation: it is "flagged for repair", as the
\* removal dialog promises.
FlaggedForRepair ==
    \A s \in Services \ present : References(stored, s) => StepErrors(stored) # {}

\* With no field being edited, the form shows what a run will assert; JSON
\* that does not parse stays on display with its error message.
ShownIsRun ==
    (local # <<>> /\ ~draft.focused) =>
        /\ \A f \in Displayed(stored) \intersect {"exists", "result"} :
               ShownValue(stored, f) = Asserted(stored, f)
        /\ DraftField(stored) # None =>
               \/ draft.text = Asserted(stored, DraftField(stored))
               \/ draft.text = Unreadable /\ DraftField(stored) = "found"

\* The form lists the step the scenario has: it says that no tests are defined
\* only when there is none.
FormListsStep == local # <<>> /\ local[1] = stored

\* The confirmation is about the whole request that will be sent twice.
ConfirmedRequest ==
    stored.confirmed => asserted = <<stored.type, stored.op, stored.detail>>

\* A delay, which targets no service, is a valid step.
DelayAccepted == stored.type = "delay" => StepErrors(stored) = {}
=============================================================================
