---------------------------- MODULE NodeService ----------------------------
(***************************************************************************)
(* The two gRPC servers of Node.js: src/src/currencyservice/server.js and  *)
(* src/src/paymentservice (index.js, server.js, charge.js).  A behavior is *)
(* about one of them, in its process that is started again after it died,  *)
(* and about the calls it gets, next to calls of the function that         *)
(* converts in place of the first.                                         *)
(*                                                                         *)
(* One thread runs everything: a script from its first line to bindAsync,  *)
(* and then one handler after the other.  The only thing that moves while  *)
(* it runs is the clock, which counts months here: month 12 * y + m is the *)
(* m-th of year y, m in 1 .. 12.                                           *)
(***************************************************************************)
EXTENDS Conversion, Sequences

CONSTANTS
  Calls,
  Conversions,   \* what convert is asked for: [from |-> amount, code |-> code]
  Cards,         \* [valid, type, expires], expires in months as above
  Profiling,     \* DISABLE_PROFILER is not set
  FirstMonth,    \* bounds of the clock
  LastMonth

ASSUME NodeAssumption ==
  /\ Conversions \subseteq [from : Money, code : Codes]
  /\ \A k \in Conversions : Price(k.from)
  /\ Cards \subseteq [valid : BOOLEAN, type : {"visa", "mastercard", "amex"}, expires : Nat]
  /\ Profiling \in BOOLEAN
  /\ FirstMonth \in Nat \ {0} /\ LastMonth \in Nat /\ FirstMonth <= LastMonth

VARIABLES
  service,       \* "currency" or "payment"
  tracing,       \* ENABLE_TRACING is 1
  process,       \* "down", "loading", "binding" or "serving"
  done,          \* the steps of its script the process has done
  hooked,        \* the gRPC library it loaded is instrumented
  ready,         \* what the last readiness probe said
  request,       \* request[c]: what c asks for, until it failed
  stage,         \* stage[c]: idle, sent, dating, answered or failed
  answer,        \* answer[c]
  currentMonth,  \* currentMonth of the charge at work
  now,           \* the month of the clock
  calm,          \* nothing is killed or lost any more
  \* ghost
  dates          \* dates[c]: when charge c read the month and the year

settings == <<service, tracing>>
processVars == <<process, done, hooked, ready>>
callVars == <<request, stage, answer, currentMonth, dates>>
vars == <<settings, processVars, callVars, now, calm>>

\* No request, and no answer.
NoRequest == [to |-> "none"]
NoAnswer == [status |-> "none"]

\* What a request asks for is absent in one of a careless caller.
Absent == [absent |-> TRUE]

Requests ==
  [to : {"convert", "convertCurrency"}, ask : Conversions \cup {Absent}]
    \cup [to : {"charge"}, ask : Cards \cup {Absent}]
    \cup [to : {"getSupportedCurrencies"}]

\* The callers of a server; those of the function are next to the currency
\* server's.
RequestsOf(s) ==
  {q \in Requests : (q.to = "charge") = (s = "payment")}

Served(q) == q.to # "convertCurrency"

----------------------------------------------------------------------------
(* The script. *)

\* The gRPC library and the protocol, and the services and the port.
Requires == <<"grpc", "protos">>
Serves == <<"services", "bind">>

\* Mutant of Script: the payment server's order for both.
ScriptLikePayment(s) == <<"profiler", "exporter", "tracedInstrumentation">> \o Requires \o Serves

\* "instrumentation" is unconditional; "tracedInstrumentation" is the same
\* within the branch for ENABLE_TRACING.
Script(s) ==
  (IF s = "currency" THEN <<"profiler", "instrumentation", "exporter">>
   ELSE <<"profiler", "exporter", "tracedInstrumentation">>) \o Requires \o Serves

\* Steps that the settings leave out.
Skipped ==
  (IF Profiling THEN {} ELSE {"profiler"})
    \cup (IF tracing THEN {} ELSE {"exporter", "tracedInstrumentation"})

\* Where in the script the steps are that are still to be done.
Left == {i \in 1 .. Len(Script(service)) : Script(service)[i] \notin done \cup Skipped}

Instrumented == {"instrumentation", "tracedInstrumentation"} \cap done # {}

Init ==
  /\ service \in {"currency", "payment"}
  /\ tracing \in BOOLEAN
  /\ process = "down" /\ done = {} /\ hooked = FALSE /\ ready = FALSE
  /\ request = [c \in Calls |-> NoRequest]
  /\ stage = [c \in Calls |-> "idle"]
  /\ answer = [c \in Calls |-> NoAnswer]
  /\ currentMonth = 0
  /\ now = FirstMonth
  /\ calm = FALSE
  /\ dates = [c \in Calls |-> <<>>]

\* Kubernetes starts the process, again and again.
Start ==
  /\ process = "down"
  /\ process' = "loading"
  /\ UNCHANGED <<settings, done, hooked, ready, callVars, now, calm>>

\* A require hooks the library that is loaded only if the instrumentation is
\* registered before.  bindAsync returns at once.
Load ==
  /\ process = "loading"
  /\ \E i \in Left :
       LET step == Script(service)[i]
       IN /\ \A j \in Left : i <= j
          /\ done' = done \cup {step}
          /\ hooked' = IF step = "grpc" THEN Instrumented ELSE hooked
          /\ process' = IF step = "bind" THEN "binding" ELSE "loading"
  /\ UNCHANGED <<settings, ready, callVars, now, calm>>

\* Mutant of Bound: the callback only logs.
BoundIdle == process = "binding" /\ UNCHANGED vars

\* The callback of bindAsync starts the server.
Bound ==
  /\ process = "binding"
  /\ process' = "serving"
  /\ UNCHANGED <<settings, done, hooked, ready, callVars, now, calm>>

\* Calls that end without an answer.
Fail(calls) ==
  /\ stage' = [c \in Calls |-> IF c \in calls THEN "failed" ELSE stage[c]]
  /\ request' = [c \in Calls |-> IF c \in calls THEN NoRequest ELSE request[c]]
  /\ dates' = [c \in Calls |-> IF c \in calls THEN <<>> ELSE dates[c]]
  /\ currentMonth' = IF \E c \in calls : stage[c] = "dating" THEN 0 ELSE currentMonth
  /\ UNCHANGED answer

\* The process dies: a require or the profiler throws, the port is taken (the
\* callback ignores the error, and server.start() throws), or it is killed.
Die ==
  /\ ~ calm
  /\ process # "down"
  /\ process' = "down"
  /\ done' = {} /\ hooked' = FALSE
  /\ Fail({c \in Calls : stage[c] \in {"sent", "dating"} /\ Served(request[c])})
  /\ UNCHANGED <<settings, ready, now, calm>>

----------------------------------------------------------------------------
(* The calls. *)

\* A charge that is between its two readings of the clock has the thread.
Idle == process = "serving" /\ \A c \in Calls : stage[c] # "dating"

\* check always answers SERVING; no answer is a no.
Probe ==
  /\ \/ Idle /\ ready' = TRUE
     \/ process # "serving" /\ ready' = FALSE
  /\ UNCHANGED <<settings, process, done, hooked, callVars, now, calm>>

Send(c) ==
  /\ stage[c] = "idle"
  /\ \E q \in RequestsOf(service) :
       IF Served(q) /\ process # "serving" THEN Fail({c})
       ELSE /\ request' = [request EXCEPT ![c] = q]
            /\ stage' = [stage EXCEPT ![c] = "sent"]
            /\ UNCHANGED <<answer, currentMonth, dates>>
  /\ UNCHANGED <<settings, processVars, now, calm>>

\* The caller gives up, or the call gets lost.
Lose(c) ==
  /\ ~ calm
  /\ stage[c] = "sent"
  /\ Fail({c})
  /\ UNCHANGED <<settings, processVars, now, calm>>

Asks(c, to) == stage[c] = "sent" /\ request[c].to = to

Reply(c, value) ==
  /\ stage' = [stage EXCEPT ![c] = "answered"]
  /\ answer' = [answer EXCEPT ![c] = value]
  /\ currentMonth' = 0
  /\ UNCHANGED <<settings, processVars, request, now, calm>>

GetSupportedCurrencies(c) ==
  /\ Idle
  /\ Asks(c, "getSupportedCurrencies")
  /\ Reply(c, [status |-> "ok", codes |-> Listed])
  /\ UNCHANGED dates

\* An error that is no number, or has no code.
Unknown == [status |-> "UNKNOWN"]

Convert(c) ==
  /\ Idle
  /\ Asks(c, "convert")
  /\ LET ask == request[c].ask
     IN Reply(c, IF ask = Absent THEN Unknown ELSE convert(ask.from, ask.code))
  /\ UNCHANGED dates

ConvertCurrency(c) ==
  /\ Asks(c, "convertCurrency")
  /\ LET ask == request[c].ask
     IN Reply(c, IF ask = Absent THEN BadRequest ELSE convertCurrency(ask.from, ask.code))
  /\ UNCHANGED dates

Accepted == {"visa", "mastercard"}

\* Mutant of Month: getMonth() as it is.
MonthFromZero(t) == (t - 1) % 12

Month(t) == ((t - 1) % 12) + 1
Year(t) == (t - 1) \div 12

\* charge throws, and ChargeServiceHandler hands the error on.
Refuse(c, why) == Reply(c, [status |-> "400", why |-> why])

ChargeRefuses(c) ==
  /\ Idle
  /\ Asks(c, "charge")
  /\ LET card == request[c].ask
     IN \/ card = Absent /\ Reply(c, Unknown)
        \/ card # Absent /\ ~ card.valid /\ Refuse(c, "InvalidCreditCard")
        \/ /\ card # Absent /\ card.valid /\ card.type \notin Accepted
           /\ Refuse(c, "UnacceptedCreditCard")
  /\ UNCHANGED dates

\* const currentMonth = new Date().getMonth() + 1
ChargeReadsMonth(c) ==
  /\ Idle
  /\ Asks(c, "charge")
  /\ request[c].ask # Absent
  /\ request[c].ask.valid
  /\ request[c].ask.type \in Accepted
  /\ stage' = [stage EXCEPT ![c] = "dating"]
  /\ currentMonth' = Month(now)
  /\ dates' = [dates EXCEPT ![c] = <<now>>]
  /\ UNCHANGED <<settings, processVars, request, answer, now, calm>>

\* Mutant of Expired: the month is the one of the second reading, and the year
\* of the first.
ExpiredLately(month, c) == Year(dates[c][1]) * 12 + Month(now) > request[c].ask.expires

Expired(month, c) == Year(now) * 12 + month > request[c].ask.expires

\* const currentYear = new Date().getFullYear(), and the end of charge.
ChargeReadsYear(c) ==
  /\ stage[c] = "dating"
  /\ dates' = [dates EXCEPT ![c] = Append(@, now)]
  /\ \/ Expired(currentMonth, c) /\ Refuse(c, "ExpiredCreditCard")
     \/ ~ Expired(currentMonth, c) /\ Reply(c, [status |-> "ok", transaction_id |-> c])

----------------------------------------------------------------------------

\* Only the payment service looks at the clock.
Tick ==
  /\ service = "payment"
  /\ now < LastMonth
  /\ now' = now + 1
  /\ UNCHANGED <<settings, processVars, callVars, calm>>

CalmDown ==
  /\ ~ calm
  /\ calm' = TRUE
  /\ UNCHANGED <<settings, processVars, callVars, now>>

Handle(c) ==
  \/ GetSupportedCurrencies(c)
  \/ Convert(c)
  \/ ConvertCurrency(c)
  \/ ChargeRefuses(c)
  \/ ChargeReadsMonth(c)
  \/ ChargeReadsYear(c)

ProcessNext == Start \/ Load \/ Bound

Next ==
  \/ ProcessNext \/ Die \/ Probe
  \/ \E c \in Calls : Send(c) \/ Lose(c) \/ Handle(c)
  \/ Tick \/ CalmDown

Spec == Init /\ [][Next]_vars

\* The process is started and gets on, the kubelet probes it, and the event
\* loop takes one call after the other.
Fairness ==
  /\ WF_vars(ProcessNext)
  /\ WF_vars(Probe)
  /\ WF_vars(\E c \in Calls : Handle(c))

FairSpec == Spec /\ Fairness

----------------------------------------------------------------------------
(* Properties. *)

TypeOK ==
  /\ service \in {"currency", "payment"}
  /\ tracing \in BOOLEAN
  /\ process \in {"down", "loading", "binding", "serving"}
  /\ done \subseteq {"profiler", "instrumentation", "tracedInstrumentation", "exporter",
                     "grpc", "protos", "services", "bind"}
  /\ hooked \in BOOLEAN /\ ready \in BOOLEAN
  /\ request \in [Calls -> RequestsOf(service) \cup {NoRequest}]
  /\ stage \in [Calls -> {"idle", "sent", "dating", "answered", "failed"}]
  /\ \A c \in Calls : answer[c] # NoAnswer <=> stage[c] = "answered"
  /\ currentMonth \in 0 .. 12
  /\ currentMonth > 0 <=> \E c \in Calls : stage[c] = "dating"
  /\ now \in FirstMonth .. LastMonth
  /\ calm \in BOOLEAN

Succeeded(c) == stage[c] = "answered" /\ answer[c].status = "ok"
Converts(c) == request[c].to \in {"convert", "convertCurrency"}
From(c) == request[c].ask.from
To(c) == request[c].ask.code

\* Sum of money.go refuses an amount that is not valid, and Must then panics:
\* whatever a price is converted to is a valid amount of the currency that was
\* asked for, also when its nanos were rounded up to a whole unit on the way.
ConvertedIsValid ==
  \A c \in Calls : Converts(c) /\ Succeeded(c) =>
    /\ IsValid(answer[c].money)
    /\ Price(answer[c].money)
    /\ answer[c].money.code = To(c)

\* Two roundings cost half a nano of a euro and a nano of the answer, and no
\* more: the carries of convert lose no unit and gain none.  For a code that it
\* does not list the container gives an amount of nothing; the function, which
\* may stand in for it at any time, gives nothing away.
ConvertedIsClose ==
  \A c \in Calls : Converts(c) /\ Succeeded(c) =>
    IF Known(From(c), To(c)) THEN CloseTo(From(c), To(c), answer[c].money)
    ELSE request[c].to = "convert"

\* Of two prices the dearer one is never the cheaper one after a conversion,
\* whichever of the two backends converts them.
OrderPreserved ==
  \A c, d \in Calls :
    /\ Converts(c) /\ Succeeded(c) /\ Converts(d) /\ Succeeded(d)
    /\ From(c).code = From(d).code /\ To(c) = To(d)
    /\ Value(From(c)) <= Value(From(d))
    => Value(answer[c].money) <= Value(answer[d].money)

\* "Also validate expiration is > today" (charge.js), although the month and the
\* year come from two readings of the clock: no card is charged that had expired
\* when its charge began.  A card is only refused as expired if its last month
\* is over, or if the year changed between the two readings: then December is
\* taken for the one of the new year.
CardsJudgedByDate ==
  \A c \in Calls : request[c].to = "charge" =>
    /\ Succeeded(c) => request[c].ask.expires >= dates[c][1]
    /\ stage[c] = "answered" /\ ~ Succeeded(c) /\ dates[c] # <<>> =>
         \/ request[c].ask.expires < dates[c][1]
         \/ Year(dates[c][1]) # Year(dates[c][2])

\* "Register GRPC OTel Instrumentation for trace propagation regardless of
\* whether tracing is emitted" (server.js of the currency service): its calls
\* always propagate a trace; those of the payment service do when it emits
\* traces itself.
TracesPropagate ==
  process = "serving" /\ (service = "currency" \/ tracing) => hooked

\* Every call that was sent is answered or fails: no handler keeps the thread.
\* A call is sent once, so that one without an end would wait forever.  And a
\* server that died serves again and is found ready, however often it died and
\* however little of its script it had done.  Calm does not end, so this is what
\* calm leads to.
CallsEndAndServerReturns ==
  /\ []<>(\A c \in Calls : stage[c] \notin {"sent", "dating"})
  /\ []<>(calm => process = "serving" /\ ready)
=============================================================================
