------------------------------ MODULE CgiProofs ------------------------------
(***************************************************************************)
(* What calls of process_cgi() at once cannot do to one another, for any   *)
(* number of workers, calls and descriptors.                               *)
(***************************************************************************)
EXTENDS Cgi, FiniteSetTheorems, TLAPS

-----------------------------------------------------------------------------
(* The inductive invariant.                                                *)

Places == {"idle", "last", "pipe", "fork", "close", "epoll", "write", "end", "wait"}
Sets == {"last", "pipe", "fork"}                        \* before its fork()
Forked == {"close", "epoll", "write", "end", "wait"}    \* behind it
Kids == {"none", "forked", "blocked", "clone", "asleep", "script", "ended", "crashed", "reaped"}
Living == {"forked", "blocked", "clone", "asleep", "script"}
Vars == [Fields \cup {"url"} -> 0 .. MaxCalls]
Requests == [handler : Handlers, fields : SUBSET Fields, script : Scripts, len : Nat]

TypeOK ==
  /\ pc \in [Workers -> Places] /\ id \in [Workers -> 0 .. MaxCalls]
  /\ calls \in Seq(Requests) /\ Len(calls) <= MaxCalls
  /\ headers \in [Handlers -> [Fields -> Seq(Nat)]]
  /\ env \in Vars
  /\ kid \in [Calls -> Kids] /\ kidEnv \in [Calls -> Vars]
  /\ readers \in [Calls -> SUBSET (0 .. MaxCalls)]
  /\ written \subseteq Made
  /\ answers \in [Calls -> Seq({"404", "500", "script"})]
  /\ dead \in BOOLEAN

\* Each running call is one worker's, and has a child if and only if it has forked.
OwnCall ==
  /\ \A w \in Workers :
       /\ pc[w] # "idle" => id[w] \in Made
       /\ pc[w] \in Sets => kid[id[w]] = "none"
       /\ pc[w] \in Forked => kid[id[w]] # "none"
  /\ \A v, w \in Workers : pc[v] # "idle" /\ pc[w] # "idle" /\ id[v] = id[w] => v = w
  /\ \A k \in Calls : kid[k] # "none" => k \in Made

\* A Request has the fields of its handler's calls, the latest last, and a running call is
\* its handler's latest.
Holds(sent, h, f) ==
  /\ \A i \in 1 .. Len(sent) : sent[i] \in Made /\ calls[sent[i]].handler = h /\ f \in calls[sent[i]].fields
  /\ \A j \in Made : calls[j].handler = h /\ f \in calls[j].fields =>
       sent # <<>> /\ j <= sent[Len(sent)]
OwnHeaders ==
  /\ \A h \in Handlers, f \in Fields : Holds(headers[h][f], h, f)
  /\ \A w \in Workers, j \in Made :
       pc[w] # "idle" /\ calls[j].handler = calls[id[w]].handler => j <= id[w]

\* The environment is the call's that is alone between its first setenv() and its fork().
IsOf(k, f, j) == j \in {0} \cup Senders(k, f) /\ \A i \in Senders(k, f) : i <= j
EnvOf(k, e) == e["url"] = k /\ \A f \in Fields : IsOf(k, f, e[f])
OwnEnv ==
  /\ \A k \in Calls : kid[k] # "none" /\ k \notin raced => EnvOf(k, kidEnv[k])
  /\ \A w \in Workers :
       /\ pc[w] \in Sets /\ id[w] \notin raced =>
            env["url"] = id[w] /\ IsOf(id[w], "Content-Length", env["Content-Length"])
       /\ pc[w] \in {"pipe", "fork"} /\ id[w] \notin raced =>
            IsOf(id[w], "Connection", env["Connection"])
  /\ \A v, w \in Workers : v # w /\ pc[v] \in Sets /\ pc[w] \in Sets => id[v] \in raced

\* Before its script has answered, nothing is sent to a call's client.
OwnAnswer ==
  /\ \A k \in Calls : k \notin Made => answers[k] = <<>>
  /\ \A w \in Workers : pc[w] \in Sets => answers[id[w]] = <<>>
  /\ \A k \in Calls : kid[k] = "crashed" => calls[k].script = "crashes"
  /\ (\A k \in Made : calls[k].script # "crashes") =>
       \A k \in Calls :
         /\ kid[k] \in {"forked", "blocked", "script"} => answers[k] = <<>>
         /\ kid[k] \in {"ended", "reaped"} => answers[k] = <<"script">>

\* A pipe has a reader while its child lives, which ends behind the write of its body.
OwnPipe ==
  /\ \A w \in Workers :
       /\ pc[w] = "fork" => 0 \in readers[id[w]]
       /\ pc[w] = "write" => calls[id[w]].len > 0
       /\ pc[w] \in Sets \cup {"close", "epoll", "write"} => id[w] \notin written
  /\ \A k \in Calls :
       /\ kid[k] \in Living => k \in readers[k]
       /\ kid[k] = "ended" /\ calls[k].len > 0 => k \in written

\* An epoll instance is made once in a call.
OwnEpoll ==
  /\ epolls \subseteq Made
  /\ \A w \in Workers : pc[w] \in Sets \cup {"close", "epoll"} => id[w] \notin epolls

\* Open descriptors: both ends of the pipe, its write end, the epoll instance, and leaks.
HasPipe == {w \in Workers : pc[w] \in {"fork", "close"}}
HasEnd == {w \in Workers : pc[w] \in {"epoll", "write", "end"}}
HasEpoll == {w \in Workers : pc[w] \in {"write", "end", "wait"} /\ id[w] \in epolls}
FdsCounted ==
  /\ fds \in Int /\ leaks \in Int
  /\ fds = leaks + 2 * Cardinality(HasPipe) + Cardinality(HasEnd) + Cardinality(HasEpoll)

IInv ==
  /\ TypeOK /\ OwnCall
  /\ OwnHeaders /\ OwnEnv /\ OwnAnswer /\ OwnPipe /\ OwnEpoll
  /\ DiesOfWrites /\ WaitsMatchChildren /\ FdsCounted

-----------------------------------------------------------------------------
(* Each step preserves it.                                                 *)

\* A running call is one of the calls, and no worker's number is out of range.
LEMMA IdIsCall ==
  ASSUME TypeOK, OwnCall, NEW w \in Workers, pc[w] # "idle"
  PROVE  id[w] \in Made /\ id[w] \in Calls
BY DEF TypeOK, OwnCall, Calls, Made

\* What is known of a call.
LEMMA MadeIsRequest ==
  ASSUME TypeOK, NEW k \in Made
  PROVE  k \in Nat /\ k >= 1 /\ calls[k].handler \in Handlers /\ calls[k].len \in Nat
<1>1. calls[k] \in Requests /\ k \in Nat /\ k >= 1
  BY DEF TypeOK, Made
<1>. QED
  BY <1>1 DEF Requests

\* An answer more is a sequence of answers still.
LEMMA AnsweredType ==
  ASSUME TypeOK, NEW k \in Calls, NEW what \in {"404", "500", "script"}, Answered(k, what)
  PROVE  answers' \in [Calls -> Seq({"404", "500", "script"})]
BY DEF TypeOK, Answered

\* What a Request finds of a field is a call, or none.
LEMMA ValueIsCall ==
  ASSUME TypeOK, OwnHeaders, NEW h \in Handlers, NEW f \in Fields
  PROVE  GetHeaderValue(headers[h][f]) \in 0 .. MaxCalls
<1>1. headers[h][f] \in Seq(Nat)
  BY DEF TypeOK
<1>2. \A i \in 1 .. Len(headers[h][f]) : headers[h][f][i] \in Made
  BY DEF OwnHeaders, Holds
<1>3. Made \subseteq 0 .. MaxCalls
  BY BoundsAssumption DEF TypeOK, Made
<1>4. headers[h][f] # <<>> => Len(headers[h][f]) \in 1 .. Len(headers[h][f])
  BY <1>1
<1>. QED
  BY <1>1, <1>2, <1>3, <1>4, BoundsAssumption DEF GetHeaderValue

\* A new call is the last of the calls, and a length that counts is a number.
LEMMA BeginCalls ==
  ASSUME TypeOK, OwnHeaders,
         NEW w \in Workers, NEW h \in Handlers, NEW script \in Scripts,
         NEW fields \in FieldSets, NEW len \in Lengths, Begin(w, h, script, fields, len),
         NEW n, n = Len(calls) + 1
  PROVE  /\ n \in Calls /\ n \in Nat /\ n \notin Made /\ Made' = Made \cup {n} /\ Made \subseteq 1 .. n - 1
         /\ calls' \in Seq(Requests) /\ Len(calls') <= MaxCalls
         /\ calls'[n].handler = h /\ calls'[n].fields = fields /\ calls'[n].script = script
         /\ \A k \in Made : calls'[k] = calls[k]
<1>. DEFINE new == [handler |-> h, fields |-> fields, script |-> script, len |-> GetBodyLength(h, fields, len)]
<1>1. calls' = Append(calls, new) /\ n \in Calls
  BY DEF Begin
<1>2. GetBodyLength(h, fields, len) \in Nat
  <2>. DEFINE sent == headers[h]["Content-Length"]
  <2>1. sent \in Seq(Nat) /\ len \in Nat
    BY RequestsAssumption DEF TypeOK, Fields
  <2>2. sent # <<>> => Head(sent) \in Made
    BY <2>1 DEF OwnHeaders, Holds, Fields
  <2>3. \A k \in Made : calls[k].len \in Nat
    BY MadeIsRequest
  <2>. QED
    BY <2>1, <2>2, <2>3 DEF GetBodyLength
<1>3. new \in Requests
  BY <1>2, RequestsAssumption DEF Requests
<1>4. calls \in Seq(Requests)
  BY DEF TypeOK
<1>. HIDE DEF new
<1>5. calls' \in Seq(Requests) /\ Len(calls') = n /\ calls'[n] = new /\ \A k \in Made : calls'[k] = calls[k]
  BY <1>1, <1>3, <1>4 DEF Made
<1>6. Made = 1 .. Len(calls) /\ Made' = 1 .. n /\ Len(calls) \in Nat
  BY <1>4, <1>5 DEF Made
<1>7. calls'[n].handler = h /\ calls'[n].fields = fields /\ calls'[n].script = script
  BY <1>5 DEF new
<1>. QED
  BY <1>1, <1>5, <1>6, <1>7 DEF Calls

\* The new call's fields go behind those its Request has.
LEMMA BeginHeaders ==
  ASSUME TypeOK, OwnHeaders,
         NEW w \in Workers, NEW h \in Handlers, NEW script \in Scripts,
         NEW fields \in FieldSets, NEW len \in Lengths, Begin(w, h, script, fields, len)
  PROVE  /\ headers' \in [Handlers -> [Fields -> Seq(Nat)]]
         /\ \A g \in Handlers, f \in Fields : Holds(headers[g][f], g, f)'
<1>. DEFINE n == Len(calls) + 1
<1>0. n = Len(calls) + 1
  OBVIOUS
<1>. HIDE DEF n
<1>1. /\ n \in Nat /\ Made' = Made \cup {n} /\ Made \subseteq 1 .. n - 1
      /\ calls'[n].handler = h /\ calls'[n].fields = fields
      /\ \A k \in Made : calls'[k] = calls[k]
  BY <1>0, BeginCalls
<1>2. headers' = [headers EXCEPT ![h] = SetHeaders(h, fields, n)]
  BY <1>0 DEF Begin
<1>3. \A g \in Handlers, f \in Fields :
        headers'[g][f] = IF g = h /\ f \in fields THEN Append(headers[g][f], n) ELSE headers[g][f]
  BY <1>2 DEF TypeOK, SetHeaders
<1>4. headers' \in [Handlers -> [Fields -> Seq(Nat)]]
  BY <1>1, <1>2 DEF TypeOK, SetHeaders
<1>5. ASSUME NEW g \in Handlers, NEW f \in Fields
      PROVE  Holds(headers[g][f], g, f)'
  <2>1. headers[g][f] \in Seq(Nat) /\ Holds(headers[g][f], g, f)
    BY DEF TypeOK, OwnHeaders
  <2>2. CASE g = h /\ f \in fields
    <3>1. headers'[g][f] = Append(headers[g][f], n)
      BY <1>3, <2>2
    <3>2. \A i \in 1 .. Len(headers'[g][f]) :
            headers'[g][f][i] \in Made' /\ calls'[headers'[g][f][i]].handler = g /\ f \in calls'[headers'[g][f][i]].fields
      <4>1. \A i \in 1 .. Len(headers'[g][f]) :
              headers'[g][f][i] = n \/ (i \in 1 .. Len(headers[g][f]) /\ headers'[g][f][i] = headers[g][f][i])
        BY <1>1, <2>1, <3>1
      <4>2. n \in Made' /\ calls'[n].handler = g /\ f \in calls'[n].fields
        BY <1>1, <2>2
      <4>3. \A k \in Made : k \in Made' /\ calls'[k] = calls[k]
        BY <1>1
      <4>4. \A i \in 1 .. Len(headers[g][f]) :
              headers[g][f][i] \in Made /\ calls[headers[g][f][i]].handler = g
              /\ f \in calls[headers[g][f][i]].fields
        BY <2>1 DEF Holds
      <4>. SUFFICES ASSUME NEW i \in 1 .. Len(headers'[g][f])
                    PROVE  headers'[g][f][i] \in Made' /\ calls'[headers'[g][f][i]].handler = g
                           /\ f \in calls'[headers'[g][f][i]].fields
        OBVIOUS
      <4>5. CASE headers'[g][f][i] = n
        BY <4>2, <4>5
      <4>6. CASE i \in 1 .. Len(headers[g][f]) /\ headers'[g][f][i] = headers[g][f][i]
        <5>. DEFINE j == headers[g][f][i]
        <5>1. j \in Made /\ calls[j].handler = g /\ f \in calls[j].fields
          BY <4>4, <4>6
        <5>. HIDE DEF j
        <5>2. j \in Made' /\ calls'[j] = calls[j]
          BY <4>3, <5>1
        <5>3. headers'[g][f][i] = j
          BY <4>6 DEF j
        <5>. QED
          BY <5>1, <5>2, <5>3
      <4>. QED
        BY <4>1, <4>5, <4>6
    <3>3. headers'[g][f] # <<>> /\ headers'[g][f][Len(headers'[g][f])] = n
      BY <1>1, <2>1, <3>1
    <3>4. \A j \in Made' : j <= n
      BY <1>1
    <3>. QED
      BY <3>2, <3>3, <3>4 DEF Holds
  <2>3. CASE ~(g = h /\ f \in fields)
    <3>1. headers'[g][f] = headers[g][f]
      BY <1>3, <2>3
    <3>. QED
      BY <1>1, <2>1, <2>3, <3>1 DEF Holds
  <2>. QED
    BY <2>2, <2>3
<1>. QED
  BY <1>4, <1>5

\* Types are kept.
LEMMA TypeStep == IInv /\ [Next]_vars => TypeOK'
<1>. SUFFICES ASSUME TypeOK, OwnCall, OwnHeaders, [Next]_vars
              PROVE  TypeOK'
  BY DEF IInv
<1>1. ASSUME NEW w \in Workers, NEW h \in Handlers, NEW script \in Scripts,
              NEW fields \in FieldSets, NEW len \in Lengths, Begin(w, h, script, fields, len)
       PROVE  TypeOK'
  <2>1. Len(calls) + 1 \in Calls /\ calls' \in Seq(Requests) /\ Len(calls') <= MaxCalls
        /\ Made \subseteq Made'
    BY <1>1, BeginCalls
  <2>2. headers' \in [Handlers -> [Fields -> Seq(Nat)]]
        /\ \A f \in Fields : Holds(headers[h][f], h, f)'
    BY <1>1, BeginHeaders
  <2>4. id' \in [Workers -> 0 .. MaxCalls]
    BY <1>1, <2>1 DEF Begin, TypeOK, Calls
  <2>5. CASE script = "missing"
    <3>1. answers' \in [Calls -> Seq({"404", "500", "script"})]
      BY <1>1, <2>1, <2>5, AnsweredType DEF Begin
    <3>. QED
      BY <1>1, <2>1, <2>2, <2>4, <2>5, <3>1 DEF Begin, TypeOK, children
  <2>6. CASE script # "missing"
    <3>1. env' \in Vars
      <4>. DEFINE sent == headers'[h]["Content-Length"]
      <4>1. env' = [env EXCEPT !["Content-Length"] = GetHeaderValue(sent), !["url"] = Len(calls) + 1]
        BY <1>1, <2>6 DEF Begin
      <4>2. sent \in Seq(Nat) /\ \A i \in 1 .. Len(sent) : sent[i] \in Made'
        BY <2>2 DEF Holds, Fields
      <4>3. Made' \subseteq 0 .. MaxCalls
        BY <2>1, BoundsAssumption DEF Made
      <4>4. GetHeaderValue(sent) \in 0 .. MaxCalls
        BY <4>2, <4>3, BoundsAssumption DEF GetHeaderValue
      <4>. QED
        BY <2>1, <4>1, <4>4 DEF TypeOK, Vars, Calls
    <3>2. pc' \in [Workers -> Places]
      BY <1>1, <2>6 DEF Begin, Goto, TypeOK, Places
    <3>. QED
      BY <1>1, <2>1, <2>2, <2>4, <2>6, <3>1, <3>2 DEF Begin, TypeOK, children
  <2>. QED
    BY <2>5, <2>6
<1>2. ASSUME NEW w \in Workers, SetEnv(w)
       PROVE  TypeOK'
  <2>1. calls[id[w]].handler \in Handlers
    BY <1>2, IdIsCall, MadeIsRequest DEF SetEnv
  <2>2. GetHeaderValue(headers[calls[id[w]].handler]["Connection"]) \in 0 .. MaxCalls
    BY <2>1, ValueIsCall DEF Fields
  <2>3. env' \in Vars
    BY <1>2, <2>2 DEF SetEnv, TypeOK, Vars
  <2>. QED
    BY <1>2, <2>3 DEF TypeOK, Made, Places, SetEnv, requests, Goto, children
<1>3. ASSUME NEW w \in Workers, Pipe(w)
       PROVE  TypeOK'
  <2>1. id[w] \in Calls
    BY <1>3, IdIsCall DEF Pipe, requests
  <2>2. CASE fds + 2 <= NFds
    <3>1. readers' = [readers EXCEPT ![id[w]] = {0}] /\ pc' = [pc EXCEPT ![w] = "fork"]
          /\ UNCHANGED <<id, calls, env, written, answers, dead, kid, kidEnv>>
      BY <1>3, <2>2 DEF Pipe, requests, Goto, children
    <3>2. readers' \in [Calls -> SUBSET (0 .. MaxCalls)] /\ pc' \in [Workers -> Places]
      BY <2>1, <3>1, BoundsAssumption DEF TypeOK, Places
    <3>. QED
      BY <1>3, <3>1, <3>2 DEF TypeOK, Made, Pipe, requests
  <2>3. CASE ~(fds + 2 <= NFds)
    <3>1. answers' \in [Calls -> Seq({"404", "500", "script"})]
      BY <1>3, <2>1, <2>3, AnsweredType DEF Pipe, requests
    <3>. QED
      BY <1>3, <2>3, <3>1 DEF TypeOK, Made, Places, Pipe, requests, Goto, children
  <2>. QED
    BY <2>2, <2>3
<1>4. ASSUME NEW w \in Workers, Fork(w)
       PROVE  TypeOK'
  <2>1. id[w] \in Calls
    BY <1>4, IdIsCall DEF Fork, requests
  <2>2. readers' \in [Calls -> SUBSET (0 .. MaxCalls)]
    BY <1>4, <2>1 DEF TypeOK, Calls, Fork, requests, Inherits
  <2>. QED
    BY <1>4, <2>1, <2>2 DEF TypeOK, Made, Places, Kids, Fork, requests, Goto
<1>5. ASSUME NEW w \in Workers, ForkFails(w)
       PROVE  TypeOK'
  BY <1>5 DEF TypeOK, OwnCall, Calls, Made, Places, Sets, Forked, Kids, Vars, ForkFails, requests,
     Goto, Return, children
<1>6. ASSUME NEW w \in Workers, CloseRead(w)
       PROVE  TypeOK'
  BY <1>6 DEF TypeOK, OwnCall, Calls, Made, Places, Sets, Forked, Kids, Vars, CloseRead, requests,
     Goto, children
<1>7. ASSUME NEW w \in Workers, EpollCreate(w)
       PROVE  TypeOK'
  BY <1>7 DEF TypeOK, OwnCall, Calls, Made, Places, Sets, Forked, Kids, Vars, EpollCreate, requests,
     Goto, children
<1>8. ASSUME NEW w \in Workers, Write(w)
       PROVE  TypeOK'
  <2>1. id[w] \in Made
    BY <1>8, IdIsCall DEF Write, requests
  <2>2. CASE readers[id[w]] = {}
    BY <1>8, <2>2 DEF TypeOK, Made, Write, requests, process, children
  <2>3. CASE readers[id[w]] # {}
    BY <1>8, <2>1, <2>3 DEF TypeOK, Made, Places, Write, requests, Goto, process, children
  <2>. QED
    BY <2>2, <2>3
<1>9. ASSUME NEW w \in Workers, CloseWrite(w)
       PROVE  TypeOK'
  BY <1>9 DEF TypeOK, OwnCall, Calls, Made, Places, Sets, Forked, Kids, Vars, CloseWrite, requests,
     Goto, children
<1>10. ASSUME NEW w \in Workers, NEW k \in Calls, Wait(w, k)
       PROVE  TypeOK'
  <2>1. id[w] \in Calls
    BY <1>10, IdIsCall DEF Wait, requests
  <2>2. answers' \in [Calls -> Seq({"404", "500", "script"})]
    BY <1>10, <2>1, AnsweredType DEF Wait, requests, TypeOK
  <2>. QED
    BY <1>10, <2>2 DEF TypeOK, Made, Places, Kids, Wait, requests, Goto
<1>11. ASSUME NEW k \in Calls, ChildBlocks(k)
       PROVE  TypeOK'
  BY <1>11 DEF TypeOK, OwnCall, Calls, Made, Places, Sets, Forked, Kids, Vars, ChildBlocks, requests,
     Becomes, ChildOnly
<1>12. ASSUME NEW k \in Calls, Exec(k)
       PROVE  TypeOK'
  BY <1>12 DEF TypeOK, OwnCall, Calls, Made, Places, Sets, Forked, Kids, Vars, Exec, requests,
     Becomes, ChildOnly
<1>13. ASSUME NEW k \in Calls, CloneGoesOn(k)
       PROVE  TypeOK'
  <2>1. answers' \in [Calls -> Seq({"404", "500", "script"})]
    BY <1>13, AnsweredType DEF CloneGoesOn, requests, TypeOK
  <2>. QED
    BY <1>13, <2>1 DEF TypeOK, Made, Kids, CloneGoesOn, requests, Becomes, ChildOnly
<1>14. ASSUME NEW k \in Calls, ScriptEnds(k)
       PROVE  TypeOK'
  <2>1. answers' \in [Calls -> Seq({"404", "500", "script"})]
    BY <1>14, AnsweredType DEF ScriptEnds, requests
  <2>. QED
    BY <1>14, <2>1 DEF TypeOK, Calls, Made, Kids, ScriptEnds, requests, Becomes, ChildOnly, Drops
<1>15. ASSUME NEW k \in Calls, ScriptCrashes(k)
       PROVE  TypeOK'
  BY <1>15 DEF TypeOK, OwnCall, Calls, Made, Places, Sets, Forked, Kids, Vars,
     ScriptCrashes, requests, Becomes, ChildOnly, Drops
<1>16. CASE UNCHANGED vars
  BY <1>16 DEF TypeOK, OwnCall, Calls, Made, Places, Sets, Forked, Kids, Vars, vars, requests, process, children
<1>. QED
  BY <1>1, <1>2, <1>3, <1>4, <1>5, <1>6, <1>7, <1>8, <1>9, <1>10, <1>11, <1>12, <1>13,
     <1>14, <1>15, <1>16 DEF Next, Call, Child

\* A worker that goes from one place of its call to another keeps the call.
LEMMA CallGoesOn ==
  ASSUME TypeOK, OwnCall, NEW w \in Workers, NEW place \in Places,
         pc[w] # "idle", pc' = [pc EXCEPT ![w] = place], UNCHANGED <<kid, id, calls>>,
         place \in Sets => pc[w] \in Sets, place \in Forked => pc[w] \in Forked
  PROVE  OwnCall'
<1>1. \A v \in Workers : /\ pc'[v] # "idle" => pc[v] # "idle"
                         /\ pc'[v] \in Sets => pc[v] \in Sets
                         /\ pc'[v] \in Forked => pc[v] \in Forked
  BY DEF TypeOK
<1>2. Made' = Made
  BY DEF Made
<1>. QED
  BY <1>1, <1>2 DEF OwnCall

\* A call's number is new, and its worker keeps it until it returns.
LEMMA OwnCallStep == IInv /\ [Next]_vars => OwnCall'
<1>. SUFFICES ASSUME TypeOK, OwnCall, OwnHeaders, [Next]_vars
              PROVE  OwnCall'
  BY DEF IInv
<1>1. ASSUME NEW w \in Workers, NEW h \in Handlers, NEW script \in Scripts,
              NEW fields \in FieldSets, NEW len \in Lengths, Begin(w, h, script, fields, len)
       PROVE  OwnCall'
  <2>. DEFINE n == Len(calls) + 1
  <2>0. n = Len(calls) + 1
    OBVIOUS
  <2>. HIDE DEF n
  <2>1. n \in Calls /\ n \notin Made /\ Made' = Made \cup {n}
    BY <1>1, <2>0, BeginCalls
  <2>2. /\ id' = [id EXCEPT ![w] = n] /\ UNCHANGED kid /\ pc[w] = "idle"
        /\ UNCHANGED pc \/ pc' = [pc EXCEPT ![w] = "last"]
    BY <1>1, <2>0 DEF Begin, Goto, children
  <2>3. \A v \in Workers : v # w => pc'[v] = pc[v] /\ id'[v] = id[v]
    BY <2>2 DEF TypeOK
  <2>4. id'[w] = n /\ pc'[w] \in {"idle", "last"} /\ kid'[n] = "none"
    BY <2>1, <2>2 DEF TypeOK, OwnCall
  <2>5. \A v \in Workers : v # w /\ pc'[v] # "idle" => id'[v] # n
    BY <2>1, <2>3 DEF OwnCall
  <2>. QED
    BY <2>1, <2>2, <2>3, <2>4, <2>5 DEF OwnCall, Sets, Forked
<1>2. ASSUME NEW w \in Workers, SetEnv(w)
       PROVE  OwnCall'
  BY <1>2, CallGoesOn DEF SetEnv, requests, Goto, Sets, Forked, Places, children
<1>3. ASSUME NEW w \in Workers, Pipe(w)
       PROVE  OwnCall'
  <2>1. CASE fds + 2 <= NFds
    BY <1>3, <2>1, CallGoesOn DEF Pipe, requests, Goto, Sets, Forked, Places, children
  <2>2. CASE ~(fds + 2 <= NFds)
    BY <1>3, <2>2, CallGoesOn DEF Pipe, requests, Goto, Sets, Forked, Places, children
  <2>. QED
    BY <2>1, <2>2
<1>4. ASSUME NEW w \in Workers, Fork(w)
       PROVE  OwnCall'
  BY <1>4 DEF TypeOK, OwnCall, Calls, Made, Sets, Forked, Places, Kids, Fork, requests, Goto, Inherits
<1>5. ASSUME NEW w \in Workers, ForkFails(w)
       PROVE  OwnCall'
  BY <1>5, CallGoesOn DEF ForkFails, requests, Goto, Return, Sets, Forked, Places, children
<1>6. ASSUME NEW w \in Workers, CloseRead(w)
       PROVE  OwnCall'
  BY <1>6, CallGoesOn DEF CloseRead, requests, Goto, Sets, Forked, Places, children
<1>7. ASSUME NEW w \in Workers, EpollCreate(w)
       PROVE  OwnCall'
  BY <1>7, CallGoesOn DEF EpollCreate, requests, Goto, Sets, Forked, Places, children
<1>8. ASSUME NEW w \in Workers, Write(w)
       PROVE  OwnCall'
  <2>1. CASE readers[id[w]] = {}
    BY <1>8, <2>1 DEF OwnCall, Made, Write, requests, children
  <2>2. CASE readers[id[w]] # {}
    BY <1>8, <2>2, CallGoesOn DEF Write, requests, Goto, Sets, Forked, Places, children
  <2>. QED
    BY <2>1, <2>2
<1>9. ASSUME NEW w \in Workers, CloseWrite(w)
       PROVE  OwnCall'
  BY <1>9, CallGoesOn DEF CloseWrite, requests, Goto, Sets, Forked, Places, children
<1>10. ASSUME NEW w \in Workers, NEW k \in Calls, Wait(w, k)
       PROVE  OwnCall'
  BY <1>10 DEF TypeOK, OwnCall, Calls, Made, Sets, Forked, Places, Kids, Wait, requests, Goto,
     Answered, Reaps, NotExited
<1>11. ASSUME NEW k \in Calls, ChildBlocks(k)
       PROVE  OwnCall'
  BY <1>11 DEF TypeOK, OwnCall, Calls, Made, Sets, Forked, Places, Kids, ChildBlocks, requests,
     Becomes, ChildOnly
<1>12. ASSUME NEW k \in Calls, Exec(k)
       PROVE  OwnCall'
  BY <1>12 DEF TypeOK, OwnCall, Calls, Made, Sets, Forked, Places, Kids, Exec, requests, Becomes,
     ChildOnly
<1>13. ASSUME NEW k \in Calls, CloneGoesOn(k)
       PROVE  OwnCall'
  BY <1>13 DEF TypeOK, OwnCall, Calls, Made, Sets, Forked, Places, Kids, CloneGoesOn, requests,
     Becomes, ChildOnly, Answered
<1>14. ASSUME NEW k \in Calls, ScriptEnds(k)
       PROVE  OwnCall'
  BY <1>14 DEF TypeOK, OwnCall, Calls, Made, Sets, Forked, Places, Kids, ScriptEnds, requests,
     Becomes, ChildOnly, Answered, Drops
<1>15. ASSUME NEW k \in Calls, ScriptCrashes(k)
       PROVE  OwnCall'
  BY <1>15 DEF TypeOK, OwnCall, Calls, Made, Sets, Forked, Places, Kids, ScriptCrashes, requests,
     Becomes, ChildOnly, Drops
<1>16. CASE UNCHANGED vars
  BY <1>16 DEF TypeOK, OwnCall, Calls, Made, Sets, Forked, Places, Kids, vars, requests, process, children
<1>. QED
  BY <1>1, <1>2, <1>3, <1>4, <1>5, <1>6, <1>7, <1>8, <1>9, <1>10, <1>11, <1>12, <1>13,
     <1>14, <1>15, <1>16 DEF Next, Call, Child

\* While a handler has a call, no other is added to its Request.
LEMMA OwnHeadersStep == IInv /\ [Next]_vars => OwnHeaders'
<1>. SUFFICES ASSUME TypeOK, OwnCall, OwnHeaders, [Next]_vars
              PROVE  OwnHeaders'
  BY DEF IInv
<1>1. ASSUME NEW w \in Workers, NEW h \in Handlers, NEW script \in Scripts,
              NEW fields \in FieldSets, NEW len \in Lengths, Begin(w, h, script, fields, len)
       PROVE  OwnHeaders'
  <2>. DEFINE n == Len(calls) + 1
  <2>0. n = Len(calls) + 1
    OBVIOUS
  <2>. HIDE DEF n
  <2>1. /\ n \in Nat /\ Made' = Made \cup {n} /\ Made \subseteq 1 .. n - 1
        /\ calls'[n].handler = h /\ \A k \in Made : calls'[k] = calls[k]
    BY <1>1, <2>0, BeginCalls
  <2>2. /\ id' = [id EXCEPT ![w] = n] /\ Serves(h) = {}
        /\ UNCHANGED pc \/ pc' = [pc EXCEPT ![w] = "last"]
    BY <1>1, <2>0 DEF Begin, Goto
  <2>3. \A v \in Workers : v # w => pc'[v] = pc[v] /\ id'[v] = id[v]
    BY <2>2 DEF TypeOK
  <2>4. id'[w] = n
    BY <2>2 DEF TypeOK
  <2>5. ASSUME NEW v \in Workers, NEW j \in Made', pc'[v] # "idle", calls'[j].handler = calls'[id'[v]].handler
        PROVE  j <= id'[v]
    <3>1. CASE v = w
      <4>1. \A i \in Made' : i <= n
        BY <2>1
      <4>. QED
        BY <2>4, <3>1, <4>1
    <3>2. CASE v # w
      <4>1. pc[v] # "idle" /\ id'[v] = id[v] /\ id[v] \in Made
        BY <2>3, <2>5, <3>2 DEF OwnCall
      <4>2. calls'[id'[v]].handler = calls[id[v]].handler /\ calls[id[v]].handler # h
        BY <2>1, <2>2, <4>1 DEF Serves
      <4>3. j \in Made /\ calls'[j] = calls[j]
        BY <2>1, <2>5, <4>2
      <4>. QED
        BY <2>5, <4>1, <4>2, <4>3 DEF OwnHeaders
    <3>. QED
      BY <3>1, <3>2
  <2>. QED
    BY <1>1, <2>5, BeginHeaders DEF OwnHeaders
<1>2. ASSUME UNCHANGED <<calls, headers>>, \A v \in Workers : pc'[v] # "idle" => pc[v] # "idle" /\ id'[v] = id[v]
      PROVE  OwnHeaders'
  BY <1>2 DEF OwnHeaders, Holds, Made
<1>3. ASSUME NEW w \in Workers, Call(w)
      PROVE  UNCHANGED <<calls, headers, id>> /\ \A v \in Workers : pc'[v] # "idle" => pc[v] # "idle"
  BY <1>3 DEF Call, SetEnv, Pipe, Fork, ForkFails, CloseRead, EpollCreate, Write, CloseWrite, Wait,
     Goto, requests, TypeOK
<1>4. ASSUME NEW k \in Calls, Child(k)
      PROVE  UNCHANGED <<calls, headers, id, pc>>
  BY <1>4 DEF Child, ChildBlocks, Exec, CloneGoesOn, ScriptEnds, ScriptCrashes, ChildOnly, requests
<1>5. CASE UNCHANGED vars
  BY <1>2, <1>5 DEF vars, requests
<1>. QED
  BY <1>1, <1>2, <1>3, <1>4, <1>5 DEF Next

\* The latest field of a name that a Request has is what its running call is to get.
LEMMA ValueIsOf ==
  ASSUME TypeOK, OwnHeaders, NEW k \in Made, NEW f \in Fields,
         \A j \in Made : calls[j].handler = calls[k].handler => j <= k
  PROVE  IsOf(k, f, GetHeaderValue(headers[calls[k].handler][f]))
<1>. DEFINE h == calls[k].handler
            sent == headers[h][f]
<1>1. h \in Handlers
  BY MadeIsRequest
<1>2. sent \in Seq(Nat) /\ Holds(sent, h, f)
  BY <1>1 DEF TypeOK, OwnHeaders
<1>3. Made = 1 .. Len(calls) /\ k \in Nat
  BY DEF TypeOK, Made
<1>4. Senders(k, f) = {j \in Made : calls[j].handler = h /\ f \in calls[j].fields}
  BY <1>3 DEF Senders
<1>5. CASE sent = <<>>
  BY <1>2, <1>4, <1>5 DEF IsOf, GetHeaderValue, Holds
<1>6. CASE sent # <<>>
  <2>1. Len(sent) \in 1 .. Len(sent)
    BY <1>2, <1>6
  <2>. QED
    BY <1>2, <1>4, <1>6, <2>1 DEF IsOf, GetHeaderValue, Holds
<1>. QED
  BY <1>5, <1>6

\* Whoever sets a variable while another does makes both raced.
LEMMA OwnEnvStep == IInv /\ [Next]_vars => OwnEnv'
<1>. SUFFICES ASSUME TypeOK, OwnCall, OwnHeaders, OwnEnv, OwnHeaders', TypeOK', [Next]_vars
              PROVE  OwnEnv'
  BY TypeStep, OwnHeadersStep DEF IInv
<1>1. ASSUME NEW w \in Workers, NEW h \in Handlers, NEW script \in Scripts,
              NEW fields \in FieldSets, NEW len \in Lengths, Begin(w, h, script, fields, len)
       PROVE  OwnEnv'
  <2>. DEFINE n == Len(calls) + 1
  <2>0. n = Len(calls) + 1
    OBVIOUS
  <2>. HIDE DEF n
  <2>a. /\ n \in Nat /\ n \in Calls /\ Made' = Made \cup {n} /\ Made \subseteq 1 .. n - 1
        /\ calls'[n].handler = h /\ \A k \in Made : calls'[k] = calls[k]
    BY <1>1, <2>0, BeginCalls
  <2>b. Made = 1 .. Len(calls)
    BY DEF TypeOK, Made
  <2>c. \A k \in Made, f \in Fields : Senders(k, f)' = Senders(k, f)
    BY <2>a, <2>b DEF Senders
  <2>d. \A k \in Made, f \in Fields, j \in Nat : IsOf(k, f, j) => IsOf(k, f, j)'
    BY <2>c DEF IsOf
  <2>e. \A k \in Calls : kid[k] # "none" => k \in Made /\ kidEnv[k] \in Vars
    BY DEF OwnCall, TypeOK
  <2>f. \A k \in Made, e \in Vars : EnvOf(k, e) => EnvOf(k, e)'
    BY <2>d, BoundsAssumption DEF EnvOf, Vars
  <2>g. UNCHANGED <<kid, kidEnv>> /\ raced \subseteq raced' /\ pc[w] = "idle" /\ id' = [id EXCEPT ![w] = n]
    BY <1>1, <2>0 DEF Begin, children
  <2>h. \A k \in Calls : kid'[k] # "none" /\ k \notin raced' => EnvOf(k, kidEnv[k])'
    BY <2>e, <2>f, <2>g DEF OwnEnv
  <2>1. CASE script = "missing"
    <3>1. UNCHANGED <<pc, env, raced>>
      BY <1>1, <2>1 DEF Begin
    <3>2. \A v \in Workers : pc[v] \in Sets => v # w /\ id'[v] = id[v] /\ id[v] \in Made
      BY <2>g DEF Sets, TypeOK, OwnCall
    <3>3. \A f \in Fields : env[f] \in Nat
      BY BoundsAssumption DEF TypeOK, Vars
    <3>4. \A v \in Workers :
            /\ pc'[v] \in Sets /\ id'[v] \notin raced' =>
                 env'["url"] = id'[v] /\ IsOf(id[v], "Content-Length", env["Content-Length"])'
            /\ pc'[v] \in {"pipe", "fork"} /\ id'[v] \notin raced' => IsOf(id[v], "Connection", env["Connection"])'
      <4>. SUFFICES ASSUME NEW v \in Workers, pc[v] \in Sets, id[v] \notin raced, id'[v] = id[v], id[v] \in Made
                    PROVE  /\ env["url"] = id[v] /\ IsOf(id[v], "Content-Length", env["Content-Length"])'
                           /\ pc[v] \in {"pipe", "fork"} => IsOf(id[v], "Connection", env["Connection"])'
        BY <3>1, <3>2 DEF Sets
      <4>1. env["url"] = id[v] /\ IsOf(id[v], "Content-Length", env["Content-Length"])
            /\ (pc[v] \in {"pipe", "fork"} => IsOf(id[v], "Connection", env["Connection"]))
        BY DEF OwnEnv
      <4>2. UNCHANGED <<env, id[v]>>
        BY <3>1
      <4>. QED
        BY <2>c, <3>3, <4>1, <4>2 DEF IsOf, Fields
    <3>5. \A u, v \in Workers : u # v /\ pc'[u] \in Sets /\ pc'[v] \in Sets => id'[u] \in raced'
      BY <3>1, <3>2 DEF OwnEnv
    <3>. QED
      BY <2>h, <3>4, <3>5 DEF OwnEnv
  <2>2. CASE script # "missing"
    <3>1. /\ pc' = [pc EXCEPT ![w] = "last"]
          /\ env' = [env EXCEPT !["Content-Length"] = GetHeaderValue(headers'[h]["Content-Length"]), !["url"] = n]
          /\ raced' = IF Setting = {} THEN raced ELSE raced \cup Setting \cup {n}
      BY <1>1, <2>0, <2>2 DEF Begin, Goto
    <3>3. \A v \in Workers : v # w /\ pc'[v] \in Sets => pc[v] \in Sets /\ id'[v] = id[v] /\ id[v] \in Setting
      BY <2>g, <3>1 DEF TypeOK, Sets, Setting
    <3>4. \A v \in Workers : v # w /\ pc'[v] \in Sets => id'[v] \in raced' /\ n \in raced'
      BY <3>1, <3>3
    <3>5. id'[w] = n /\ pc'[w] = "last" /\ env'["url"] = n
          /\ env'["Content-Length"] = GetHeaderValue(headers'[h]["Content-Length"])
      BY <2>g, <3>1 DEF TypeOK, Vars, Fields
    <3>6. IsOf(id[w], "Content-Length", env["Content-Length"])'
      <4>1. Holds(headers[h]["Content-Length"], h, "Content-Length")' /\ headers'[h]["Content-Length"] \in Seq(Nat)
        BY DEF OwnHeaders, TypeOK, Fields
      <4>2. Senders(id[w], "Content-Length")'
              = {i \in Made' : calls'[i].handler = h /\ "Content-Length" \in calls'[i].fields}
        <5>1. Made' = 1 .. n
          BY <2>0, <2>a, <2>b
        <5>. QED
          BY <2>a, <3>5, <5>1 DEF Senders
      <4>3. Made' \subseteq Nat \ {0}
        BY <2>a DEF Calls
      <4>4. CASE headers'[h]["Content-Length"] = <<>>
        <5>1. env'["Content-Length"] = 0
          BY <3>5, <4>4 DEF GetHeaderValue
        <5>2. Senders(id[w], "Content-Length")' = {}
          BY <4>1, <4>2, <4>4 DEF Holds
        <5>. QED
          BY <5>1, <5>2 DEF IsOf
      <4>5. CASE headers'[h]["Content-Length"] # <<>>
        <5>1. Len(headers'[h]["Content-Length"]) \in 1 .. Len(headers'[h]["Content-Length"])
          BY <4>1, <4>5
        <5>. QED
          BY <3>5, <4>1, <4>2, <4>5, <5>1 DEF IsOf, GetHeaderValue, Holds
      <4>. QED
        BY <4>4, <4>5
    <3>7. \A v \in Workers :
            /\ pc'[v] \in Sets /\ id'[v] \notin raced' =>
                 env'["url"] = id'[v] /\ v = w
            /\ pc'[v] \in {"pipe", "fork"} => id'[v] \in raced'
      BY <3>4, <3>5 DEF Sets
    <3>8. \A u, v \in Workers : u # v /\ pc'[u] \in Sets /\ pc'[v] \in Sets => id'[u] \in raced'
      BY <3>4, <3>5
    <3>9. \A v \in Workers : pc'[v] \in Sets /\ id'[v] \notin raced' => IsOf(id[v], "Content-Length", env["Content-Length"])'
      BY <3>5, <3>6, <3>7
    <3>. QED
      BY <2>h, <3>7, <3>8, <3>9 DEF OwnEnv
  <2>. QED
    BY <2>1, <2>2
<1>2. ASSUME NEW w \in Workers, SetEnv(w)
       PROVE  OwnEnv'
  <2>. DEFINE k == id[w]
              j == GetHeaderValue(headers[calls[k].handler]["Connection"])
  <2>1. k \in Made /\ pc[w] = "last" /\ \A i \in Made : calls[i].handler = calls[k].handler => i <= k
    BY <1>2, IdIsCall DEF SetEnv, OwnHeaders
  <2>2. IsOf(k, "Connection", j)
    BY <2>1, ValueIsOf DEF Fields
  <2>3. /\ env' = [env EXCEPT !["Connection"] = j] /\ pc' = [pc EXCEPT ![w] = "pipe"]
        /\ UNCHANGED <<calls, id, kid, kidEnv, raced>>
    BY <1>2 DEF SetEnv, Goto, requests, children
  <2>4. \A i, f, v : IsOf(i, f, v)' = IsOf(i, f, v)
    BY <2>3 DEF IsOf, Senders
  <2>. HIDE DEF j
  <2>5. env'["Connection"] = j /\ env'["url"] = env["url"] /\ env'["Content-Length"] = env["Content-Length"]
    BY <2>3 DEF TypeOK, Vars, Fields
  <2>6. \A v \in Workers : pc'[v] \in Sets => pc[v] \in Sets /\ (v # w => pc'[v] = pc[v])
    BY <2>1, <2>3 DEF TypeOK, Sets
  <2>7. \A v \in Workers : v # w /\ pc'[v] \in {"pipe", "fork"} => id[v] \in raced
    BY <2>1, <2>6 DEF OwnEnv, Sets
  <2>8. \A i \in Calls : kid[i] # "none" /\ i \notin raced => EnvOf(i, kidEnv[i])
    BY DEF OwnEnv
  <2>9. \A i \in Calls : kid'[i] # "none" /\ i \notin raced' => EnvOf(i, kidEnv[i])'
    BY <2>3, <2>8 DEF EnvOf, IsOf, Senders
  <2>10. \A v \in Workers :
           /\ pc'[v] \in Sets /\ id'[v] \notin raced' =>
                env'["url"] = id'[v] /\ IsOf(id[v], "Content-Length", env["Content-Length"])
           /\ pc'[v] \in {"pipe", "fork"} /\ id'[v] \notin raced' => IsOf(id[v], "Connection", env'["Connection"])
    BY <2>2, <2>3, <2>5, <2>6, <2>7 DEF OwnEnv
  <2>11. \A v \in Workers :
           /\ pc'[v] \in Sets /\ id'[v] \notin raced' =>
                env'["url"] = id'[v] /\ IsOf(id[v], "Content-Length", env["Content-Length"])'
           /\ pc'[v] \in {"pipe", "fork"} /\ id'[v] \notin raced' => IsOf(id[v], "Connection", env["Connection"])'
    BY <2>3, <2>5, <2>10 DEF IsOf, Senders
  <2>. QED
    BY <2>3, <2>6, <2>9, <2>11 DEF OwnEnv
<1>3. ASSUME UNCHANGED <<calls, env, raced>>,
             \A k \in Calls : kid'[k] # "none" => kid[k] # "none" /\ kidEnv'[k] = kidEnv[k],
             \A v \in Workers : pc'[v] \in Sets =>
               id'[v] = id[v] /\ pc[v] \in Sets /\ (pc'[v] \in {"pipe", "fork"} => pc[v] \in {"pipe", "fork"})
      PROVE  OwnEnv'
  <2>1. \A k \in Calls : kid'[k] # "none" /\ k \notin raced' => EnvOf(k, kidEnv[k])'
    BY <1>3 DEF OwnEnv, EnvOf, IsOf, Senders
  <2>2. \A v \in Workers :
          /\ pc'[v] \in Sets /\ id'[v] \notin raced' =>
               env'["url"] = id'[v] /\ IsOf(id[v], "Content-Length", env["Content-Length"])'
          /\ pc'[v] \in {"pipe", "fork"} /\ id'[v] \notin raced' => IsOf(id[v], "Connection", env["Connection"])'
    BY <1>3 DEF OwnEnv, IsOf, Senders, Sets
  <2>3. \A u, v \in Workers : u # v /\ pc'[u] \in Sets /\ pc'[v] \in Sets => id'[u] \in raced'
    BY <1>3 DEF OwnEnv
  <2>. QED
    BY <2>1, <2>2, <2>3 DEF OwnEnv
<1>4. ASSUME NEW w \in Workers, Fork(w)
       PROVE  OwnEnv'
  <2>1. /\ pc[w] = "fork" /\ pc' = [pc EXCEPT ![w] = "close"] /\ kid' = [kid EXCEPT ![id[w]] = "forked"]
        /\ kidEnv' = [kidEnv EXCEPT ![id[w]] = env] /\ UNCHANGED <<calls, id, env, raced>>
    BY <1>4 DEF Fork, Goto, requests
  <2>2. id[w] \in Calls
    BY <2>1, IdIsCall
  <2>3. id[w] \notin raced => EnvOf(id[w], env)
    BY <2>1 DEF OwnEnv, EnvOf, Sets, Fields
  <2>4. \A k \in Calls : kid'[k] # "none" /\ k \notin raced => EnvOf(k, kidEnv'[k])
    BY <2>1, <2>2, <2>3 DEF OwnEnv, TypeOK
  <2>5. \A k \in Calls : kid'[k] # "none" /\ k \notin raced' => EnvOf(k, kidEnv[k])'
    BY <2>1, <2>4 DEF EnvOf, IsOf, Senders
  <2>6. \A v \in Workers : pc'[v] \in Sets => v # w /\ pc'[v] = pc[v]
    BY <2>1 DEF TypeOK, Sets
  <2>7. \A v \in Workers :
          /\ pc'[v] \in Sets /\ id'[v] \notin raced' =>
               env'["url"] = id'[v] /\ IsOf(id[v], "Content-Length", env["Content-Length"])'
          /\ pc'[v] \in {"pipe", "fork"} /\ id'[v] \notin raced' => IsOf(id[v], "Connection", env["Connection"])'
    BY <2>1, <2>6 DEF OwnEnv, IsOf, Senders, Sets
  <2>8. \A u, v \in Workers : u # v /\ pc'[u] \in Sets /\ pc'[v] \in Sets => id'[u] \in raced'
    BY <2>1, <2>6 DEF OwnEnv
  <2>. QED
    BY <2>5, <2>7, <2>8 DEF OwnEnv
<1>5. ASSUME NEW w \in Workers, Call(w), ~SetEnv(w), ~Fork(w)
      PROVE  OwnEnv'
  <2>1. UNCHANGED <<calls, id, env, raced>>
    BY <1>5 DEF Call, Pipe, ForkFails, CloseRead, EpollCreate, Write, CloseWrite, Wait, requests, process
  <2>2. \A k \in Calls : kid'[k] # "none" => kid[k] # "none" /\ kidEnv'[k] = kidEnv[k]
    BY <1>5 DEF Call, Pipe, ForkFails, CloseRead, EpollCreate, Write, CloseWrite, Wait, Reaps, children, TypeOK
  <2>3. \A v \in Workers : pc'[v] \in Sets =>
          pc[v] \in Sets /\ (pc'[v] \in {"pipe", "fork"} => pc[v] \in {"pipe", "fork"})
    BY <1>5 DEF Call, Pipe, ForkFails, CloseRead, EpollCreate, Write, CloseWrite, Wait, Goto, Return, Sets, TypeOK
  <2>. QED
    BY <1>3, <2>1, <2>2, <2>3
<1>6. ASSUME NEW k \in Calls, Child(k)
      PROVE  OwnEnv'
  <2>1. UNCHANGED <<calls, id, env, raced, pc, kidEnv>>
    BY <1>6 DEF Child, ChildBlocks, Exec, CloneGoesOn, ScriptEnds, ScriptCrashes, ChildOnly, requests
  <2>2. \A j \in Calls : kid'[j] # "none" => kid[j] # "none"
    BY <1>6 DEF Child, ChildBlocks, Exec, CloneGoesOn, ScriptEnds, ScriptCrashes, Becomes, TypeOK
  <2>. QED
    BY <1>3, <2>1, <2>2
<1>7. CASE UNCHANGED vars
  BY <1>3, <1>7 DEF vars, requests, process, children
<1>. QED
  BY <1>1, <1>2, <1>4, <1>5, <1>6, <1>7 DEF Next

\* Only the script answers, while there is no crash to report.
LEMMA OwnAnswerStep == IInv /\ [Next]_vars => OwnAnswer'
<1>. SUFFICES ASSUME TypeOK, OwnCall, OwnHeaders, OwnAnswer, [Next]_vars
              PROVE  OwnAnswer'
  BY DEF IInv
<1>1. ASSUME NEW w \in Workers, NEW h \in Handlers, NEW script \in Scripts,
              NEW fields \in FieldSets, NEW len \in Lengths, Begin(w, h, script, fields, len)
       PROVE  OwnAnswer'
  <2>. DEFINE n == Len(calls) + 1
  <2>0. n = Len(calls) + 1
    OBVIOUS
  <2>. HIDE DEF n
  <2>2. /\ n \in Calls /\ n \notin Made /\ Made' = Made \cup {n} /\ calls'[n].script = script
        /\ \A k \in Made : calls'[k] = calls[k]
    BY <1>1, <2>0, BeginCalls
  <2>1. id' = [id EXCEPT ![w] = n] /\ n \in Calls /\ UNCHANGED kid /\ pc[w] = "idle"
    BY <1>1, <2>0, <2>2 DEF Begin, children
  <2>3. kid[n] = "none" /\ answers[n] = <<>>
    BY <2>1, <2>2 DEF OwnCall, OwnAnswer
  <2>4. \A k \in Calls : k # n => answers'[k] = answers[k]
    BY <1>1, <2>0 DEF Begin, Answered, TypeOK
  <2>5. \A v \in Workers : pc[v] \in Sets => v # w /\ id[v] \in Made /\ id[v] \in Calls
    BY <2>1, IdIsCall DEF Sets
  <2>6. \A v \in Workers : pc'[v] \in Sets => answers'[id'[v]] = <<>>
    <3>1. CASE script = "missing"
      <4>1. UNCHANGED pc
        BY <1>1, <3>1 DEF Begin
      <4>. QED
        BY <2>1, <2>2, <2>4, <2>5, <4>1 DEF OwnAnswer, TypeOK
    <3>2. CASE script # "missing"
      <4>1. UNCHANGED answers /\ pc' = [pc EXCEPT ![w] = "last"]
        BY <1>1, <3>2 DEF Begin, Goto
      <4>. QED
        BY <2>1, <2>3, <4>1 DEF OwnAnswer, TypeOK
    <3>. QED
      BY <3>1, <3>2
  <2>7. \A k \in Calls : k \notin Made' => answers'[k] = <<>>
    BY <2>2, <2>4 DEF OwnAnswer
  <2>8. \A k \in Calls : kid'[k] = "crashed" => calls'[k].script = "crashes"
    <3>. SUFFICES ASSUME NEW k \in Calls, kid'[k] = "crashed"
                  PROVE  calls'[k].script = "crashes"
      OBVIOUS
    <3>1. kid[k] = "crashed"
      BY <2>1
    <3>2. k \in Made
      BY <3>1 DEF OwnCall
    <3>3. calls[k].script = "crashes"
      BY <3>1 DEF OwnAnswer
    <3>. QED
      BY <2>2, <3>2, <3>3
  <2>9. (\A k \in Made' : calls'[k].script # "crashes") =>
        \A k \in Calls :
          /\ kid'[k] \in {"forked", "blocked", "script"} => answers'[k] = <<>>
          /\ kid'[k] \in {"ended", "reaped"} => answers'[k] = <<"script">>
    <3>. SUFFICES ASSUME \A k \in Made' : calls'[k].script # "crashes", NEW k \in Calls
                  PROVE  /\ kid'[k] \in {"forked", "blocked", "script"} => answers'[k] = <<>>
                         /\ kid'[k] \in {"ended", "reaped"} => answers'[k] = <<"script">>
      OBVIOUS
    <3>1. \A j \in Made : calls[j].script # "crashes"
      BY <2>2
    <3>2. CASE k = n
      BY <2>1, <2>3, <3>2
    <3>3. CASE k # n
      BY <2>1, <2>4, <3>1, <3>3 DEF OwnAnswer
    <3>. QED
      BY <3>2, <3>3
  <2>. QED
    BY <2>6, <2>7, <2>8, <2>9 DEF OwnAnswer
<1>2. ASSUME NEW w \in Workers, SetEnv(w)
       PROVE  OwnAnswer'
  BY <1>2 DEF TypeOK, OwnCall, OwnAnswer, Calls, Made, Sets, Forked, Places, Kids, SetEnv, requests,
     Goto, children
<1>3. ASSUME NEW w \in Workers, Pipe(w)
       PROVE  OwnAnswer'
  <2>0. id[w] \in Made /\ id[w] \in Calls /\ kid[id[w]] = "none"
    BY <1>3, IdIsCall DEF Pipe, requests, OwnCall, Sets
  <2>1. CASE fds + 2 <= NFds
    BY <1>3, <2>1 DEF TypeOK, OwnAnswer, Made, Sets, Pipe, requests, Goto, children
  <2>2. CASE ~(fds + 2 <= NFds)
    <3>1. UNCHANGED <<calls, id, kid>> /\ pc' = [pc EXCEPT ![w] = "idle"]
      BY <1>3, <2>2 DEF Pipe, requests, Goto, children
    <3>2. \A k \in Calls : k # id[w] => answers'[k] = answers[k]
      BY <1>3, <2>2 DEF Pipe, requests, Answered, TypeOK
    <3>3. \A v \in Workers : pc'[v] \in Sets => pc[v] \in Sets /\ v # w /\ id[v] # id[w] /\ id[v] \in Calls
      BY <1>3, <3>1, IdIsCall DEF TypeOK, OwnCall, Pipe, requests, Sets
    <3>. QED
      BY <2>0, <3>1, <3>2, <3>3 DEF OwnAnswer, Made
  <2>. QED
    BY <2>1, <2>2
<1>4. ASSUME NEW w \in Workers, Fork(w)
       PROVE  OwnAnswer'
  <2>1. /\ kid' = [kid EXCEPT ![id[w]] = "forked"] /\ pc' = [pc EXCEPT ![w] = "close"]
        /\ UNCHANGED <<calls, id, answers>> /\ pc[w] = "fork"
    BY <1>4 DEF Fork, requests, Goto
  <2>2. id[w] \in Calls /\ answers[id[w]] = <<>>
    BY <2>1, IdIsCall DEF OwnAnswer, Sets
  <2>3. \A v \in Workers : pc'[v] \in Sets => pc[v] \in Sets
    BY <2>1 DEF TypeOK, Sets
  <2>4. \A k \in Calls : kid'[k] = kid[k] \/ (kid'[k] = "forked" /\ answers'[k] = <<>>)
    BY <2>1, <2>2 DEF TypeOK
  <2>. QED
    BY <2>1, <2>3, <2>4 DEF OwnAnswer, Made
<1>5. ASSUME NEW w \in Workers, ForkFails(w)
       PROVE  OwnAnswer'
  BY <1>5 DEF TypeOK, OwnCall, OwnAnswer, Calls, Made, Sets, Forked, Places, Kids,
     ForkFails, requests, Goto, Return, children
<1>6. ASSUME NEW w \in Workers, CloseRead(w)
       PROVE  OwnAnswer'
  BY <1>6 DEF TypeOK, OwnCall, OwnAnswer, Calls, Made, Sets, Forked, Places, Kids,
     CloseRead, requests, Goto, children
<1>7. ASSUME NEW w \in Workers, EpollCreate(w)
       PROVE  OwnAnswer'
  BY <1>7 DEF TypeOK, OwnCall, OwnAnswer, Calls, Made, Sets, Forked, Places, Kids,
     EpollCreate, requests, Goto, children
<1>8. ASSUME NEW w \in Workers, Write(w)
       PROVE  OwnAnswer'
  BY <1>8 DEF TypeOK, OwnCall, OwnAnswer, Calls, Made, Sets, Forked, Places, Kids, Write, requests,
     Goto, process, children
<1>9. ASSUME NEW w \in Workers, CloseWrite(w)
       PROVE  OwnAnswer'
  BY <1>9 DEF TypeOK, OwnCall, OwnAnswer, Calls, Made, Sets, Forked, Places, Kids,
     CloseWrite, requests, Goto, children
<1>10. ASSUME NEW w \in Workers, NEW k \in Calls, Wait(w, k)
       PROVE  OwnAnswer'
  <2>1. UNCHANGED <<calls, id>> /\ pc' = [pc EXCEPT ![w] = "idle"] /\ kid' = [kid EXCEPT ![k] = "reaped"]
    BY <1>10 DEF Wait, requests, Goto
  <2>2. kid[k] \in {"ended", "crashed"} /\ pc[w] = "wait"
    BY <1>10 DEF Wait, requests, Reaps
  <2>3. id[w] \in Made /\ id[w] \in Calls /\ k \in Made
    BY <2>2, IdIsCall DEF OwnCall
  <2>4. \A j \in Calls : j # id[w] => answers'[j] = answers[j]
    BY <1>10 DEF Wait, requests, Answered, TypeOK
  <2>5. \A v \in Workers : pc'[v] \in Sets =>
          pc[v] \in Sets /\ id[v] # id[w] /\ id[v] \in Calls
    BY <2>1, <2>2, IdIsCall DEF TypeOK, OwnCall, Sets
  <2>6. kid[k] = "crashed" \/ answers' = answers
    BY <1>10 DEF Wait, requests, NotExited
  <2>7. kid[k] = "crashed" => calls[k].script = "crashes"
    BY DEF OwnAnswer
  <2>8. \A j \in Calls : j \notin Made' => answers'[j] = <<>>
    BY <2>1, <2>3, <2>4 DEF OwnAnswer, Made
  <2>9. \A v \in Workers : pc'[v] \in Sets => answers'[id'[v]] = <<>>
    BY <2>1, <2>4, <2>5 DEF OwnAnswer
  <2>10. \A j \in Calls : kid'[j] = "crashed" => calls'[j].script = "crashes"
    BY <2>1 DEF OwnAnswer, TypeOK
  <2>11. (\A j \in Made' : calls'[j].script # "crashes") =>
         \A j \in Calls :
           /\ kid'[j] \in {"forked", "blocked", "script"} => answers'[j] = <<>>
           /\ kid'[j] \in {"ended", "reaped"} => answers'[j] = <<"script">>
    <3>. SUFFICES ASSUME \A j \in Made' : calls'[j].script # "crashes"
                  PROVE  \A j \in Calls :
                           /\ kid'[j] \in {"forked", "blocked", "script"} => answers'[j] = <<>>
                           /\ kid'[j] \in {"ended", "reaped"} => answers'[j] = <<"script">>
      OBVIOUS
    <3>1. \A j \in Made : calls[j].script # "crashes"
      BY <2>1 DEF Made
    <3>2. kid[k] = "ended" /\ answers' = answers
      BY <2>2, <2>3, <2>6, <2>7, <3>1
    <3>. QED
      BY <2>1, <3>1, <3>2 DEF OwnAnswer, TypeOK
  <2>. QED
    BY <2>8, <2>9, <2>10, <2>11 DEF OwnAnswer
<1>11. ASSUME NEW k \in Calls, ChildBlocks(k)
       PROVE  OwnAnswer'
  BY <1>11 DEF TypeOK, OwnCall, OwnAnswer, Calls, Made, Sets, Forked, Places, Kids,
     ChildBlocks, requests, Becomes, ChildOnly
<1>12. ASSUME NEW k \in Calls, Exec(k)
       PROVE  OwnAnswer'
  BY <1>12 DEF TypeOK, OwnCall, OwnAnswer, Calls, Made, Sets, Forked, Places, Kids, Exec, requests,
     Becomes, ChildOnly
<1>13. ASSUME NEW k \in Calls, CloneGoesOn(k)
       PROVE  OwnAnswer'
  <2>1. UNCHANGED <<calls, id, pc>> /\ kid' = [kid EXCEPT ![k] = "asleep"]
    BY <1>13 DEF CloneGoesOn, requests, Becomes, ChildOnly, Answered
  <2>2. k \in Made /\ kid[k] # "none"
    BY <1>13 DEF OwnCall, CloneGoesOn, requests
  <2>3. \A j \in Calls : j # k => answers'[j] = answers[j]
    BY <1>13 DEF CloneGoesOn, requests, Answered, TypeOK
  <2>4. \A v \in Workers : pc[v] \in Sets => id[v] # k /\ id[v] \in Calls
    BY <2>2, IdIsCall DEF OwnCall, Sets
  <2>6. \A j \in Calls : j \notin Made' => answers'[j] = <<>>
    BY <2>1, <2>2, <2>3 DEF OwnAnswer, Made
  <2>7. \A v \in Workers : pc'[v] \in Sets => answers'[id'[v]] = <<>>
    BY <2>1, <2>3, <2>4 DEF OwnAnswer
  <2>8. \A j \in Calls : kid'[j] = "crashed" => calls'[j].script = "crashes"
    BY <2>1 DEF OwnAnswer, TypeOK
  <2>9. (\A j \in Made' : calls'[j].script # "crashes") =>
        \A j \in Calls :
          /\ kid'[j] \in {"forked", "blocked", "script"} => answers'[j] = <<>>
          /\ kid'[j] \in {"ended", "reaped"} => answers'[j] = <<"script">>
    BY <2>1, <2>3 DEF OwnAnswer, TypeOK, Made
  <2>. QED
    BY <2>6, <2>7, <2>8, <2>9 DEF OwnAnswer
<1>14. ASSUME NEW k \in Calls, ScriptEnds(k)
       PROVE  OwnAnswer'
  <2>1. UNCHANGED <<calls, id, pc>> /\ kid' = [kid EXCEPT ![k] = "ended"]
    BY <1>14 DEF ScriptEnds, requests, Becomes, ChildOnly, Answered, Drops
  <2>2. k \in Made /\ kid[k] # "none"
    BY <1>14 DEF OwnCall, ScriptEnds, requests
  <2>3. \A j \in Calls : j # k => answers'[j] = answers[j]
    BY <1>14 DEF ScriptEnds, requests, Answered, TypeOK
  <2>4. \A v \in Workers : pc[v] \in Sets => id[v] # k /\ id[v] \in Calls
    BY <2>2, IdIsCall DEF OwnCall, Sets
  <2>5. (\A j \in Made : calls[j].script # "crashes") => answers'[k] = <<"script">>
    <3>1. kid[k] = "script" /\ answers' = [answers EXCEPT ![k] = Append(answers[k], "script")]
      BY <1>14 DEF ScriptEnds, requests, Answered
    <3>2. answers'[k] = Append(answers[k], "script")
      BY <3>1 DEF TypeOK
    <3>3. (\A j \in Made : calls[j].script # "crashes") => answers[k] = <<>>
      BY <3>1 DEF OwnAnswer
    <3>4. Append(<<>>, "script") = <<"script">>
      OBVIOUS
    <3>. QED
      BY <3>2, <3>3, <3>4
  <2>6. \A j \in Calls : j \notin Made' => answers'[j] = <<>>
    BY <2>1, <2>2, <2>3 DEF OwnAnswer, Made
  <2>7. \A v \in Workers : pc'[v] \in Sets => answers'[id'[v]] = <<>>
    BY <2>1, <2>3, <2>4 DEF OwnAnswer
  <2>8. \A j \in Calls : kid'[j] = "crashed" => calls'[j].script = "crashes"
    BY <2>1 DEF OwnAnswer, TypeOK
  <2>9. (\A j \in Made' : calls'[j].script # "crashes") =>
        \A j \in Calls :
          /\ kid'[j] \in {"forked", "blocked", "script"} => answers'[j] = <<>>
          /\ kid'[j] \in {"ended", "reaped"} => answers'[j] = <<"script">>
    BY <2>1, <2>3, <2>5 DEF OwnAnswer, TypeOK, Made
  <2>. QED
    BY <2>6, <2>7, <2>8, <2>9 DEF OwnAnswer
<1>15. ASSUME NEW k \in Calls, ScriptCrashes(k)
       PROVE  OwnAnswer'
  BY <1>15 DEF TypeOK, OwnCall, OwnAnswer, Calls, Made, Sets, Forked, Places, Kids,
     ScriptCrashes, requests, Becomes, ChildOnly, Drops
<1>16. CASE UNCHANGED vars
  BY <1>16 DEF TypeOK, OwnCall, OwnAnswer, Calls, Made, Sets, Forked, Places, Kids, vars, requests, process, children
<1>. QED
  BY <1>1, <1>2, <1>3, <1>4, <1>5, <1>6, <1>7, <1>8, <1>9, <1>10, <1>11, <1>12, <1>13,
     <1>14, <1>15, <1>16 DEF Next, Call, Child

\* The read end goes from the server to the child, and with the child.
LEMMA OwnPipeStep == IInv /\ [Next]_vars => OwnPipe'
<1>. SUFFICES ASSUME TypeOK, OwnCall, OwnHeaders, OwnPipe, [Next]_vars
              PROVE  OwnPipe'
  BY DEF IInv
<1>1. ASSUME NEW w \in Workers, NEW h \in Handlers, NEW script \in Scripts,
              NEW fields \in FieldSets, NEW len \in Lengths, Begin(w, h, script, fields, len)
       PROVE  OwnPipe'
  <2>. DEFINE n == Len(calls) + 1
  <2>0. n = Len(calls) + 1
    OBVIOUS
  <2>. HIDE DEF n
  <2>1. n \in Calls /\ n \notin Made /\ \A k \in Made : calls'[k] = calls[k]
    BY <1>1, <2>0, BeginCalls
  <2>2. /\ id' = [id EXCEPT ![w] = n] /\ UNCHANGED <<kid, readers, written>>
        /\ UNCHANGED pc \/ pc' = [pc EXCEPT ![w] = "last"]
    BY <1>1, <2>0 DEF Begin, Goto, children
  <2>3. pc[w] = "idle" /\ n \notin written
    BY <1>1, <2>1 DEF Begin, TypeOK
  <2>4. \A v \in Workers : v # w => pc'[v] = pc[v] /\ id'[v] = id[v]
    BY <2>2 DEF TypeOK
  <2>5. pc'[w] \in {"idle", "last"} /\ id'[w] = n
    BY <2>2, <2>3 DEF TypeOK
  <2>6. \A v \in Workers : pc[v] # "idle" => id[v] \in Made
    BY DEF OwnCall
  <2>7. \A k \in Calls : kid[k] # "none" => k \in Made
    BY DEF OwnCall
  <2>8. \A v \in Workers :
          /\ pc'[v] = "fork" => 0 \in readers'[id'[v]]
          /\ pc'[v] = "write" => calls'[id'[v]].len > 0
          /\ pc'[v] \in Sets \cup {"close", "epoll", "write"} => id'[v] \notin written'
    BY <2>1, <2>2, <2>3, <2>4, <2>5, <2>6 DEF OwnPipe, Sets
  <2>. QED
    BY <2>1, <2>2, <2>7, <2>8 DEF OwnPipe
<1>2. ASSUME NEW w \in Workers, SetEnv(w)
       PROVE  OwnPipe'
  BY <1>2 DEF TypeOK, OwnCall, OwnPipe, Calls, Made, Sets, Forked, Living, Places, Kids,
     SetEnv, requests, Goto, children
<1>3. ASSUME NEW w \in Workers, Pipe(w)
       PROVE  OwnPipe'
  <2>0. id[w] \in Made /\ id[w] \in Calls /\ kid[id[w]] = "none" /\ pc[w] = "pipe"
    BY <1>3, IdIsCall DEF Pipe, requests, OwnCall, Sets
  <2>1. CASE fds + 2 <= NFds
    <3>1. readers' = [readers EXCEPT ![id[w]] = {0}] /\ pc' = [pc EXCEPT ![w] = "fork"]
          /\ UNCHANGED <<id, calls, written, kid>>
      BY <1>3, <2>1 DEF Pipe, requests, Goto, children
    <3>2. readers'[id[w]] = {0} /\ \A k \in Calls : k # id[w] => readers'[k] = readers[k]
      BY <2>0, <3>1 DEF TypeOK
    <3>3. \A v \in Workers : pc'[v] = "fork" => v = w \/ (pc[v] = "fork" /\ id[v] # id[w] /\ id[v] \in Calls)
      BY <2>0, <3>1, IdIsCall DEF TypeOK, OwnCall
    <3>4. \A k \in Calls : kid[k] \in Living => k # id[w]
      BY <2>0 DEF Living
    <3>5. \A v \in Workers : v # w => pc'[v] = pc[v]
      BY <3>1 DEF TypeOK
    <3>. QED
      BY <2>0, <3>1, <3>2, <3>3, <3>4, <3>5 DEF OwnPipe, Sets, TypeOK
  <2>2. CASE ~(fds + 2 <= NFds)
    BY <1>3, <2>2 DEF TypeOK, OwnPipe, Sets, Pipe, requests, Goto, children
  <2>. QED
    BY <2>1, <2>2
<1>4. ASSUME NEW w \in Workers, Fork(w)
       PROVE  OwnPipe'
  BY <1>4 DEF TypeOK, OwnCall, OwnPipe, Calls, Made, Sets, Forked, Living, Places, Kids,
     Fork, requests, Goto, Inherits
<1>5. ASSUME NEW w \in Workers, ForkFails(w)
       PROVE  OwnPipe'
  BY <1>5 DEF TypeOK, OwnCall, OwnPipe, Calls, Made, Sets, Forked, Living, Places, Kids,
     ForkFails, requests, Goto, Return, children
<1>6. ASSUME NEW w \in Workers, CloseRead(w)
       PROVE  OwnPipe'
  BY <1>6 DEF TypeOK, OwnCall, OwnPipe, Calls, Made, Sets, Forked, Living, Places, Kids,
     CloseRead, requests, Goto, children
<1>7. ASSUME NEW w \in Workers, EpollCreate(w)
       PROVE  OwnPipe'
  BY <1>7 DEF TypeOK, OwnCall, OwnPipe, Calls, Made, Sets, Forked, Living, Places, Kids,
     EpollCreate, requests, Goto, children
<1>8. ASSUME NEW w \in Workers, Write(w)
       PROVE  OwnPipe'
  <2>1. /\ UNCHANGED <<id, calls, kid, readers>> /\ pc[w] = "write"
        /\ \/ UNCHANGED <<pc, written>>
           \/ written' = written \cup {id[w]} /\ pc' = [pc EXCEPT ![w] = "end"]
    BY <1>8 DEF Write, requests, Goto, process, children
  <2>2. CASE UNCHANGED <<pc, written>>
    BY <2>1, <2>2 DEF OwnPipe
  <2>3. CASE written' = written \cup {id[w]} /\ pc' = [pc EXCEPT ![w] = "end"]
    <3>1. \A v \in Workers : v # w => pc'[v] = pc[v]
      BY <2>3
    <3>2. pc'[w] = "end"
      BY <2>3 DEF TypeOK
    <3>3. \A v \in Workers : v # w /\ pc[v] # "idle" => id[v] # id[w]
      BY <2>1 DEF OwnCall
    <3>. QED
      BY <2>1, <2>3, <3>1, <3>2, <3>3 DEF OwnPipe, Sets
  <2>. QED
    BY <2>1, <2>2, <2>3
<1>9. ASSUME NEW w \in Workers, CloseWrite(w)
       PROVE  OwnPipe'
  BY <1>9 DEF TypeOK, OwnCall, OwnPipe, Calls, Made, Sets, Forked, Living, Places, Kids,
     CloseWrite, requests, Goto, children
<1>10. ASSUME NEW w \in Workers, NEW k \in Calls, Wait(w, k)
       PROVE  OwnPipe'
  BY <1>10 DEF TypeOK, OwnCall, OwnPipe, Calls, Made, Sets, Forked, Living, Places, Kids,
     Wait, requests, Goto, Answered, Reaps, NotExited
<1>11. ASSUME NEW k \in Calls, ChildBlocks(k)
       PROVE  OwnPipe'
  BY <1>11 DEF TypeOK, OwnCall, OwnPipe, Calls, Made, Sets, Forked, Living, Places, Kids,
     ChildBlocks, requests, Becomes, ChildOnly
<1>12. ASSUME NEW k \in Calls, Exec(k)
       PROVE  OwnPipe'
  BY <1>12 DEF TypeOK, OwnCall, OwnPipe, Calls, Made, Sets, Forked, Living, Places, Kids,
     Exec, requests, Becomes, ChildOnly
<1>13. ASSUME NEW k \in Calls, CloneGoesOn(k)
       PROVE  OwnPipe'
  BY <1>13 DEF TypeOK, OwnCall, OwnPipe, Calls, Made, Sets, Forked, Living, Places, Kids,
     CloneGoesOn, requests, Becomes, ChildOnly, Answered
<1>14. ASSUME NEW k \in Calls, ScriptEnds(k)
       PROVE  OwnPipe'
  BY <1>14 DEF TypeOK, OwnCall, OwnPipe, Calls, Made, Sets, Forked, Living, Places, Kids,
     ScriptEnds, requests, Becomes, ChildOnly, Answered, Drops
<1>15. ASSUME NEW k \in Calls, ScriptCrashes(k)
       PROVE  OwnPipe'
  BY <1>15 DEF TypeOK, OwnCall, OwnPipe, Calls, Made, Sets, Forked, Living, Places, Kids,
     ScriptCrashes, requests, Becomes, ChildOnly, Drops
<1>16. CASE UNCHANGED vars
  BY <1>16 DEF TypeOK, OwnCall, OwnPipe, Calls, Made, Sets, Forked, Living, Places, Kids,
     vars, requests, process, children
<1>. QED
  BY <1>1, <1>2, <1>3, <1>4, <1>5, <1>6, <1>7, <1>8, <1>9, <1>10, <1>11, <1>12, <1>13,
     <1>14, <1>15, <1>16 DEF Next, Call, Child

\* A call's epoll instance is its own.
LEMMA OwnEpollStep == IInv /\ [Next]_vars => OwnEpoll'
<1>. SUFFICES ASSUME TypeOK, OwnCall, OwnHeaders, OwnEpoll, [Next]_vars
              PROVE  OwnEpoll'
  BY DEF IInv
<1>1. ASSUME NEW w \in Workers, NEW h \in Handlers, NEW script \in Scripts,
              NEW fields \in FieldSets, NEW len \in Lengths, Begin(w, h, script, fields, len)
       PROVE  OwnEpoll'
  BY <1>1 DEF TypeOK, OwnCall, OwnEpoll, Calls, Made, Sets, Begin, Goto, Answered,
     Setting, children
<1>2. ASSUME NEW w \in Workers, SetEnv(w)
       PROVE  OwnEpoll'
  BY <1>2 DEF TypeOK, OwnCall, OwnEpoll, Calls, Made, Sets, SetEnv, requests, Goto, children
<1>3. ASSUME NEW w \in Workers, Pipe(w)
       PROVE  OwnEpoll'
  BY <1>3 DEF TypeOK, OwnCall, OwnEpoll, Calls, Made, Sets, Pipe, requests, Goto, Answered, children
<1>4. ASSUME NEW w \in Workers, Fork(w)
       PROVE  OwnEpoll'
  BY <1>4 DEF TypeOK, OwnCall, OwnEpoll, Calls, Made, Sets, Fork, requests, Goto, Inherits
<1>5. ASSUME NEW w \in Workers, ForkFails(w)
       PROVE  OwnEpoll'
  BY <1>5 DEF TypeOK, OwnCall, OwnEpoll, Calls, Made, Sets, ForkFails, requests, Goto, Return, children
<1>6. ASSUME NEW w \in Workers, CloseRead(w)
       PROVE  OwnEpoll'
  BY <1>6 DEF TypeOK, OwnCall, OwnEpoll, Calls, Made, Sets, CloseRead, requests, Goto, children
<1>7. ASSUME NEW w \in Workers, EpollCreate(w)
       PROVE  OwnEpoll'
  <2>1. id[w] \in Made /\ pc[w] = "epoll"
    BY <1>7, IdIsCall DEF EpollCreate, requests
  <2>2. epolls' \subseteq epolls \cup {id[w]} /\ UNCHANGED <<calls, id>>
    BY <1>7 DEF EpollCreate, requests, children
  <2>3. \A v \in Workers : pc'[v] \in Sets \cup {"close", "epoll"} =>
          v # w /\ pc[v] \in Sets \cup {"close", "epoll"}
    BY <1>7 DEF TypeOK, Sets, EpollCreate, requests, Goto
  <2>4. \A v \in Workers : v # w /\ pc[v] \in Sets \cup {"close", "epoll"} => id[v] # id[w]
    BY <2>1 DEF OwnCall, Sets
  <2>. QED
    BY <2>1, <2>2, <2>3, <2>4 DEF OwnEpoll, Made
<1>8. ASSUME NEW w \in Workers, Write(w)
       PROVE  OwnEpoll'
  BY <1>8 DEF TypeOK, OwnCall, OwnEpoll, Calls, Made, Sets, Write, requests, Goto, process, children
<1>9. ASSUME NEW w \in Workers, CloseWrite(w)
       PROVE  OwnEpoll'
  BY <1>9 DEF TypeOK, OwnCall, OwnEpoll, Calls, Made, Sets, CloseWrite, requests, Goto, children
<1>10. ASSUME NEW w \in Workers, NEW k \in Calls, Wait(w, k)
       PROVE  OwnEpoll'
  BY <1>10 DEF TypeOK, OwnCall, OwnEpoll, Calls, Made, Sets, Wait, requests, Goto, Answered, Reaps,
     NotExited
<1>11. ASSUME NEW k \in Calls, ChildBlocks(k)
       PROVE  OwnEpoll'
  BY <1>11 DEF TypeOK, OwnCall, OwnEpoll, Calls, Made, Sets, ChildBlocks, requests, Becomes, ChildOnly
<1>12. ASSUME NEW k \in Calls, Exec(k)
       PROVE  OwnEpoll'
  BY <1>12 DEF TypeOK, OwnCall, OwnEpoll, Calls, Made, Sets, Exec, requests, Becomes, ChildOnly
<1>13. ASSUME NEW k \in Calls, CloneGoesOn(k)
       PROVE  OwnEpoll'
  BY <1>13 DEF TypeOK, OwnCall, OwnEpoll, Calls, Made, Sets, CloneGoesOn, requests, Becomes,
     ChildOnly, Answered
<1>14. ASSUME NEW k \in Calls, ScriptEnds(k)
       PROVE  OwnEpoll'
  BY <1>14 DEF TypeOK, OwnCall, OwnEpoll, Calls, Made, Sets, ScriptEnds, requests, Becomes, ChildOnly,
     Answered, Drops
<1>15. ASSUME NEW k \in Calls, ScriptCrashes(k)
       PROVE  OwnEpoll'
  BY <1>15 DEF TypeOK, OwnCall, OwnEpoll, Calls, Made, Sets, ScriptCrashes, requests, Becomes,
     ChildOnly, Drops
<1>16. CASE UNCHANGED vars
  BY <1>16 DEF TypeOK, OwnCall, OwnEpoll, Calls, Made, Sets, vars, requests, process, children
<1>. QED
  BY <1>1, <1>2, <1>3, <1>4, <1>5, <1>6, <1>7, <1>8, <1>9, <1>10, <1>11, <1>12, <1>13,
     <1>14, <1>15, <1>16 DEF Next, Call, Child

\* A pipe without a reader had one whose child has ended.
LEMMA DeathStep == IInv /\ [Next]_vars => DiesOfWrites'
<1>. SUFFICES ASSUME TypeOK, OwnCall, OwnHeaders, OwnPipe, DiesOfWrites, [Next]_vars
              PROVE  DiesOfWrites'
  BY DEF IInv
<1>1. ASSUME NEW w \in Workers, NEW h \in Handlers, NEW script \in Scripts,
              NEW fields \in FieldSets, NEW len \in Lengths, Begin(w, h, script, fields, len)
       PROVE  DiesOfWrites'
  BY <1>1 DEF TypeOK, OwnCall, OwnPipe, DiesOfWrites, alive, Calls, Made, Sets, Forked,
     Living, Places, Kids, Begin, Goto, Answered, Setting, children
<1>2. ASSUME NEW w \in Workers, SetEnv(w)
       PROVE  DiesOfWrites'
  BY <1>2 DEF TypeOK, OwnCall, OwnPipe, DiesOfWrites, alive, Calls, Made, Sets, Forked,
     Living, Places, Kids, SetEnv, requests, Goto, children
<1>3. ASSUME NEW w \in Workers, Pipe(w)
       PROVE  DiesOfWrites'
  BY <1>3 DEF TypeOK, OwnCall, OwnPipe, DiesOfWrites, alive, Calls, Made, Sets, Forked,
     Living, Places, Kids, Pipe, requests, Goto, Answered, children
<1>4. ASSUME NEW w \in Workers, Fork(w)
       PROVE  DiesOfWrites'
  BY <1>4 DEF TypeOK, OwnCall, OwnPipe, DiesOfWrites, alive, Calls, Made, Sets, Forked,
     Living, Places, Kids, Fork, requests, Goto, Inherits
<1>5. ASSUME NEW w \in Workers, ForkFails(w)
       PROVE  DiesOfWrites'
  BY <1>5 DEF TypeOK, OwnCall, OwnPipe, DiesOfWrites, alive, Calls, Made, Sets, Forked,
     Living, Places, Kids, ForkFails, requests, Goto, Return, children
<1>6. ASSUME NEW w \in Workers, CloseRead(w)
       PROVE  DiesOfWrites'
  BY <1>6 DEF TypeOK, OwnCall, OwnPipe, DiesOfWrites, alive, Calls, Made, Sets, Forked,
     Living, Places, Kids, CloseRead, requests, Goto, children
<1>7. ASSUME NEW w \in Workers, EpollCreate(w)
       PROVE  DiesOfWrites'
  BY <1>7 DEF TypeOK, OwnCall, OwnPipe, DiesOfWrites, alive, Calls, Made, Sets, Forked,
     Living, Places, Kids, EpollCreate, requests, Goto, children
<1>8. ASSUME NEW w \in Workers, Write(w)
       PROVE  DiesOfWrites'
  <2>0. id[w] \in Made /\ id[w] \in Calls
    BY <1>8, IdIsCall DEF Write, requests
  <2>1. CASE readers[id[w]] = {}
    <3>1. calls[id[w]].len > 0 /\ id[w] \notin written
      BY <1>8 DEF OwnPipe, Write, requests, Sets
    <3>2. kid[id[w]] # "none" /\ kid[id[w]] \notin Living
      BY <1>8, <2>0, <2>1 DEF OwnCall, OwnPipe, Write, requests, Forked
    <3>3. kid[id[w]] # "ended"
      BY <2>0, <3>1 DEF OwnPipe
    <3>4. kid[id[w]] \in {"crashed", "reaped"}
      BY <2>0, <3>2, <3>3 DEF TypeOK, Kids, Living
    <3>5. UNCHANGED <<calls, written, kid>>
      BY <1>8, <2>1 DEF Write, requests, children
    <3>. QED
      BY <2>0, <3>1, <3>4, <3>5 DEF DiesOfWrites, Made
  <2>2. CASE readers[id[w]] # {}
    BY <1>8, <2>2 DEF DiesOfWrites, Write, requests, alive
  <2>. QED
    BY <2>1, <2>2
<1>9. ASSUME NEW w \in Workers, CloseWrite(w)
       PROVE  DiesOfWrites'
  BY <1>9 DEF TypeOK, OwnCall, OwnPipe, DiesOfWrites, alive, Calls, Made, Sets, Forked,
     Living, Places, Kids, CloseWrite, requests, Goto, children
<1>10. ASSUME NEW w \in Workers, NEW k \in Calls, Wait(w, k)
       PROVE  DiesOfWrites'
  BY <1>10 DEF TypeOK, OwnCall, OwnPipe, DiesOfWrites, alive, Calls, Made, Sets, Forked,
     Living, Places, Kids, Wait, requests, Goto, Answered, Reaps, NotExited
<1>11. ASSUME NEW k \in Calls, ChildBlocks(k)
       PROVE  DiesOfWrites'
  BY <1>11 DEF TypeOK, OwnCall, OwnPipe, DiesOfWrites, alive, Calls, Made, Sets, Forked,
     Living, Places, Kids, ChildBlocks, requests, Becomes, ChildOnly
<1>12. ASSUME NEW k \in Calls, Exec(k)
       PROVE  DiesOfWrites'
  BY <1>12 DEF TypeOK, OwnCall, OwnPipe, DiesOfWrites, alive, Calls, Made, Sets, Forked,
     Living, Places, Kids, Exec, requests, Becomes, ChildOnly
<1>13. ASSUME NEW k \in Calls, CloneGoesOn(k)
       PROVE  DiesOfWrites'
  BY <1>13 DEF TypeOK, OwnCall, OwnPipe, DiesOfWrites, alive, Calls, Made, Sets, Forked,
     Living, Places, Kids, CloneGoesOn, requests, Becomes, ChildOnly, Answered
<1>14. ASSUME NEW k \in Calls, ScriptEnds(k)
       PROVE  DiesOfWrites'
  BY <1>14 DEF TypeOK, OwnCall, OwnPipe, DiesOfWrites, alive, Calls, Made, Sets, Forked,
     Living, Places, Kids, ScriptEnds, requests, Becomes, ChildOnly, Answered, Drops
<1>15. ASSUME NEW k \in Calls, ScriptCrashes(k)
       PROVE  DiesOfWrites'
  BY <1>15 DEF TypeOK, OwnCall, OwnPipe, DiesOfWrites, alive, Calls, Made, Sets, Forked,
     Living, Places, Kids, ScriptCrashes, requests, Becomes, ChildOnly, Drops
<1>16. CASE UNCHANGED vars
  BY <1>16 DEF TypeOK, OwnCall, OwnPipe, DiesOfWrites, alive, Calls, Made, Sets, Forked,
     Living, Places, Kids, vars, requests, process, children
<1>. QED
  BY <1>1, <1>2, <1>3, <1>4, <1>5, <1>6, <1>7, <1>8, <1>9, <1>10, <1>11, <1>12, <1>13,
     <1>14, <1>15, <1>16 DEF Next, Call, Child

-----------------------------------------------------------------------------
(* Children and the calls that wait for them.                              *)

Busy == {w \in Workers : pc[w] \in Forked}

\* A step leaves both sets as they are, or adds one to each, or takes one from each.
Paired ==
  \/ Unreaped' = Unreaped /\ Busy' = Busy
  \/ \E k \in Calls \ Unreaped, w \in Workers \ Busy : Unreaped' = Unreaped \cup {k} /\ Busy' = Busy \cup {w}
  \/ \E k \in Unreaped, w \in Busy : Unreaped' = Unreaped \ {k} /\ Busy' = Busy \ {w}

\* fork() and wait() change both, and no other step does.
LEMMA CountStep == IInv /\ [Next]_vars => Paired
<1>. SUFFICES ASSUME TypeOK, OwnCall, [Next]_vars
              PROVE  Paired
  BY DEF IInv
<1>1. ASSUME NEW w \in Workers, NEW h \in Handlers, NEW script \in Scripts,
              NEW fields \in FieldSets, NEW len \in Lengths, Begin(w, h, script, fields, len)
       PROVE  Paired
  <2>1. CASE script = "missing"
    BY <1>1, <2>1 DEF Paired, Unreaped, Busy, Begin, children
  <2>2. CASE script # "missing"
    BY <1>1, <2>2 DEF Paired, TypeOK, Unreaped, Busy, Forked, Begin, Goto, children
  <2>. QED
    BY <2>1, <2>2
<1>2. ASSUME NEW w \in Workers, SetEnv(w)
       PROVE  Paired
  BY <1>2 DEF Paired, TypeOK, Unreaped, Busy, Forked, SetEnv, requests, Goto, children
<1>3. ASSUME NEW w \in Workers, Pipe(w)
       PROVE  Paired
  <2>1. CASE fds + 2 <= NFds
    BY <1>3, <2>1 DEF Paired, TypeOK, Unreaped, Busy, Forked, Pipe, requests, Goto, children
  <2>2. CASE ~(fds + 2 <= NFds)
    BY <1>3, <2>2 DEF Paired, TypeOK, Unreaped, Busy, Forked, Pipe, requests, Goto, children
  <2>. QED
    BY <2>1, <2>2
<1>4. ASSUME NEW w \in Workers, Fork(w)
       PROVE  Paired
  <2>1. id[w] \in Calls /\ id[w] \notin Unreaped
    BY <1>4, IdIsCall DEF OwnCall, Fork, requests, Sets, Unreaped
  <2>2. Unreaped' = Unreaped \cup {id[w]}
    BY <1>4, <2>1 DEF TypeOK, Unreaped, Fork, requests
  <2>3. w \notin Busy /\ Busy' = Busy \cup {w}
    BY <1>4 DEF TypeOK, Busy, Forked, Fork, requests, Goto
  <2>. QED
    BY <2>1, <2>2, <2>3 DEF Paired, Unreaped, Busy
<1>5. ASSUME NEW w \in Workers, ForkFails(w)
       PROVE  Paired
  BY <1>5 DEF Paired, TypeOK, Unreaped, Busy, Forked, ForkFails, requests, Goto, Return, children
<1>6. ASSUME NEW w \in Workers, CloseRead(w)
       PROVE  Paired
  BY <1>6 DEF Paired, TypeOK, Unreaped, Busy, Forked, CloseRead, requests, Goto, children
<1>7. ASSUME NEW w \in Workers, EpollCreate(w)
       PROVE  Paired
  BY <1>7 DEF Paired, TypeOK, Unreaped, Busy, Forked, EpollCreate, requests, Goto, children
<1>8. ASSUME NEW w \in Workers, Write(w)
       PROVE  Paired
  <2>1. CASE readers[id[w]] = {}
    BY <1>8, <2>1 DEF Paired, TypeOK, Unreaped, Busy, Forked, Write, requests, Goto, process, children
  <2>2. CASE readers[id[w]] # {}
    BY <1>8, <2>2 DEF Paired, TypeOK, Unreaped, Busy, Forked, Write, requests, Goto, process, children
  <2>. QED
    BY <2>1, <2>2
<1>9. ASSUME NEW w \in Workers, CloseWrite(w)
       PROVE  Paired
  BY <1>9 DEF Paired, TypeOK, Unreaped, Busy, Forked, CloseWrite, requests, Goto, children
<1>10. ASSUME NEW w \in Workers, NEW k \in Calls, Wait(w, k)
       PROVE  Paired
  <2>1. k \in Unreaped /\ w \in Busy
    BY <1>10 DEF Unreaped, Busy, Forked, Wait, requests, Reaps
  <2>2. Unreaped' = Unreaped \ {k}
    BY <1>10 DEF TypeOK, Unreaped, Wait, requests
  <2>3. Busy' = Busy \ {w}
    BY <1>10 DEF TypeOK, Busy, Forked, Wait, requests, Goto
  <2>. QED
    BY <2>1, <2>2, <2>3 DEF Paired, Unreaped, Busy
<1>11. ASSUME NEW k \in Calls, ChildBlocks(k)
       PROVE  Paired
  BY <1>11 DEF Paired, TypeOK, Unreaped, Busy, Forked, ChildBlocks, requests, Becomes, ChildOnly
<1>12. ASSUME NEW k \in Calls, Exec(k)
       PROVE  Paired
  BY <1>12 DEF Paired, TypeOK, Unreaped, Busy, Forked, Exec, requests, Becomes, ChildOnly
<1>13. ASSUME NEW k \in Calls, CloneGoesOn(k)
       PROVE  Paired
  BY <1>13 DEF Paired, TypeOK, Unreaped, Busy, Forked, CloneGoesOn, requests, Becomes, ChildOnly, Answered
<1>14. ASSUME NEW k \in Calls, ScriptEnds(k)
       PROVE  Paired
  BY <1>14 DEF Paired, TypeOK, Unreaped, Busy, Forked, ScriptEnds, requests, Becomes, ChildOnly,
     Answered, Drops
<1>15. ASSUME NEW k \in Calls, ScriptCrashes(k)
       PROVE  Paired
  BY <1>15 DEF Paired, TypeOK, Unreaped, Busy, Forked, ScriptCrashes, requests, Becomes, ChildOnly, Drops
<1>16. CASE UNCHANGED vars
  BY <1>16 DEF Paired, Unreaped, Busy, vars, requests, process, children
<1>. QED
  BY <1>1, <1>2, <1>3, <1>4, <1>5, <1>6, <1>7, <1>8, <1>9, <1>10, <1>11, <1>12, <1>13,
     <1>14, <1>15, <1>16 DEF Next, Call, Child

\* There are as many of the ones as of the others.
LEMMA WaitsMatchStep == IInv /\ [Next]_vars => WaitsMatchChildren'
<1>. SUFFICES ASSUME IInv, [Next]_vars
              PROVE  WaitsMatchChildren'
  OBVIOUS
<1>1. IsFiniteSet(Unreaped) /\ IsFiniteSet(Busy)
  <2>1. IsFiniteSet(Calls)
    BY FS_Interval, BoundsAssumption DEF Calls
  <2>. QED
    BY <2>1, WorkersAssumption, FS_Subset DEF Unreaped, Busy
<1>2. Cardinality(Unreaped) = Cardinality(Busy)
  BY DEF IInv, WaitsMatchChildren, Busy, Forked
<1>3. Paired
  BY CountStep
<1>4. Cardinality(Unreaped') = Cardinality(Busy')
  <2>1. CASE Unreaped' = Unreaped /\ Busy' = Busy
    BY <1>2, <2>1
  <2>2. ASSUME NEW k \in Calls \ Unreaped, NEW w \in Workers \ Busy,
               Unreaped' = Unreaped \cup {k}, Busy' = Busy \cup {w}
        PROVE  Cardinality(Unreaped') = Cardinality(Busy')
    <3>1. Cardinality(Unreaped') = Cardinality(Unreaped) + 1
      BY <1>1, <2>2, FS_AddElement
    <3>2. Cardinality(Busy') = Cardinality(Busy) + 1
      BY <1>1, <2>2, FS_AddElement
    <3>. QED
      BY <1>2, <3>1, <3>2
  <2>3. ASSUME NEW k \in Unreaped, NEW w \in Busy,
               Unreaped' = Unreaped \ {k}, Busy' = Busy \ {w}
        PROVE  Cardinality(Unreaped') = Cardinality(Busy')
    BY <1>1, <1>2, <2>3, FS_RemoveElement
  <2>. QED
    BY <1>3, <2>1, <2>2, <2>3 DEF Paired
<1>. QED
  BY <1>4 DEF WaitsMatchChildren, Busy, Forked


-----------------------------------------------------------------------------
(* Descriptors.                                                            *)

\* A step opens, closes or leaks what its call has.
LEMMA FdsStep == IInv /\ [Next]_vars => FdsCounted'
<1>. SUFFICES ASSUME TypeOK, OwnCall, OwnEpoll, FdsCounted, [Next]_vars
              PROVE  FdsCounted'
  BY DEF IInv
<1>1. /\ IsFiniteSet(HasPipe) /\ IsFiniteSet(HasEnd) /\ IsFiniteSet(HasEpoll)
      /\ Cardinality(HasPipe) \in Nat /\ Cardinality(HasEnd) \in Nat /\ Cardinality(HasEpoll) \in Nat
  BY WorkersAssumption, FS_Subset, FS_CardinalityType DEF HasPipe, HasEnd, HasEpoll
<1>2. ASSUME NEW w \in Workers, NEW h \in Handlers, NEW script \in Scripts,
              NEW fields \in FieldSets, NEW len \in Lengths, Begin(w, h, script, fields, len)
       PROVE  FdsCounted'
  <2>1. UNCHANGED <<HasPipe, HasEnd, HasEpoll, fds, leaks>>
    <3>1. CASE script = "missing"
      BY <1>2, <3>1 DEF TypeOK, OwnCall, OwnEpoll, HasPipe, HasEnd, HasEpoll, Made, Sets,
         Begin, Goto, Answered, Setting, children
    <3>2. CASE script # "missing"
      BY <1>2, <3>2 DEF TypeOK, OwnCall, OwnEpoll, HasPipe, HasEnd, HasEpoll, Made, Sets,
         Begin, Goto, Answered, Setting, children
    <3>. QED
      BY <3>1, <3>2
  <2>. QED
    BY <2>1 DEF FdsCounted
<1>3. ASSUME NEW w \in Workers, SetEnv(w)
       PROVE  FdsCounted'
  <2>1. UNCHANGED <<HasPipe, HasEnd, HasEpoll, fds, leaks>>
    BY <1>3 DEF TypeOK, OwnCall, OwnEpoll, HasPipe, HasEnd, HasEpoll, Made, Sets, SetEnv, requests,
       Goto, children
  <2>. QED
    BY <2>1 DEF FdsCounted
<1>4. ASSUME NEW w \in Workers, Pipe(w)
       PROVE  FdsCounted'
  <2>1. CASE fds + 2 <= NFds
    <3>1. /\ w \notin HasPipe /\ HasPipe' = HasPipe \cup {w} /\ UNCHANGED <<HasEnd, HasEpoll, leaks>>
          /\ fds' = fds + 2
      BY <1>4, <2>1 DEF TypeOK, OwnCall, OwnEpoll, HasPipe, HasEnd, HasEpoll, Made, Sets,
         Pipe, requests, Goto, Answered, children
    <3>2. Cardinality(HasPipe') = Cardinality(HasPipe) + 1
      BY <1>1, <3>1, FS_AddElement
    <3>. QED
      BY <1>1, <3>1, <3>2 DEF FdsCounted
  <2>2. CASE ~(fds + 2 <= NFds)
    <3>1. UNCHANGED <<HasPipe, HasEnd, HasEpoll, fds, leaks>>
      BY <1>4, <2>2 DEF TypeOK, OwnCall, OwnEpoll, HasPipe, HasEnd, HasEpoll, Made, Sets,
         Pipe, requests, Goto, Answered, children
    <3>. QED
      BY <3>1 DEF FdsCounted
  <2>. QED
    BY <2>1, <2>2
<1>5. ASSUME NEW w \in Workers, Fork(w)
       PROVE  FdsCounted'
  <2>1. UNCHANGED <<HasPipe, HasEnd, HasEpoll, fds, leaks>>
    BY <1>5 DEF TypeOK, OwnCall, OwnEpoll, HasPipe, HasEnd, HasEpoll, Made, Sets, Fork, requests,
       Goto, Inherits
  <2>. QED
    BY <2>1 DEF FdsCounted
<1>6. ASSUME NEW w \in Workers, ForkFails(w)
       PROVE  FdsCounted'
  <2>1. /\ w \in HasPipe /\ HasPipe' = HasPipe \ {w} /\ UNCHANGED <<HasEnd, HasEpoll, fds>>
        /\ leaks' = leaks + 2
    BY <1>6 DEF TypeOK, OwnCall, OwnEpoll, HasPipe, HasEnd, HasEpoll, Made, Sets, ForkFails, requests,
       Goto, Return, children
    <2>2. Cardinality(HasPipe') = Cardinality(HasPipe) - 1
      BY <1>1, <2>1, FS_RemoveElement
  <2>. QED
    BY <1>1, <2>1, <2>2 DEF FdsCounted
<1>7. ASSUME NEW w \in Workers, CloseRead(w)
       PROVE  FdsCounted'
  <2>1. /\ w \in HasPipe /\ HasPipe' = HasPipe \ {w} /\ UNCHANGED <<HasEpoll, leaks>>
        /\ w \notin HasEnd /\ HasEnd' = HasEnd \cup {w} /\ fds' = fds - 1
    BY <1>7 DEF TypeOK, OwnCall, OwnEpoll, HasPipe, HasEnd, HasEpoll, Made, Sets, CloseRead, requests,
       Goto, children
    <2>2. Cardinality(HasPipe') = Cardinality(HasPipe) - 1
      BY <1>1, <2>1, FS_RemoveElement
    <2>3. Cardinality(HasEnd') = Cardinality(HasEnd) + 1
      BY <1>1, <2>1, FS_AddElement
  <2>. QED
    BY <1>1, <2>1, <2>2, <2>3 DEF FdsCounted
<1>8. ASSUME NEW w \in Workers, EpollCreate(w)
       PROVE  FdsCounted'
  <2>1. CASE fds < NFds
    <3>0. /\ pc[w] = "epoll" /\ epolls' = epolls \cup {id[w]} /\ fds' = fds + 1
          /\ UNCHANGED <<id, leaks>>
          /\ pc' = [pc EXCEPT ![w] = "write"] \/ pc' = [pc EXCEPT ![w] = "end"]
      BY <1>8, <2>1 DEF EpollCreate, requests, Goto
    <3>a. \A v \in Workers : v # w => pc'[v] = pc[v] /\ (pc[v] # "idle" => id[v] # id[w])
      BY <3>0 DEF TypeOK, OwnCall
    <3>b. pc'[w] \in {"write", "end"}
      BY <3>0 DEF TypeOK
    <3>1. /\ w \notin HasEpoll /\ HasEpoll' = HasEpoll \cup {w} /\ UNCHANGED <<HasPipe, leaks>>
          /\ fds' = fds + 1 /\ UNCHANGED HasEnd
      BY <3>0, <3>a, <3>b DEF HasPipe, HasEnd, HasEpoll
    <3>2. Cardinality(HasEpoll') = Cardinality(HasEpoll) + 1
      BY <1>1, <3>1, FS_AddElement
    <3>. QED
      BY <1>1, <3>1, <3>2 DEF FdsCounted
  <2>2. CASE ~(fds < NFds)
    <3>1. UNCHANGED <<HasPipe, HasEnd, HasEpoll, fds, leaks>>
      BY <1>8, <2>2 DEF TypeOK, OwnCall, OwnEpoll, HasPipe, HasEnd, HasEpoll, Made, Sets,
         EpollCreate, requests, Goto, children
    <3>. QED
      BY <3>1 DEF FdsCounted
  <2>. QED
    BY <2>1, <2>2
<1>9. ASSUME NEW w \in Workers, Write(w)
       PROVE  FdsCounted'
  <2>1. UNCHANGED <<HasPipe, HasEnd, HasEpoll, fds, leaks>>
    <3>1. CASE readers[id[w]] = {}
      BY <1>9, <3>1 DEF TypeOK, OwnCall, OwnEpoll, HasPipe, HasEnd, HasEpoll, Made, Sets,
         Write, requests, Goto, process, children
    <3>2. CASE readers[id[w]] # {}
      BY <1>9, <3>2 DEF TypeOK, OwnCall, OwnEpoll, HasPipe, HasEnd, HasEpoll, Made, Sets,
         Write, requests, Goto, process, children
    <3>. QED
      BY <3>1, <3>2
  <2>. QED
    BY <2>1 DEF FdsCounted
<1>10. ASSUME NEW w \in Workers, CloseWrite(w)
       PROVE  FdsCounted'
  <2>1. /\ w \in HasEnd /\ HasEnd' = HasEnd \ {w} /\ UNCHANGED <<HasPipe, HasEpoll, leaks>>
        /\ fds' = fds - 1
    BY <1>10 DEF TypeOK, OwnCall, OwnEpoll, HasPipe, HasEnd, HasEpoll, Made, Sets,
       CloseWrite, requests, Goto, children, WriteEndClosed
    <2>2. Cardinality(HasEnd') = Cardinality(HasEnd) - 1
      BY <1>1, <2>1, FS_RemoveElement
  <2>. QED
    BY <1>1, <2>1, <2>2 DEF FdsCounted
<1>11. ASSUME NEW w \in Workers, NEW k \in Calls, Wait(w, k)
       PROVE  FdsCounted'
  <2>1. CASE id[w] \in epolls
    <3>1. /\ w \in HasEpoll /\ HasEpoll' = HasEpoll \ {w} /\ UNCHANGED <<HasPipe, HasEnd, fds>>
          /\ leaks' = leaks + 1
      BY <1>11, <2>1 DEF TypeOK, OwnCall, OwnEpoll, HasPipe, HasEnd, HasEpoll, Made, Sets,
         Wait, requests, Goto, Answered, Reaps, NotExited
    <3>2. Cardinality(HasEpoll') = Cardinality(HasEpoll) - 1
      BY <1>1, <3>1, FS_RemoveElement
    <3>. QED
      BY <1>1, <3>1, <3>2 DEF FdsCounted
  <2>2. CASE id[w] \notin epolls
    <3>1. UNCHANGED <<HasPipe, HasEnd, HasEpoll, fds>> /\ leaks' = leaks + 0
      BY <1>11, <2>2 DEF TypeOK, OwnCall, OwnEpoll, HasPipe, HasEnd, HasEpoll, Made, Sets,
         Wait, requests, Goto, Answered, Reaps, NotExited
    <3>. QED
      BY <3>1 DEF FdsCounted
  <2>. QED
    BY <2>1, <2>2
<1>12. ASSUME NEW k \in Calls, ChildBlocks(k)
       PROVE  FdsCounted'
  <2>1. UNCHANGED <<HasPipe, HasEnd, HasEpoll, fds, leaks>>
    BY <1>12 DEF TypeOK, OwnCall, OwnEpoll, HasPipe, HasEnd, HasEpoll, Made, Sets,
       ChildBlocks, requests, Becomes, ChildOnly
  <2>. QED
    BY <2>1 DEF FdsCounted
<1>13. ASSUME NEW k \in Calls, Exec(k)
       PROVE  FdsCounted'
  <2>1. UNCHANGED <<HasPipe, HasEnd, HasEpoll, fds, leaks>>
    BY <1>13 DEF TypeOK, OwnCall, OwnEpoll, HasPipe, HasEnd, HasEpoll, Made, Sets, Exec, requests,
       Becomes, ChildOnly
  <2>. QED
    BY <2>1 DEF FdsCounted
<1>14. ASSUME NEW k \in Calls, CloneGoesOn(k)
       PROVE  FdsCounted'
  <2>1. UNCHANGED <<HasPipe, HasEnd, HasEpoll, fds, leaks>>
    BY <1>14 DEF TypeOK, OwnCall, OwnEpoll, HasPipe, HasEnd, HasEpoll, Made, Sets,
       CloneGoesOn, requests, Becomes, ChildOnly, Answered
  <2>. QED
    BY <2>1 DEF FdsCounted
<1>15. ASSUME NEW k \in Calls, ScriptEnds(k)
       PROVE  FdsCounted'
  <2>1. UNCHANGED <<HasPipe, HasEnd, HasEpoll, fds, leaks>>
    BY <1>15 DEF TypeOK, OwnCall, OwnEpoll, HasPipe, HasEnd, HasEpoll, Made, Sets,
       ScriptEnds, requests, Becomes, ChildOnly, Answered, Drops
  <2>. QED
    BY <2>1 DEF FdsCounted
<1>16. ASSUME NEW k \in Calls, ScriptCrashes(k)
       PROVE  FdsCounted'
  <2>1. UNCHANGED <<HasPipe, HasEnd, HasEpoll, fds, leaks>>
    BY <1>16 DEF TypeOK, OwnCall, OwnEpoll, HasPipe, HasEnd, HasEpoll, Made, Sets,
       ScriptCrashes, requests, Becomes, ChildOnly, Drops
  <2>. QED
    BY <2>1 DEF FdsCounted
<1>17. CASE UNCHANGED vars
  BY <1>17 DEF FdsCounted, HasPipe, HasEnd, HasEpoll, vars, requests, process, children
<1>. QED
  BY <1>2, <1>3, <1>4, <1>5, <1>6, <1>7, <1>8, <1>9, <1>10, <1>11, <1>12, <1>13, <1>14,
     <1>15, <1>16, <1>17 DEF Next, Call, Child

\* pipe() fails when there are no two descriptors left.
FullPipe == \A u \in Workers : PipeFails(u) => ~(fds + 2 <= NFds)

\* No other step ends a call there.
LEMMA PipeFailsStep == IInv /\ [Next]_vars => FullPipe
<1>. SUFFICES ASSUME TypeOK, [Next]_vars
              PROVE  FullPipe
  BY DEF IInv
<1>1. ASSUME NEW w \in Workers, NEW h \in Handlers, NEW script \in Scripts,
              NEW fields \in FieldSets, NEW len \in Lengths, Begin(w, h, script, fields, len)
       PROVE  FullPipe
  <2>1. CASE script = "missing"
    BY <1>1, <2>1 DEF TypeOK, FullPipe, PipeFails, Begin, Goto, Answered, Setting,
       children
  <2>2. CASE script # "missing"
    BY <1>1, <2>2 DEF TypeOK, FullPipe, PipeFails, Begin, Goto, Answered, Setting,
       children
  <2>. QED
    BY <2>1, <2>2
<1>2. ASSUME NEW w \in Workers, SetEnv(w)
       PROVE  FullPipe
  BY <1>2 DEF TypeOK, FullPipe, PipeFails, SetEnv, requests, Goto, children
<1>3. ASSUME NEW w \in Workers, Pipe(w)
       PROVE  FullPipe
  <2>1. CASE fds + 2 <= NFds
    BY <1>3, <2>1 DEF TypeOK, FullPipe, PipeFails, Pipe, requests, Goto, Answered, children
  <2>2. CASE ~(fds + 2 <= NFds)
    BY <1>3, <2>2 DEF TypeOK, FullPipe, PipeFails, Pipe, requests, Goto, Answered, children
  <2>. QED
    BY <2>1, <2>2
<1>4. ASSUME NEW w \in Workers, Fork(w)
       PROVE  FullPipe
  BY <1>4 DEF TypeOK, FullPipe, PipeFails, Fork, requests, Goto, Inherits
<1>5. ASSUME NEW w \in Workers, ForkFails(w)
       PROVE  FullPipe
  BY <1>5 DEF TypeOK, FullPipe, PipeFails, ForkFails, requests, Goto, Return, children
<1>6. ASSUME NEW w \in Workers, CloseRead(w)
       PROVE  FullPipe
  BY <1>6 DEF TypeOK, FullPipe, PipeFails, CloseRead, requests, Goto, children
<1>7. ASSUME NEW w \in Workers, EpollCreate(w)
       PROVE  FullPipe
  BY <1>7 DEF TypeOK, FullPipe, PipeFails, EpollCreate, requests, Goto, children
<1>8. ASSUME NEW w \in Workers, Write(w)
       PROVE  FullPipe
  <2>1. CASE readers[id[w]] = {}
    BY <1>8, <2>1 DEF TypeOK, FullPipe, PipeFails, Write, requests, Goto, process, children
  <2>2. CASE readers[id[w]] # {}
    BY <1>8, <2>2 DEF TypeOK, FullPipe, PipeFails, Write, requests, Goto, process, children
  <2>. QED
    BY <2>1, <2>2
<1>9. ASSUME NEW w \in Workers, CloseWrite(w)
       PROVE  FullPipe
  BY <1>9 DEF TypeOK, FullPipe, PipeFails, CloseWrite, requests, Goto, children
<1>10. ASSUME NEW w \in Workers, NEW k \in Calls, Wait(w, k)
       PROVE  FullPipe
  BY <1>10 DEF TypeOK, FullPipe, PipeFails, Wait, requests, Goto, Answered, Reaps, NotExited
<1>11. ASSUME NEW k \in Calls, ChildBlocks(k)
       PROVE  FullPipe
  BY <1>11 DEF TypeOK, FullPipe, PipeFails, ChildBlocks, requests, Becomes, ChildOnly
<1>12. ASSUME NEW k \in Calls, Exec(k)
       PROVE  FullPipe
  BY <1>12 DEF TypeOK, FullPipe, PipeFails, Exec, requests, Becomes, ChildOnly
<1>13. ASSUME NEW k \in Calls, CloneGoesOn(k)
       PROVE  FullPipe
  BY <1>13 DEF TypeOK, FullPipe, PipeFails, CloneGoesOn, requests, Becomes, ChildOnly, Answered
<1>14. ASSUME NEW k \in Calls, ScriptEnds(k)
       PROVE  FullPipe
  BY <1>14 DEF TypeOK, FullPipe, PipeFails, ScriptEnds, requests, Becomes, ChildOnly, Answered, Drops
<1>15. ASSUME NEW k \in Calls, ScriptCrashes(k)
       PROVE  FullPipe
  BY <1>15 DEF TypeOK, FullPipe, PipeFails, ScriptCrashes, requests, Becomes, ChildOnly, Drops
<1>16. CASE UNCHANGED vars
  BY <1>16 DEF TypeOK, FullPipe, PipeFails, vars, requests, process, children
<1>. QED
  BY <1>1, <1>2, <1>3, <1>4, <1>5, <1>6, <1>7, <1>8, <1>9, <1>10, <1>11, <1>12, <1>13,
     <1>14, <1>15, <1>16 DEF Next, Call, Child

-----------------------------------------------------------------------------
(* The invariant, and what follows.                                        *)

\* The invariant holds in every state (processor.cc:35-111).
THEOREM CgiInvariant == Spec => []IInv
<1>1. Init => IInv
  <2>. SUFFICES ASSUME Init
                PROVE  IInv
    OBVIOUS
  <2>1. TypeOK
    <3>1. env \in Vars /\ kidEnv \in [Calls -> Vars]
      BY BoundsAssumption DEF Init, Vars
    <3>2. calls = <<>> /\ Len(calls) <= MaxCalls /\ written = {} /\ dead = FALSE
      BY BoundsAssumption DEF Init
    <3>3. pc \in [Workers -> Places] /\ id \in [Workers -> 0 .. MaxCalls] /\ kid \in [Calls -> Kids]
      BY BoundsAssumption DEF Init, Places, Kids
    <3>4. /\ readers \in [Calls -> SUBSET (0 .. MaxCalls)]
          /\ answers \in [Calls -> Seq({"404", "500", "script"})]
      BY DEF Init
    <3>5. calls \in Seq(Requests) /\ headers \in [Handlers -> [Fields -> Seq(Nat)]]
      BY <3>2 DEF Init
    <3>6. written \subseteq Made
      BY <3>2
    <3>7. dead \in BOOLEAN
      BY <3>2
    <3>. QED
      BY <3>1, <3>2, <3>3, <3>4, <3>5, <3>6, <3>7 DEF TypeOK
  <2>2. Made = {} /\ \A w \in Workers : pc[w] = "idle"
    BY DEF Init, Made
  <2>3. OwnCall /\ OwnEnv /\ OwnAnswer /\ OwnPipe
    BY <2>2 DEF Init, OwnCall, OwnEnv, OwnAnswer, OwnPipe, Sets, Forked, Living
  <2>h. OwnHeaders
    BY <2>2 DEF Init, OwnHeaders, Holds
  <2>4. DiesOfWrites
    BY DEF Init, DiesOfWrites
  <2>5. WaitsMatchChildren
    <3>1. Unreaped = {} /\ {w \in Workers : pc[w] \in {"close", "epoll", "write", "end", "wait"}} = {}
      BY DEF Init, Unreaped
    <3>. QED
      BY <3>1 DEF WaitsMatchChildren
  <2>6. OwnEpoll
    BY <2>2 DEF Init, OwnEpoll
  <2>7. FdsCounted
    <3>1. HasPipe = {} /\ HasEnd = {} /\ HasEpoll = {}
      BY <2>2 DEF HasPipe, HasEnd, HasEpoll
    <3>. QED
      BY <3>1, FS_EmptySet DEF Init, FdsCounted
  <2>. QED
    BY <2>1, <2>3, <2>h, <2>4, <2>5, <2>6, <2>7 DEF IInv
<1>2. IInv /\ [Next]_vars => IInv'
  BY TypeStep, OwnCallStep, OwnHeadersStep, OwnEnvStep, OwnAnswerStep, OwnPipeStep, OwnEpollStep,
     DeathStep, WaitsMatchStep, FdsStep DEF IInv
<1>. QED
  BY <1>1, <1>2, PTL DEF Spec

\* However calls interleave and whoever reaps whose child, there is one child for each
\* call that waits or will, so that wait() never fails (processor.cc:103-105).
THEOREM WaitsAlwaysMatch == Spec => []WaitsMatchChildren
BY CgiInvariant, PTL DEF IInv

\* A script has its own request's URL and the fields last sent on its handler, unless two
\* calls were setting theirs at the same time (processor.cc:48-57, 156-221, request.cc:68-76).
THEOREM EnvIsAlwaysOfHandler == Spec => []EnvIsOfHandler
<1>1. IInv => EnvIsOfHandler
  BY DEF IInv, OwnEnv, EnvIsOfHandler, EnvOf, IsOf, Unreaped
<1>. QED
  BY <1>1, CgiInvariant, PTL

\* As long as no script crashes, what a script answers is all its client gets
\* (processor.cc:104-110).
THEOREM OneAnswerAlways == Spec => []OneAnswer
<1>1. IInv => OneAnswer
  <2>. SUFFICES ASSUME IInv
                PROVE  OneAnswer
    OBVIOUS
  <2>1. Made \subseteq Calls
    BY BoundsAssumption DEF IInv, TypeOK, Made, Calls
  <2>. QED
    BY <2>1 DEF IInv, OwnAnswer, OneAnswer
<1>. QED
  BY <1>1, CgiInvariant, PTL

\* The process dies only of a script that ended before its body was written, or of a body
\* longer than the array of events (processor.cc:86-92).
THEOREM DeathIsOfWrites == Spec => []DiesOfWrites
BY CgiInvariant, PTL DEF IInv

\* A running call has two descriptors at most, so pipe() fails only of what calls that have
\* returned left open (processor.cc:50, 77).
THEOREM PipeFailsOnlyOfLeaks == Spec => PipeFailsOfLeaks
<1>. DEFINE Runs == {v \in Workers : Running(v)}
            Fails == \A w \in Workers : PipeFails(w) => leaks >= NFds - 1 - 2 * Cardinality(Runs)
<1>1. IInv => fds <= leaks + 2 * Cardinality(Runs)
  <2>. SUFFICES ASSUME IInv
                PROVE  fds <= leaks + 2 * Cardinality(Runs)
    OBVIOUS
  <2>. DEFINE Rest == {v \in Workers : pc[v] \in {"epoll", "write", "end", "wait"}}
  <2>1. IsFiniteSet(HasPipe) /\ IsFiniteSet(Rest) /\ HasPipe \cap Rest = {} /\ Runs = HasPipe \cup Rest
    BY WorkersAssumption, FS_Subset DEF HasPipe, Running
  <2>2. Cardinality(Runs) = Cardinality(HasPipe) + Cardinality(Rest)
    <3>1. Cardinality(HasPipe \cup Rest)
            = Cardinality(HasPipe) + Cardinality(Rest) - Cardinality(HasPipe \cap Rest)
      BY <2>1, FS_Union
    <3>2. Cardinality(HasPipe \cap Rest) = 0
      BY <2>1, FS_EmptySet
    <3>3. Cardinality(HasPipe) \in Nat /\ Cardinality(Rest) \in Nat
      BY <2>1, FS_CardinalityType
    <3>4. Runs = HasPipe \cup Rest
      BY <2>1
    <3>. HIDE DEF Runs, Rest
    <3>. QED
      BY <3>1, <3>2, <3>3, <3>4
  <2>3. HasEnd \in SUBSET Rest /\ HasEpoll \in SUBSET Rest
    BY DEF HasEnd, HasEpoll
  <2>4. Cardinality(HasEnd) <= Cardinality(Rest) /\ Cardinality(HasEpoll) <= Cardinality(Rest)
    BY <2>1, <2>3, FS_Subset
  <2>5. /\ Cardinality(HasPipe) \in Nat /\ Cardinality(Rest) \in Nat
        /\ Cardinality(HasEnd) \in Nat /\ Cardinality(HasEpoll) \in Nat
    BY <2>1, <2>3, FS_Subset, FS_CardinalityType
  <2>. QED
    BY <2>2, <2>4, <2>5 DEF IInv, FdsCounted
<1>2. IInv /\ [Next]_vars => [Fails]_vars
  <2>. SUFFICES ASSUME IInv, Next, NEW w \in Workers, PipeFails(w)
                PROVE  leaks >= NFds - 1 - 2 * Cardinality(Runs)
    BY DEF PipeFails
  <2>1. fds + 2 > NFds
    BY PipeFailsStep, BoundsAssumption DEF FullPipe, IInv, FdsCounted
  <2>2. Cardinality(Runs) \in Nat
    BY WorkersAssumption, FS_Subset, FS_CardinalityType
  <2>. QED
    BY <1>1, <2>1, <2>2, BoundsAssumption DEF IInv, FdsCounted
<1>. QED
  BY <1>2, CgiInvariant, PTL DEF Spec, PipeFailsOfLeaks
=============================================================================
