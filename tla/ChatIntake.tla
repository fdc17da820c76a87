----------------------------- MODULE ChatIntake -----------------------------
(***************************************************************************)
(* How a typed message becomes a Turn: the chat page (ConversationApp.boot, *)
(* recoverPending, send and retry in apps/server/src/ui/client.ts), the     *)
(* HTTP handlers of apps/server/src/app.ts and the idempotent intake of the *)
(* repository (postMessage, postRetry, lookupIdempotencyForSession).        *)
(*                                                                          *)
(* Boot enables Send as soon as it has a session and then awaits the        *)
(* recovery of the stored key, so the user may send beside it.              *)
(*                                                                          *)
(* One session, one page.  A request in flight may arrive late, after the   *)
(* page has given it up, or never; so may its reply.  A key is the ordinal  *)
(* of the request that was frozen with it (crypto.randomUUID); a body is    *)
(* the message and the UI context fetched for it.  Running the accepted Run *)
(* is RunEngine's subject: here it is active until it ends.                 *)
(***************************************************************************)
EXTENDS Naturals, Sequences, FiniteSets

CONSTANTS
  Invalid,       \* messages the request schema refuses
  MaxMessages,   \* bound: messages typed
  MaxSends,      \* bound: requests posted
  MaxContexts,   \* bound: changes of the UI context
  MaxReloads,    \* bound: reloads of the page
  MaxStops       \* bound: drains of the server

ASSUME IntakeAssumption ==
  /\ Invalid \subseteq Nat
  /\ MaxMessages \in Nat
  /\ MaxSends \in Nat
  /\ MaxContexts \in Nat
  /\ MaxReloads \in Nat
  /\ MaxStops \in Nat

VARIABLES
  context,     \* the UI context the page would fetch now
  typed,       \* messages typed so far; message n is frozen under key n
  frozen,      \* pendingRequest: [key, ctx], ctx 0 until it is fetched
  storedKey,   \* the pending key in localStorage
  phase,       \* what a send awaits, "idle" when none runs (sending)
  boot,        \* [at, key, run]: where boot is, the key it recovers, its Run
  awaited,     \* ordinal of the request whose reply it awaits
  ownRun,      \* the Run it follows (activeRunId)
  sent,        \* requests posted so far
  wire,        \* requests on their way
  replies,     \* replies on their way
  answered,    \* ghost: every reply the server gave
  rows,        \* turns with their Run, in order of creation
  accepted,    \* api_idempotency: key to [body, row]
  draining,
  reloads,
  stops

pageVars == <<typed, frozen, storedKey, phase, boot, awaited, ownRun>>
netVars == <<sent, wire, replies>>
serverVars == <<rows, accepted, draining, answered>>
budgetVars == <<context, reloads, stops>>
intakeVars == <<pageVars, netVars, serverVars, budgetVars>>

Key == 1 .. MaxMessages
Sends == 1 .. MaxSends
Body == [msg : Nat, ctx : Nat]
Statuses == {"accepted", "busy", "conflict", "invalid", "draining"}
BootSteps == {"asking", "answered", "looking", "looked", "hydrating", "up"}
Request == [n : Sends, key : Key, body : Body]
Reply == [n : Sends, key : Key, status : Statuses, row : Nat]

(* The values the variables take.                                           *)
IntakeTypeOK ==
  /\ context \in Nat
  /\ typed \in 0 .. MaxMessages
  /\ frozen \in [key : 0 .. MaxMessages, ctx : Nat]
  /\ storedKey \in 0 .. MaxMessages
  /\ phase \in {"idle", "freezing", "posting"}
  /\ boot \in [at : BootSteps, key : 0 .. MaxMessages, run : 0 .. Len(rows)]
  /\ awaited \in 0 .. MaxSends
  /\ ownRun \in 0 .. Len(rows)
  /\ sent \in 0 .. MaxSends
  /\ wire \subseteq Request
  /\ replies \subseteq Reply
  /\ answered \subseteq Reply
  /\ rows \in Seq([key : Key, body : Body, active : BOOLEAN])
  /\ accepted \in [Key -> [body : Body, row : 0 .. Len(rows)]]
  /\ draining \in BOOLEAN
  /\ reloads \in 0 .. MaxReloads
  /\ stops \in 0 .. MaxStops

Nothing == [key |-> 0, ctx |-> 0]
NotStored == [body |-> [msg |-> 0, ctx |-> 0], row |-> 0]

(* Boot reads the stored key once it has a session: it looks the key up, or *)
(* else asks for the active Run.                                            *)
BootFrom(key) ==
  [at |-> IF key = 0 THEN "looking" ELSE "asking", key |-> key, run |-> 0]

IntakeInit ==
  /\ context = 1
  /\ typed = 0
  /\ frozen = Nothing
  /\ storedKey = 0
  /\ phase = "idle"
  /\ boot = BootFrom(0)
  /\ awaited = 0
  /\ ownRun = 0
  /\ sent = 0
  /\ wire = {}
  /\ replies = {}
  /\ answered = {}
  /\ rows = << >>
  /\ accepted = [k \in Key |-> NotStored]
  /\ draining = FALSE
  /\ reloads = 0
  /\ stops = 0

-----------------------------------------------------------------------------
(* The page.                                                                *)

SendAllowed == phase = "idle" /\ ownRun = 0

(* A fresh send takes a new key and empties the input, then fetches the     *)
(* context.                                                                 *)
SendFresh ==
  /\ SendAllowed
  /\ frozen = Nothing
  /\ typed < MaxMessages
  /\ typed' = typed + 1
  /\ frozen' = [key |-> typed + 1, ctx |-> 0]
  /\ phase' = "freezing"
  /\ UNCHANGED <<storedKey, boot, awaited, ownRun, netVars, serverVars, budgetVars>>

Post(request) ==
  /\ sent < MaxSends
  /\ sent' = sent + 1
  /\ wire' = wire \union
       {[n |-> sent + 1, key |-> request.key,
         body |-> [msg |-> request.key, ctx |-> request.ctx]]}
  /\ frozen' = request
  /\ storedKey' = request.key
  /\ phase' = "posting"
  /\ awaited' = sent + 1
  /\ UNCHANGED <<typed, boot, ownRun, replies, serverVars, budgetVars>>

(* The fetched context joins the frozen request, which is posted at once.   *)
ContextFetched ==
  /\ phase = "freezing"
  /\ frozen # Nothing
  /\ Post([frozen EXCEPT !.ctx = context])

(* Boot's recovery dropped the request meanwhile: the send ends.            *)
NothingToPost ==
  /\ phase = "freezing"
  /\ frozen = Nothing
  /\ phase' = "idle"
  /\ UNCHANGED <<typed, frozen, storedKey, boot, awaited, ownRun, netVars, serverVars, budgetVars>>

(* Mutant: the resend fetches the context again.                            *)
ResendRefetching ==
  /\ SendAllowed
  /\ frozen # Nothing
  /\ Post([frozen EXCEPT !.ctx = context])

Resend ==
  /\ SendAllowed
  /\ frozen # Nothing
  /\ Post(frozen)

(* The request is given up: it or its reply may still be under way.         *)
NetworkFails ==
  /\ phase = "posting"
  /\ phase' = "idle"
  /\ awaited' = 0
  /\ UNCHANGED <<typed, frozen, storedKey, boot, ownRun, netVars, serverVars, budgetVars>>

(* clearPendingKey: whatever request the page holds goes with the key.      *)
DropFrozen == frozen' = Nothing /\ storedKey' = 0

(* 202: follow the Run.  A definitive refusal puts the text back in the     *)
(* input; busy and draining keep the frozen request.                        *)
ReplyArrives(r) ==
  /\ phase = "posting"
  /\ r.n = awaited
  /\ replies' = replies \ {r}
  /\ phase' = "idle"
  /\ awaited' = 0
  /\ CASE r.status = "accepted" -> DropFrozen /\ ownRun' = r.row
       [] r.status \in {"conflict", "invalid"} -> DropFrozen /\ UNCHANGED ownRun
       [] OTHER -> UNCHANGED <<frozen, storedKey, ownRun>>
  /\ UNCHANGED <<typed, boot, sent, wire, serverVars, budgetVars>>

(* The stream showed the Run's terminal event.                              *)
FollowEnds ==
  /\ ownRun # 0
  /\ ~ rows[ownRun].active
  /\ ownRun' = 0
  /\ UNCHANGED <<typed, frozen, storedKey, phase, boot, awaited, netVars, serverVars, budgetVars>>

(* A reload keeps the stored key alone, and boot starts over.               *)
ReloadPage ==
  /\ reloads < MaxReloads
  /\ reloads' = reloads + 1
  /\ frozen' = Nothing
  /\ awaited' = 0
  /\ ownRun' = 0
  /\ phase' = "idle"
  /\ boot' = BootFrom(storedKey)
  /\ UNCHANGED <<typed, storedKey, netVars, serverVars, context, stops>>

BootMoves(to) ==
  /\ boot' = to
  /\ UNCHANGED <<typed, phase, awaited, netVars, serverVars, budgetVars>>

(* The lookup answers with the Run of the key, 0 when the server has none.  *)
LookupAnswers ==
  /\ boot.at = "asking"
  /\ BootMoves([boot EXCEPT !.at = "answered", !.run = accepted[boot.key].row])
  /\ UNCHANGED <<frozen, storedKey, ownRun>>

(* A failed lookup keeps the stored key.                                    *)
LookupFails ==
  /\ boot.at = "asking"
  /\ BootMoves([boot EXCEPT !.at = "looking"])
  /\ UNCHANGED <<frozen, storedKey, ownRun>>

(* Boot marks the Run it found as active, and subscribes after the history. *)
Adopt ==
  \/ /\ boot.run # 0
     /\ ownRun' = boot.run
     /\ BootMoves([boot EXCEPT !.at = "hydrating"])
  \/ /\ boot.run = 0
     /\ BootMoves([boot EXCEPT !.at = IF boot.at = "answered" THEN "looking" ELSE "up"])
     /\ UNCHANGED ownRun

(* Known or not, the key is cleared, and with it the request the user froze *)
(* while the lookup was out.                                                *)
RecoverPending ==
  /\ boot.at = "answered"
  /\ DropFrozen
  /\ Adopt

(* Without a Run so far, boot asks for the active one; that may fail too.   *)
ActiveRunRead ==
  /\ boot.at = "looking"
  /\ \E i \in {0} \union {j \in DOMAIN rows : rows[j].active} :
       BootMoves([boot EXCEPT !.at = "looked", !.run = i])
  /\ UNCHANGED <<frozen, storedKey, ownRun>>

DiscoverActive ==
  /\ boot.at = "looked"
  /\ Adopt
  /\ UNCHANGED <<frozen, storedKey>>

(* The history is there: the adopted Run is followed, whatever the page     *)
(* followed meanwhile.                                                      *)
SubscribeAdopted ==
  /\ boot.at = "hydrating"
  /\ BootMoves([boot EXCEPT !.at = "up"])
  /\ ownRun' = boot.run
  /\ UNCHANGED <<frozen, storedKey>>

ContextChanges ==
  /\ context <= MaxContexts
  /\ context' = context + 1
  /\ UNCHANGED <<pageVars, netVars, serverVars, reloads, stops>>

PageStep ==
  \/ SendFresh
  \/ ContextFetched
  \/ NothingToPost
  \/ Resend
  \/ NetworkFails
  \/ \E r \in replies : ReplyArrives(r)
  \/ FollowEnds
  \/ ReloadPage
  \/ LookupAnswers
  \/ LookupFails
  \/ RecoverPending
  \/ ActiveRunRead
  \/ DiscoverActive
  \/ SubscribeAdopted
  \/ ContextChanges

-----------------------------------------------------------------------------
(* The server.  One transaction decides a request.                          *)

Busy == \E i \in DOMAIN rows : rows[i].active

(* What the handler answers: validation, then the stored response, then the *)
(* drain, then the unique index on a session's active Run.                  *)
StatusOf(q) ==
  IF q.body.msg \in Invalid THEN "invalid"
  ELSE IF accepted[q.key].row # 0 /\ accepted[q.key].body = q.body THEN "accepted"
  ELSE IF draining THEN "draining"
  ELSE IF accepted[q.key].row # 0 THEN "conflict"
  ELSE IF Busy THEN "busy" ELSE "accepted"

(* Mutant: a repeat of an accepted request makes another Turn.              *)
CreatesAgain(q) == StatusOf(q) = "accepted"

(* Whether the request creates its Turn and Run.                            *)
Creates(q) == StatusOf(q) = "accepted" /\ accepted[q.key].row = 0

Serve(q) ==
  LET row == IF Creates(q) THEN Len(rows) + 1 ELSE accepted[q.key].row
      reply == [n |-> q.n, key |-> q.key, status |-> StatusOf(q),
                row |-> IF StatusOf(q) = "accepted" THEN row ELSE 0]
  IN /\ wire' = wire \ {q}
     /\ replies' = replies \union {reply}
     /\ answered' = answered \union {reply}
     /\ IF Creates(q)
          THEN /\ rows' = Append(rows, [key |-> q.key, body |-> q.body, active |-> TRUE])
               /\ accepted' = [accepted EXCEPT ![q.key] = [body |-> q.body, row |-> row]]
          ELSE UNCHANGED <<rows, accepted>>
     /\ UNCHANGED <<pageVars, sent, draining, budgetVars>>

RetryAllowed == ownRun = 0

(* A failed or abandoned Turn runs again: the client's retry draws a fresh  *)
(* key each time, so only the busy check keeps a repeat out.                *)
RetryRow(i) ==
  /\ ~ draining
  /\ ~ Busy
  /\ RetryAllowed
  /\ rows' = [rows EXCEPT ![i].active = TRUE]
  /\ ownRun' \in {0, i}
  /\ UNCHANGED <<typed, frozen, storedKey, phase, boot, awaited, netVars,
                 accepted, draining, answered, budgetVars>>

RunSettles(i) ==
  /\ rows[i].active
  /\ rows' = [rows EXCEPT ![i].active = FALSE]
  /\ UNCHANGED <<pageVars, netVars, accepted, draining, answered, budgetVars>>

DrainBegins ==
  /\ ~ draining
  /\ stops < MaxStops
  /\ stops' = stops + 1
  /\ draining' = TRUE
  /\ UNCHANGED <<pageVars, netVars, rows, accepted, answered, context, reloads>>

(* The next process: no connection survives, an active Run is abandoned.    *)
ServerRestarts ==
  /\ draining
  /\ draining' = FALSE
  /\ wire' = {}
  /\ replies' = {}
  /\ rows' = [i \in DOMAIN rows |-> [rows[i] EXCEPT !.active = FALSE]]
  /\ UNCHANGED <<pageVars, sent, accepted, answered, budgetVars>>

Lose(q) ==
  /\ wire' = wire \ {q}
  /\ UNCHANGED <<pageVars, sent, replies, serverVars, budgetVars>>

ServerStep ==
  \/ \E q \in wire : Serve(q) \/ Lose(q)
  \/ \E i \in DOMAIN rows : RetryRow(i) \/ RunSettles(i)
  \/ DrainBegins
  \/ ServerRestarts

IntakeNext == PageStep \/ ServerStep

IntakeSpec == IntakeInit /\ [][IntakeNext]_intakeVars

-----------------------------------------------------------------------------
(* A key makes one Turn, however often its request is posted and whatever   *)
(* is lost, late, or replayed while the server drains.                      *)
OneTurnPerKey ==
  \A i, j \in DOMAIN rows : rows[i].key = rows[j].key => i = j

(* Every 202 a key was ever given names the same Turn, and that Turn exists.*)
RepliesAgree ==
  \A r \in answered :
    r.status = "accepted" =>
      /\ r.row \in DOMAIN rows
      /\ rows[r.row].key = r.key
      /\ \A s \in answered : s.key = r.key /\ s.status = "accepted" => s.row = r.row

(* The page never repeats a key with another body: the frozen request keeps *)
(* its first context, so no resend is answered as a conflict.               *)
NeverConflicts == \A r \in answered : r.status # "conflict"

(* A request the page gave up as refused made no Turn and never will: only  *)
(* then is its text put back in the input to be sent under another key.     *)
RefusedMadeNothing ==
  \A r \in answered : r.status = "invalid" => accepted[r.key].row = 0

IntakeSafe ==
  /\ OneTurnPerKey
  /\ RepliesAgree
  /\ NeverConflicts
  /\ RefusedMadeNothing
=============================================================================
