-------------------------- MODULE GeminiExtraction --------------------------
(***************************************************************************)
(* GeminiService.ExtractReceiptData: the list of models to ask is built    *)
(* from the built-in ones, the configured one and those Google lists (a    *)
(* listing is cached for 30 minutes and shared by all requests); each is   *)
(* asked through the SDK, then each through REST, until one returns text.  *)
(* Requests interleave at every call that leaves the server and at the     *)
(* lock of the cache.                                                      *)
(***************************************************************************)
EXTENDS Integers, Sequences, Functions

CONSTANTS
  Requests,
  Models,
  Stable,      \* the built-in models, in the order they are preferred
  Configured,  \* the models GEMINI_MODEL names: one, or none
  Excluded,    \* models that do speech, audio, embedding, search or images
  Flash,       \* models with "flash" in their name
  Gemini,      \* models whose name begins with "gemini"
  Listings,    \* what ListModels may return of the models that generate content
  TTL,         \* ticks in 30 minutes
  MaxClock     \* bound: the clock stops there

ASSUME ExtractionAssumption ==
  /\ Stable \in Seq(Models) /\ Stable # <<>>
  /\ Configured \in Seq(Models)
  /\ Listings \subseteq Seq(Models)
  /\ TTL \in Nat \ {0} /\ MaxClock \in Nat

VARIABLES
  apiKey,        \* whether GEMINI_API_KEY is set
  models,        \* discoveredModels
  discoveredAt,
  clock,
  req

vars == <<apiKey, models, discoveredAt, clock, req>>

Idle == [pc |-> "idle"]

Stages == {"cache", "list", "store", "sdk", "rest", "parse", "answered", "failed"}

Said == {"nothing", "text", "blank", "no image"}

\* asked: the calls made so far, <<API, model>>.
RequestState ==
  {Idle} \cup [pc : Stages, found : Seq(Models), candidates : Seq(Models), next : Nat \ {0},
               asked : Seq({"sdk", "rest"} \X Models), said : Said]

\* Requests stay within their lists; the cache holds a listing of no excluded model.
TypeOK ==
  /\ apiKey \in BOOLEAN
  /\ models \in Seq(Models \ Excluded)
  /\ discoveredAt \in 0..MaxClock
  /\ clock \in 0..MaxClock
  /\ req \in [Requests -> RequestState]
  /\ \A p \in Requests : req[p] # Idle => req[p].next <= Len(req[p].candidates) + 1

New == [pc |-> "cache", found |-> <<>>, candidates |-> <<>>, next |-> 1,
        asked |-> <<>>, said |-> "nothing"]

Init ==
  /\ apiKey \in BOOLEAN
  /\ models = <<>> /\ discoveredAt = 0
  /\ clock = 0
  /\ req = [p \in Requests |-> Idle]

-----------------------------------------------------------------------------
(* The lists of models *)

\* Mutant: a model that is already in the list is added again.
AddTwice(list, m) == IF m \in Excluded THEN list ELSE Append(list, m)

\* add
Add(list, m) == IF m \in Excluded \cup Range(list) THEN list ELSE Append(list, m)

AddAll(list) ==
  LET added[n \in 0..Len(list)] == IF n = 0 THEN <<>> ELSE Add(added[n - 1], list[n])
  IN added[Len(list)]

\* buildCandidateModels
Candidates(discovered) == AddAll(Stable \o Configured \o discovered)

Keep(list, m, wanted) == IF m \in wanted THEN Append(list, m) ELSE list

KeepAll(listing, wanted) ==
  LET kept[n \in 0..Len(listing)] ==
        IF n = 0 THEN <<>> ELSE Keep(kept[n - 1], listing[n], wanted)
  IN kept[Len(listing)]

\* Mutant: a listing is not filtered, the list of candidates is.
DiscoveredAll(listing) == KeepAll(listing, Flash) \o KeepAll(listing, Gemini \ Flash)

\* What getAvailableModels keeps of a listing: flash models first.
Discovered(listing) ==
  KeepAll(listing, Flash \ Excluded) \o KeepAll(listing, Gemini \ (Flash \cup Excluded))

Fresh == models # <<>> /\ clock - discoveredAt < TTL

-----------------------------------------------------------------------------
Put(p, r) == req' = [req EXCEPT ![p] = r]

Unchanged == UNCHANGED <<apiKey, models, discoveredAt, clock>>

At(p, pc) == req[p].pc = pc /\ Unchanged

Asking(r) == r.next <= Len(r.candidates)

\* Request r after it called API api for its next model.
Called(r, api) == [r EXCEPT !.asked = Append(@, <<api, r.candidates[r.next]>>), !.next = @ + 1]

\* The simulated answer without an API key; an empty image is refused.
Begin(p) ==
  /\ At(p, "idle")
  /\ \/ ~apiKey /\ Put(p, [New EXCEPT !.pc = "answered"])
     \/ apiKey /\ Put(p, [New EXCEPT !.pc = "failed", !.said = "no image"])
     \/ apiKey /\ Put(p, New)

WithModels(r, discovered) ==
  [r EXCEPT !.candidates = Candidates(discovered), !.found = <<>>, !.pc = "sdk"]

ReadCache(p) ==
  /\ At(p, "cache")
  /\ Put(p, IF Fresh THEN WithModels(req[p], models) ELSE [req[p] EXCEPT !.pc = "list"])

\* Mutant: a listing that found nothing is stored too.
ListAndStore(p) ==
  /\ At(p, "list")
  /\ \E listing \in Listings : \E n \in 0..Len(listing) :
       Put(p, [req[p] EXCEPT !.pc = "store", !.found = Discovered(SubSeq(listing, 1, n))])

\* Mutant: an empty listing is tried again.
ListAgain(p) ==
  /\ At(p, "list")
  /\ \E listing \in Listings : \E n \in 0..Len(listing) :
       LET found == Discovered(SubSeq(listing, 1, n))
       IN Put(p, [req[p] EXCEPT !.pc = IF found = <<>> THEN "cache" ELSE "store", !.found = found])

\* An error ends the listing with what it has; without a client it has nothing.
ListModels(p) ==
  /\ At(p, "list")
  /\ \E listing \in Listings : \E n \in 0..Len(listing) :
       LET found == Discovered(SubSeq(listing, 1, n))
       IN Put(p, IF found = <<>> THEN WithModels(req[p], <<>>)
                 ELSE [req[p] EXCEPT !.pc = "store", !.found = found])

Store(p) ==
  /\ req[p].pc = "store"
  /\ models' = req[p].found /\ discoveredAt' = clock
  /\ Put(p, WithModels(req[p], req[p].found))
  /\ UNCHANGED <<apiKey, clock>>

SdkAnswers(p) ==
  /\ At(p, "sdk") /\ Asking(req[p])
  /\ Put(p, [Called(req[p], "sdk") EXCEPT !.pc = "parse", !.said = "text"])

\* An error, no candidate or no text: the next model.
SdkFails(p) ==
  /\ At(p, "sdk") /\ Asking(req[p])
  /\ Put(p, Called(req[p], "sdk"))

\* All models asked, or the client could not be made.
TurnToRest(p) ==
  /\ At(p, "sdk") /\ (~Asking(req[p]) \/ req[p].next = 1)
  /\ Put(p, [req[p] EXCEPT !.pc = "rest", !.next = 1])

\* The text of the first part, which may be blank: a blank text is no answer.
RestAnswers(p) ==
  /\ At(p, "rest") /\ Asking(req[p])
  /\ \/ Put(p, [Called(req[p], "rest") EXCEPT !.pc = "parse", !.said = "text"])
     \/ Put(p, [Called(req[p], "rest") EXCEPT !.pc = "failed", !.said = "blank"])

\* Mutant: an error ends the fallback.
RestFailsAtOnce(p) ==
  /\ At(p, "rest") /\ Asking(req[p])
  /\ Put(p, [Called(req[p], "rest") EXCEPT !.pc = "failed"])

RestFails(p) ==
  /\ At(p, "rest") /\ Asking(req[p])
  /\ Put(p, Called(req[p], "rest"))

RestExhausted(p) ==
  /\ At(p, "rest") /\ ~Asking(req[p])
  /\ Put(p, [req[p] EXCEPT !.pc = "failed"])

\* Text that is not the JSON asked for fails the request.
Parse(p) ==
  /\ At(p, "parse")
  /\ \E outcome \in {"answered", "failed"} : Put(p, [req[p] EXCEPT !.pc = outcome])

Return(p) ==
  /\ Unchanged
  /\ req[p].pc \in {"answered", "failed"}
  /\ Put(p, Idle)

Tick ==
  /\ clock < MaxClock
  /\ clock' = clock + 1
  /\ UNCHANGED <<apiKey, models, discoveredAt, req>>

Step(p) ==
  \/ ReadCache(p) \/ ListModels(p) \/ Store(p)
  \/ SdkAnswers(p) \/ SdkFails(p) \/ TurnToRest(p)
  \/ RestAnswers(p) \/ RestFails(p) \/ RestExhausted(p)
  \/ Parse(p) \/ Return(p)

Next == Tick \/ \E p \in Requests : Begin(p) \/ Step(p)

\* The goroutine of a request runs on; that each call returns is assumed.
Spec == Init /\ [][Next]_vars /\ \A p \in Requests : WF_vars(Step(p))

-----------------------------------------------------------------------------
(* Properties *)

\* The models a request has asked through an API.
Asked(r, api) == {c[2] : c \in {call \in Range(r.asked) : call[1] = api}}

\* The built-in models and the configured one.
Known == Range(Stable) \cup Range(Configured)

\* No model is asked twice through an API, none that cannot read an image is asked,
\* the SDK is asked before REST, and a model that was only discovered never before
\* a built-in or the configured one, whatever listing another request stored meanwhile.
AsksOnceInOrder ==
  \A p \in Requests : req[p] # Idle =>
    LET asked == req[p].asked
    IN /\ IsInjective(asked)
       /\ \A i \in DOMAIN asked : asked[i][2] \notin Excluded
       /\ \A i, j \in DOMAIN asked : i < j =>
            /\ asked[i][1] = "rest" => asked[j][1] = "rest"
            /\ asked[i][1] = asked[j][1] /\ asked[j][2] \in Known => asked[i][2] \in Known

\* A request that never received text fails only after REST was asked for every model of
\* its list, the built-in and the configured ones among them, unless one returned a blank
\* text; and the SDK was asked for all of the list or for none.
FailureIsExhaustive ==
  \A p \in Requests : req[p].pc = "failed" /\ req[p].said \in {"nothing", "blank"} =>
    LET list == Range(req[p].candidates)
    IN /\ Known \ Excluded \subseteq list
       /\ Asked(req[p], "sdk") \in {{}, list}
       /\ req[p].said = "nothing" => Asked(req[p], "rest") = list

\* A listing that broke off or found nothing never empties the cache or makes it look
\* older, whichever of two overlapping listings is stored last.
CacheIsKept ==
  [][models # <<>> => models' # <<>> /\ discoveredAt' >= discoveredAt]_vars

\* Provided that every call returns, every request ends: no model list or fallback
\* goes round for ever.
EveryRequestEnds == \A p \in Requests : req[p] # Idle ~> req[p] = Idle
=============================================================================
