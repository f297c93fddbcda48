----------------------------- MODULE SeedOverlay -----------------------------
(***************************************************************************)
(* How the configuration scripts make a ConfigureRequest, and which boards *)
(* they send it to.                                                        *)
(*   output, detail  overlay the seed of each board of a file on defaults  *)
(*   compare         the defaults, then the overlay, to one board          *)
(*   json            the lists of a file side by side, no defaults         *)
(*   cli             the defaults with overrides from the command line     *)
(*   threshold       the defaults for the channels of a list               *)
(*                                                                         *)
(* The channels of a request and its AFEs are made in the same way; here   *)
(* they are one list of items with an id, a value of their own (offset,    *)
(* trim, gain or attenuators, v_bias) and a common one (ADC, PGA, LNA).    *)
(* A file of seeds has two boards; the second has no items.                *)
(***************************************************************************)
EXTENDS Integers, Sequences

CONSTANTS
  Items,     \* the default configuration has the items 0..Items-1
  MaxList,   \* bound: length of the lists of a file or a command line
  Top        \* the largest value a DAC takes

ASSUME SeedAssumption == Items \in Nat \ {0} /\ MaxList \in Nat /\ Top \in Nat

VARIABLES
  job,       \* the script that runs and what it is given
  at,        \* the request it is at
  request,   \* the request made last
  board,     \* the request each board was configured with last
  answered,  \* history: requests that were answered
  exit       \* how the script ended

seedVars == <<job, at, request, board, answered, exit>>

-----------------------------------------------------------------------------
(* Values: 0 is unset in protobuf, DefaultValue is that of the options.    *)
DefaultValue == Top + 1
Id == 0..Items

ListsOf(S) == UNION {[1..n -> S] : n \in 0..MaxList}
FirstNumbers == {[i \in 1..n |-> i] : n \in 0..MaxList}

Section == [ids : ListsOf(Id), vals : FirstNumbers, common : FirstNumbers]
NoSection == [ids |-> <<>>, vals |-> <<>>, common |-> <<>>]

Item(id, v, c) == [id |-> id, v |-> v, c |-> c]

make_default_config ==
  [i \in 1..Items |-> Item(i - 1, DefaultValue, DefaultValue)]

IndexOf(list, id) ==
  CHOOSE k \in DOMAIN list :
    list[k].id = id /\ \A l \in 1..(k - 1) : list[l].id # id

(* Mutant: an item is added whether or not it is there.                    *)
_ensure_Adds(list, id) == Append(list, Item(id, 0, 0))

_ensure(list, id) ==
  IF \E k \in DOMAIN list : list[k].id = id THEN list
  ELSE Append(list, Item(id, 0, 0))

(* Mutant: what a list is too short for is 0.                              *)
_maybe_get_Zero(values, idx, default) ==
  IF idx \in DOMAIN values THEN values[idx] ELSE 0

_maybe_get(values, idx, default) ==
  IF idx \in DOMAIN values THEN values[idx] ELSE default

(* One turn of the loops over ids.  The position of an id that was just    *)
(* added is the last one.                                                  *)
SetItem(list, s, idx, prefer) ==
  LET grown == _ensure(list, s.ids[idx])
      k == IF Len(grown) > Len(list) THEN Len(grown)
           ELSE IndexOf(grown, s.ids[idx])
  IN [grown EXCEPT ![k].v = _maybe_get(s.vals, idx, @),
                   ![k].c = IF prefer THEN _maybe_get(s.common, idx, @) ELSE @]

build_request_from_seed(s, defaults, prefer) ==
  LET upto[n \in 0..Len(s.ids)] ==
        IF n = 0 THEN defaults ELSE SetItem(upto[n - 1], s, n, prefer)
  IN upto[Len(s.ids)]

(* zip ends with the shortest list.                                        *)
load_config_request(s) ==
  LET Shorter(a, b) == IF a < b THEN a ELSE b
  IN [i \in 1..Shorter(Len(s.ids), Shorter(Len(s.vals), Len(s.common))) |->
        Item(s.ids[i], s.vals[i], s.common[i])]

(* AFE:VALUE tokens, which raise on an id or a value out of range.         *)
InvalidTokens(s) ==
  \E i \in DOMAIN s.ids : s.ids[i] >= Items \/ _maybe_get(s.vals, i, 0) > Top

(* The tokens make a dict, so the last one of an id counts.                *)
Override(list, s, i) ==
  [list EXCEPT ![IndexOf(list, s.ids[i])].v = _maybe_get(s.vals, i, 0)]

Overridden(s) ==
  LET upto[n \in 0..Len(s.ids)] ==
        IF n = 0 THEN make_default_config ELSE Override(upto[n - 1], s, n)
  IN upto[Len(s.ids)]

(* A list of channels without what is there twice.                         *)
parse_channels(ids) ==
  LET upto[n \in 0..Len(ids)] ==
        IF n = 0 THEN <<>>
        ELSE IF \E k \in 1..(n - 1) : ids[k] = ids[n] THEN upto[n - 1]
        ELSE Append(upto[n - 1], ids[n])
  IN upto[Len(ids)]

ThresholdConfig(s) ==
  LET ids == parse_channels(s.ids)
  IN [i \in DOMAIN ids |-> Item(ids[i], DefaultValue, DefaultValue)]

-----------------------------------------------------------------------------
Scripted == {"output", "detail", "compare", "json", "cli", "threshold"}

(* --host, 0 when not given, and --board-id likewise.  Board b of a file   *)
(* has the address b.                                                      *)
Job == [script : Scripted, seed : Section, prefer : BOOLEAN,
        host : {0, 2}, only : 0..3]

NoJob == [script |-> "cli", seed |-> NoSection, prefer |-> FALSE,
          host |-> 0, only |-> 0]

(* Bound: the options that a script does not have are not varied.          *)
SomeJob ==
  {j \in Job :
     /\ j.script \notin {"output", "detail"} =>
          j.host = 0 /\ j.only = 0
     /\ j.script \notin {"output", "detail", "compare"} => ~j.prefer
     /\ j.script \in {"cli", "threshold"} => j.seed.common = <<>>
     /\ j.script = "threshold" => j.seed.vals = <<>>}

Length(j) == IF j.script \in {"output", "detail", "compare"} THEN 2 ELSE 1

SeedOf(j, i) == IF i = 1 THEN j.seed ELSE NoSection

Selected(j, i) ==
  j.script \in {"output", "detail"} => j.only \in {0, i}

(* Mutant: the address of the first board is kept for all.                 *)
target_ip_First(j, i) == IF j.host = 0 THEN 1 ELSE j.host

target_ip(j, i) ==
  IF j.script \in {"output", "detail"} THEN IF j.host = 0 THEN i ELSE j.host
  ELSE 1

RequestOf(j, i) ==
  CASE j.script \in {"output", "detail"} ->
         build_request_from_seed(SeedOf(j, i), make_default_config, j.prefer)
    [] j.script = "compare" ->
         IF i = 1 THEN make_default_config
         ELSE build_request_from_seed(j.seed, make_default_config, j.prefer)
    [] j.script = "json" -> load_config_request(j.seed)
    [] j.script = "cli" -> Overridden(j.seed)
    [] j.script = "threshold" -> ThresholdConfig(j.seed)

Raises(j) ==
  \/ j.script = "cli" /\ InvalidTokens(j.seed)
  \/ j.script = "threshold" /\ (j.seed.ids = <<>>
                                \/ \E i \in DOMAIN j.seed.ids : j.seed.ids[i] >= Items)

SeedStart(j) ==
  /\ job = j /\ at = 1 /\ request = <<>>
  /\ board = [b \in 1..2 |-> <<>>]
  /\ answered = {} /\ exit = "running"

SeedInit == \E j \in SomeJob : SeedStart(j)

SeedOff == /\ job = NoJob /\ at = 1 /\ request = <<>>
           /\ board = [b \in 1..2 |-> <<>>] /\ answered = {} /\ exit = "zero"

-----------------------------------------------------------------------------
InLoop == exit = "running" /\ at <= Length(job)

SkipBoard ==
  /\ InLoop /\ ~Selected(job, at)
  /\ at' = at + 1
  /\ UNCHANGED <<job, request, board, answered, exit>>

RaiseBeforeSend ==
  /\ InLoop /\ Raises(job)
  /\ exit' = "error"
  /\ UNCHANGED <<job, at, request, board, answered>>

Applied(r) == [board EXCEPT ![target_ip(job, at)] = r]

(* The server answers, with success or without, and goes on to the next.   *)
SendBoard ==
  /\ InLoop /\ Selected(job, at) /\ ~Raises(job)
  /\ request' = RequestOf(job, at)
  /\ board' \in {board, Applied(RequestOf(job, at))}
  /\ answered' = answered \cup {at}
  /\ at' = at + 1
  /\ UNCHANGED <<job, exit>>

(* Mutant: a timeout is printed and the next board follows.                *)
SendFails_Prints ==
  /\ InLoop /\ Selected(job, at) /\ ~Raises(job)
  /\ request' = RequestOf(job, at)
  /\ board' \in {board, Applied(RequestOf(job, at))}
  /\ at' = at + 1
  /\ UNCHANGED <<job, answered, exit>>

(* No answer in time: the exception ends the script.                       *)
SendFails ==
  /\ InLoop /\ Selected(job, at) /\ ~Raises(job)
  /\ request' = RequestOf(job, at)
  /\ board' \in {board, Applied(RequestOf(job, at))}
  /\ exit' = "error"
  /\ UNCHANGED <<job, at, answered>>

EndConfigure ==
  /\ exit = "running" /\ at > Length(job)
  /\ exit' = IF job.script = "output" /\ job.only # 0 /\ answered = {}
             THEN "two" ELSE "zero"
  /\ UNCHANGED <<job, at, request, board, answered>>

SeedNext == SkipBoard \/ RaiseBeforeSend \/ SendBoard \/ SendFails \/ EndConfigure

SeedSpec == SeedInit /\ [][SeedNext]_seedVars

-----------------------------------------------------------------------------
(* A request that is built on the defaults names each of their items once, *)
(* first and in order, and what a seed adds once after them, however often *)
(* the seed repeats an id: the server writes the items one after the other *)
(* and would apply both of two.                                            *)
NamedOnce ==
  request # <<>> /\ job.script \notin {"json", "threshold"} =>
    /\ \A i \in 1..Items : request[i].id = i - 1
    /\ \A i, k \in DOMAIN request : request[i].id = request[k].id => i = k

(* The last entry of an id in the lists of a seed that is long enough to   *)
(* have a value there decides; where there is none, the value of the       *)
(* options stays, or 0 for what the defaults do not have.                  *)
LastGiven(s, vals, id, otherwise) ==
  LET given == {i \in DOMAIN s.ids \cap DOMAIN vals : s.ids[i] = id}
  IN IF given = {} THEN otherwise
     ELSE vals[CHOOSE i \in given : \A k \in given : k <= i]

SeedWins ==
  InLoop /\ at = 2 /\ job.script \in {"output", "detail"} /\ request # <<>> =>
    \A i \in DOMAIN request :
      LET was == IF request[i].id < Items THEN DefaultValue ELSE 0
      IN /\ request[i].v = LastGiven(job.seed, job.seed.vals, request[i].id, was)
         /\ job.prefer => request[i].c =
              LastGiven(job.seed, job.seed.common, request[i].id, was)

(* Without --host, a board holds no configuration but the one made from    *)
(* its own seed, whatever happened to the boards before it.                *)
BoardsKeepApart ==
  job.script \in {"output", "detail"} /\ job.host = 0 =>
    \A b \in 1..2 : board[b] # <<>> =>
      Selected(job, b) /\ board[b] = RequestOf(job, b)

(* A script that ends with status 0 had an answer for each board that it   *)
(* was asked to configure: a timeout in between is not taken for success.  *)
ZeroIsAnswered ==
  exit = "zero" /\ job # NoJob =>
    \A i \in 1..Length(job) : Selected(job, i) => i \in answered

(* Every board gets its own seed, whole, once, or the script says so.      *)
SeedsAreApplied == NamedOnce /\ SeedWins /\ BoardsKeepApart /\ ZeroIsAnswered
=============================================================================
