--------------------------- MODULE PropertyIdentity ---------------------------
(***************************************************************************)
(* What becomes of a property between two requests.  The addresses route   *)
(* hands out ids; a client keeps one and later asks for its collections or *)
(* services.  The server stores nothing: the id, made by the adapter of    *)
(* the council or by services/uprn-resolution.ts, is all that the second   *)
(* request has, and the council's lists may have changed in between.       *)
(*                                                                         *)
(* One client and one postcode: requests share no state, and the browser's *)
(* shared state is BrowserAdapter's subject.  An id is a sequence, its     *)
(* colons the boundaries between elements.                                 *)
(***************************************************************************)
EXTENDS Naturals, Sequences

CONSTANTS
  Address,   \* the addresses of the postcode
  Listings,  \* the lists of addresses a council may publish
  Homes,     \* the councils the postcode may belong to
  None

Portals == {"havant", "portsmouth", "winchester", "test-valley"}
ByUprn == {"rushmoor", "southampton", "hart", "basingstoke-deane", "eastleigh"}
Council == Portals \cup ByUprn \cup {"fareham", "gosport", "east-hampshire", "new-forest"}

(* A row of a list may carry the council's own identifier: the UPRN in     *)
(* Fareham's calendar link, the value of a portal's option.                *)
Row == [address : Address, linked : BOOLEAN]

(* An element of a local id: what it names, and which one. *)
Segment ==
  [form : {"uprn", "option"}, key : Address]
    \cup [form : {"row", "position", "madeUp"}, key : Nat]
    \cup [form : {"postcode", "area"}, key : {None}]

(* What a response shows: the schedule of one address, that of a whole     *)
(* postcode or area, none, or mock data.                                   *)
Shown == Address \cup {"everyone", "nothing", "mock"}

ASSUME IdentityAssumption ==
  /\ Listings \subseteq Seq(Row)
  /\ Homes \subseteq Council
  /\ None \notin Address \cup {"refused", "blocked"}
  /\ Address \cap {"everyone", "nothing", "mock"} = {}

VARIABLES
  home,     \* the council of the postcode
  osKey,    \* OS_PLACES_API_KEY is set
  listing,  \* what the council publishes: the datasets of Fareham, the page of a portal
  at,       \* where the handler of the client's request is
  route,    \* which handler it is
  held,     \* the id the client holds, the address it was handed out for, and by whom
  call,     \* the council and local id the request passed to an adapter
  answer    \* what the collections or services response showed, or why it failed

world == <<home, osKey, listing>>
vars == <<world, at, route, held, call, answer>>

IdentityTypeOK ==
  /\ home \in Homes /\ osKey \in BOOLEAN
  /\ listing \in [{"new", "old"} -> Listings]
  /\ at \in {"idle", "resolve", "resolveOld", "central", "fetch", "fetchOld"}
  /\ route \in {"byCouncil", "byPostcode", "collections", "services"}
  /\ held = None \/ /\ held.local \in Seq(Segment) \ {<<>>}
                    /\ held.id = <<home>> \o held.local
                    /\ held.address \in Address \cup {None}
                    /\ held.source \in {"adapter", "osPlaces", "synthetic"}
  /\ answer = None \/ answer.shows \in Shown

Init ==
  /\ home \in Homes /\ osKey \in BOOLEAN
  /\ listing \in [{"new", "old"} -> Listings]
  /\ at = "idle" /\ route = "byPostcode"
  /\ held = None /\ call = None /\ answer = None

-----------------------------------------------------------------------------
(* Local ids. *)
Seg(form, key) == [form |-> form, key |-> key]

(* Fault: the postcode is left out. *)
FarehamLocalIdAlone(rows, i) ==
  <<IF rows[i].linked THEN Seg("uprn", rows[i].address) ELSE Seg("row", i)>>

(* postcode:uprn, or postcode:index for a row without a calendar link.     *)
FarehamLocalId(rows, i) ==
  <<Seg("postcode", None),
    IF rows[i].linked THEN Seg("uprn", rows[i].address) ELSE Seg("row", i)>>

(* Fault: an option without a value gets an empty id. *)
PortalLocalIdEmpty(rows, i) ==
  IF rows[i].linked THEN <<Seg("option", rows[i].address)>> ELSE <<>>

(* The value of the option, or addr-i. *)
PortalLocalId(rows, i) ==
  <<IF rows[i].linked THEN Seg("option", rows[i].address) ELSE Seg("position", i)>>

Issue(source, local, address) ==
  [id |-> <<home>> \o local, local |-> local, address |-> address, source |-> source]

(* Fault: split at every colon, and two parts kept. *)
SplitInTwo(id) == [council |-> id[1], local |-> <<id[2]>>]

(* The council is what comes before the first colon. *)
Split(id) == [council |-> Head(id), local |-> Tail(id)]

-----------------------------------------------------------------------------
(* The addresses routes. *)
GoTo(label) == at' = label /\ UNCHANGED <<route, held, call, answer>>

(* A response with these ids: the client takes one of them. *)
Offer(ids) ==
  /\ at' = "idle"
  /\ \/ ids = {} /\ UNCHANGED <<held, call, answer>>
     \/ held' \in ids /\ call' = None /\ answer' = None
  /\ UNCHANGED route

(* Without a councilId the adapter's answer has to be good enough: one     *)
(* address, and more confidence than Havant's adapter ever claims.         *)
Resolved(ids) ==
  LET good == ids # {} /\ home # "havant"
  IN  \/ (route = "byCouncil" \/ good) /\ Offer(ids)
      \/ (route = "byPostcode" /\ ~good) /\ GoTo("central")

(* The adapter failed, threw, or lost the race against its timer. *)
ResolveFailed ==
  \/ route = "byCouncil" /\ GoTo("idle")
  \/ route = "byPostcode" /\ GoTo("central")

(* With a councilId, or with a postcode whose council is or is not found. *)
LookUp ==
  /\ at = "idle"
  /\ \/ route' = "byCouncil" /\ at' = "resolve"
     \/ route' = "byPostcode" /\ at' \in {"resolve", "central"}
  /\ UNCHANGED <<world, held, call, answer>>

(* The newer dataset is asked first; one that has no rows for the postcode *)
(* or answers 404 is passed over.                                          *)
Dataset == IF at \in {"resolve", "fetch"} THEN "new" ELSE "old"

ResolveFareham ==
  /\ home = "fareham" /\ at \in {"resolve", "resolveOld"}
  /\ LET rows == listing[Dataset]
     IN  \/ /\ rows # <<>>
            /\ Resolved({Issue("adapter", FarehamLocalId(rows, i), rows[i].address) : i \in DOMAIN rows})
         \/ at = "resolve" /\ GoTo("resolveOld")
         \/ ResolveFailed
  /\ UNCHANGED world

ResolvePortal ==
  /\ home \in Portals /\ at = "resolve"
  /\ LET rows == listing["new"]
     IN  \/ Resolved({Issue("adapter", PortalLocalId(rows, i), rows[i].address) : i \in DOMAIN rows})
         \/ ResolveFailed
  /\ UNCHANGED world

(* Gosport offers its residents the whole postcode. *)
ResolveGosport ==
  /\ home = "gosport" /\ at = "resolve"
  /\ Resolved({Issue("adapter", <<Seg("postcode", None)>>, None)}) \/ ResolveFailed
  /\ UNCHANGED world

ResolveEastHampshire ==
  /\ home = "east-hampshire" /\ at = "resolve"
  /\ Resolved({Issue("adapter", <<Seg("area", None)>>, None)}) \/ ResolveFailed
  /\ UNCHANGED world

(* These adapters want a UPRN, which no route passes; New Forest's has     *)
(* nothing to ask.                                                         *)
ResolveUnsupported ==
  /\ home \in ByUprn \cup {"new-forest"} /\ at = "resolve"
  /\ ResolveFailed
  /\ UNCHANGED world

(* The addresses OS Places knows; or five that are made up, without a key  *)
(* or an answer from it; or an error.                                      *)
ResolveCentrally ==
  /\ at = "central"
  /\ \/ osKey /\ Offer({Issue("osPlaces", <<Seg("uprn", a)>>, a) : a \in Address})
     \/ Offer({Issue("synthetic", <<Seg("madeUp", i)>>, None) : i \in 1 .. 5})
     \/ Offer({})
  /\ UNCHANGED world

-----------------------------------------------------------------------------
(* The collections and services routes: what the adapters return.          *)
Ok(shows) == [shows |-> shows, why |-> None]
Failed(why) == [shows |-> "nothing", why |-> why]

(* Fault: an address that has gone is looked for by its place. *)
FindRowOrFirst(rows, key) ==
  IF \E i \in DOMAIN rows : rows[i].linked /\ key = Seg("uprn", rows[i].address)
  THEN Ok(key.key)
  ELSE Ok(rows[1].address)

(* The row of the UPRN; without one the identifier is taken for an index.  *)
(* A UPRN is larger than the length of any list.                           *)
FindRow(rows, key) ==
  IF \E i \in DOMAIN rows : rows[i].linked /\ key = Seg("uprn", rows[i].address)
  THEN Ok(key.key)
  ELSE IF key.form = "row" /\ key.key \in DOMAIN rows
       THEN Ok(rows[key.key].address)
       ELSE Failed("failed")

(* External: a council's service that is asked by UPRN. *)
Known(key) == IF key.form = "uprn" THEN {Ok(key.key)} ELSE {}
Unsure == {Ok("nothing"), Failed("failed")}

FetchRushmoorData(key) == Known(key) \cup Unsure

FetchSouthamptonData(key) ==
  IF route = "services" THEN {Failed("failed")} ELSE Known(key) \cup Unsure \cup {Failed("blocked")}

(* validateUprn comes before the fetch: 1 to 12 digits. *)
Validated(key, results) == IF key.form = "uprn" THEN results ELSE {Failed("refused")}

FetchHartData(key) == Validated(key, Known(key) \cup Unsure \cup {Failed("blocked")})
FetchBasingstokeData(key) == Validated(key, Known(key) \cup Unsure)
FetchEastleighData(key) == Validated(key, Known(key) \cup Unsure \cup {Failed("blocked")})

(* Whatever the id is goes out as a postcode. *)
FetchSupatrakData(key) == Unsure \cup {Ok("everyone") : s \in {key} \cap {Seg("postcode", None)}}

(* There is a calendar for every area and for nothing else. *)
FetchPdfSchedule(key) == IF key.form = "area" THEN Unsure \cup {Ok("everyone")} ELSE {Failed("refused")}

(* The portal is searched with the postcode of the request, which the      *)
(* route leaves empty.  It lists nothing, and what is parsed is a page     *)
(* without a schedule; or it lists addresses, and the id is selected if    *)
(* an option has that value.  A portal's values may be UPRNs.              *)
SelectOption(key) ==
  {Ok(row.address) : row \in {r \in Row : /\ r.linked /\ r.address = key.key
                                          /\ key.form \in {"uprn", "option"}
                                          /\ \E i \in DOMAIN listing["new"] : listing["new"][i] = r}}

FetchPortalData(key) == SelectOption(key) \cup Unsure

(* When the id cannot be selected the form is submitted all the same, with *)
(* the option that it shows.                                               *)
FetchPortsmouthData(key) ==
  SelectOption(key) \cup Unsure
    \cup {Ok(listing["new"][i].address) : i \in DOMAIN listing["new"] \cap {1}}

Fetched(k, key) ==
  CASE k = "rushmoor" -> FetchRushmoorData(key)
    [] k = "southampton" -> FetchSouthamptonData(key)
    [] k = "hart" -> FetchHartData(key)
    [] k = "basingstoke-deane" -> FetchBasingstokeData(key)
    [] k = "eastleigh" -> FetchEastleighData(key)
    [] k = "gosport" -> FetchSupatrakData(key)
    [] k = "east-hampshire" -> FetchPdfSchedule(key)
    [] k = "portsmouth" -> FetchPortsmouthData(key)
    [] k \in Portals \ {"portsmouth"} -> FetchPortalData(key)
    [] k = "new-forest" -> {Failed("blocked")}

-----------------------------------------------------------------------------
(* Fault: mock data for any id. *)
MockAnyway(key) == [shows |-> "mock", why |-> None]

(* Mock dates are seeded with the last digits of the id; without digits    *)
(* they are invalid, and the handler throws.                               *)
Mock(key) == IF key.form = "uprn" THEN [shows |-> "mock", why |-> None] ELSE Failed("thrown")

(* The last element is what names the property. *)
Key == call.local[Len(call.local)]

Respond(result) ==
  /\ at' = "idle"
  /\ answer' = IF result.why = "blocked" /\ route = "collections" THEN Mock(Key) ELSE result
  /\ UNCHANGED <<route, held, call>>

Ask ==
  /\ at = "idle" /\ held # None
  /\ route' \in {"collections", "services"}
  /\ call' = Split(held.id)
  /\ at' = "fetch" /\ answer' = None
  /\ UNCHANGED <<world, held>>

(* An id without a colon of its own: no postcode to fetch. *)
RefuseFareham ==
  /\ at = "fetch" /\ call.council = "fareham" /\ Len(call.local) < 2
  /\ Respond(Failed("refused"))
  /\ UNCHANGED world

FetchFareham ==
  /\ at \in {"fetch", "fetchOld"} /\ call.council = "fareham" /\ Len(call.local) >= 2
  /\ LET rows == listing[Dataset]
     IN  \/ rows # <<>> /\ Respond(FindRow(rows, call.local[2]))
         \/ at = "fetch" /\ GoTo("fetchOld")
         \/ Respond(Failed("failed"))
  /\ UNCHANGED world

Fetch ==
  /\ at = "fetch" /\ call.council \in Council \ {"fareham"}
  /\ \E result \in Fetched(call.council, Key) : Respond(result)
  /\ UNCHANGED world

-----------------------------------------------------------------------------
(* External: the council publishes another list, also while a request is   *)
(* between the two datasets.                                               *)
Publish ==
  /\ home \in Portals \cup {"fareham"}
  /\ \E d \in {"new", "old"}, list \in Listings : listing' = [listing EXCEPT ![d] = list]
  /\ UNCHANGED <<home, osKey, at, route, held, call, answer>>

Next ==
  \/ LookUp \/ ResolveFareham \/ ResolvePortal \/ ResolveGosport \/ ResolveEastHampshire
  \/ ResolveUnsupported \/ ResolveCentrally
  \/ Ask \/ RefuseFareham \/ FetchFareham \/ Fetch
  \/ Publish

Spec == Init /\ [][Next]_vars

-----------------------------------------------------------------------------
(* An id that ends in a UPRN or in a council's own value brings up the     *)
(* schedule of the address it was handed out for or none, whatever the     *)
(* council has published since.  Portsmouth's form, which is submitted     *)
(* also when the address could not be selected, is the exception.          *)
OwnSchedule ==
  \/ held = None \/ answer = None
  \/ held.local[Len(held.local)].form \notin {"uprn", "option"} \/ home = "portsmouth"
  \/ answer.shows \in Address => answer.shows = held.address

(* A made-up id never brings up a schedule: neither an address's, nor that *)
(* of its area, nor a mock one that looks like it.                         *)
MadeUpIdsShowNothing ==
  \/ held = None \/ answer = None \/ home = "portsmouth"
  \/ held.source = "synthetic" => answer.shows = "nothing"

(* An adapter does not refuse an id that it made itself: only ids from the *)
(* central fallback are refused without the council being asked.           *)
OwnIdsAreAccepted ==
  held # None /\ answer # None /\ answer.why = "refused" => held.source # "adapter"

(* An id leads back to the council that it was handed out for, with the    *)
(* local id it was made from, colons and all.                              *)
IdsFindTheirAdapter == call # None => call = [council |-> home, local |-> held.local]

(* What one party makes of an id, the other party takes it for. *)
IdsAreHonoured == OwnIdsAreAccepted /\ IdsFindTheirAdapter
=============================================================================
