------------------------ MODULE PropertyIdentityProofs ------------------------
(***************************************************************************)
(* Proofs about PropertyIdentity, for any addresses and any lists.         *)
(*                                                                         *)
(* The invariant says what an id that is held looks like: its last element *)
(* names the address it was handed out for, and by its source it is of a   *)
(* kind that the council's adapter accepts.  A request passes it on whole, *)
(* so that every result an adapter returns can be held against it.         *)
(***************************************************************************)
EXTENDS PropertyIdentity, TLAPS

LastOf(local) == local[Len(local)]

WellMade(h) ==
  /\ h.local \in Seq(Segment) /\ Len(h.local) \in {1, 2}
  /\ h.id = <<home>> \o h.local
  /\ h.address \in Address \cup {None}
  /\ h.source \in {"adapter", "osPlaces", "synthetic"}
  /\ LastOf(h.local).form \in {"uprn", "option"} => LastOf(h.local).key = h.address
  /\ h.source = "synthetic" => LastOf(h.local).form = "madeUp"
  /\ h.source = "adapter" => /\ home \notin ByUprn
                             /\ home = "fareham" => Len(h.local) = 2
                             /\ home = "east-hampshire" => LastOf(h.local).form = "area"

(* What a result says about the key it was fetched with. *)
Fits(result, k, key) ==
  /\ result.shows \in Shown
  /\ result.shows \in Address /\ k # "portsmouth" /\ key.form \in {"uprn", "option"} => result.shows = key.key
  /\ key.form = "madeUp" /\ k # "portsmouth" => result.shows = "nothing"
  /\ result.why = "refused" => k \in ByUprn \cup {"fareham", "east-hampshire"}

PlaceOK ==
  /\ home \in Homes /\ osKey \in BOOLEAN
  /\ listing \in [{"new", "old"} -> Listings]
  /\ at \in {"idle", "resolve", "resolveOld", "central", "fetch", "fetchOld"}
  /\ route \in {"byCouncil", "byPostcode", "collections", "services"}

HeldOK == held # None => WellMade(held)
CallOK == at \in {"fetch", "fetchOld"} => held # None /\ call = [council |-> home, local |-> held.local]
AnswerOK ==
  /\ answer = None \/ answer.shows \in Shown
  /\ OwnSchedule /\ MadeUpIdsShowNothing /\ OwnIdsAreAccepted

Inv == PlaceOK /\ HeldOK /\ CallOK /\ AnswerOK /\ IdsFindTheirAdapter

-----------------------------------------------------------------------------
(* Splitting an id at its first colon undoes what made it. *)
LEMMA SplitUndoes ==
  ASSUME NEW k, NEW local \in Seq(Segment)
  PROVE  Split(<<k>> \o local) = [council |-> k, local |-> local]
<1> DEFINE id == <<k>> \o local
<1>1. id \in Seq({k} \cup Segment) /\ Len(id) = Len(local) + 1 /\ id[1] = k
  OBVIOUS
<1>2. Tail(id) \in Seq({k} \cup Segment) /\ Len(Tail(id)) = Len(local)
  BY <1>1
<1>3. \A i \in 1 .. Len(local) : Tail(id)[i] = local[i]
  BY <1>1
<1>4. Tail(id) = local
  BY <1>2, <1>3
<1>5. Head(id) = k
  BY <1>1
<1> QED
  BY <1>4, <1>5 DEF Split

LEMMA RowsTyped ==
  ASSUME PlaceOK, NEW d \in {"new", "old"}
  PROVE  /\ listing[d] \in Seq(Row)
         /\ \A i \in DOMAIN listing[d] : i \in Nat /\ listing[d][i] \in Row /\ listing[d][i].address \in Address
<1>1. listing[d] \in Seq(Row)
  BY IdentityAssumption DEF PlaceOK
<1>2. \A i \in DOMAIN listing[d] : i \in Nat /\ listing[d][i] \in Row
  BY <1>1
<1>3. \A r \in Row : r.address \in Address
  BY DEF Row
<1> QED
  BY <1>1, <1>2, <1>3

LEMMA FetchedFits ==
  ASSUME PlaceOK, NEW k \in Council \ {"fareham"}, NEW key \in Segment, NEW result \in Fetched(k, key)
  PROVE  /\ Fits(result, k, key)
         /\ result.why = "refused" => /\ k \in ByUprn \/ key.form # "area"
<1> USE DEF Ok, Failed, Fits, Shown, Segment
<1>1. CASE k \in ByUprn
  BY <1>1, IdentityAssumption DEF ByUprn, Fetched, FetchRushmoorData, FetchSouthamptonData, FetchHartData,
     FetchBasingstokeData, FetchEastleighData, Validated, Known, Unsure, Portals
<1>2. CASE k = "gosport"
  BY <1>2, IdentityAssumption DEF Fetched, FetchSupatrakData, Unsure, Seg, Portals
<1>3. CASE k = "east-hampshire"
  BY <1>3, IdentityAssumption DEF Fetched, FetchPdfSchedule, Unsure, Portals
<1>4. CASE k \in Portals
  <2>1. \A r \in SelectOption(key) : r.shows \in Address /\ r.shows = key.key /\ key.form \in {"uprn", "option"} /\ r.why = None
    BY DEF SelectOption, Row
  <2>2. CASE k = "portsmouth"
    <3>1. result \in FetchPortsmouthData(key)
      BY <2>2 DEF Fetched, Portals
    <3> QED
      BY <2>1, <2>2, <3>1, RowsTyped, IdentityAssumption DEF FetchPortsmouthData, Unsure, ByUprn
  <2>3. CASE k # "portsmouth"
    <3>1. result \in FetchPortalData(key)
      BY <1>4, <2>3 DEF Fetched, Portals
    <3> QED
      BY <2>1, <2>3, <3>1, IdentityAssumption DEF FetchPortalData, Unsure, ByUprn
  <2> QED
    BY <2>2, <2>3
<1>5. CASE k = "new-forest"
  BY <1>5, IdentityAssumption DEF Fetched, Portals
<1> QED
  BY <1>1, <1>2, <1>3, <1>4, <1>5 DEF Council
-----------------------------------------------------------------------------
(* Ids that were handed out. *)
LEMMA OneSegment ==
  ASSUME NEW s \in Segment
  PROVE  <<s>> \in Seq(Segment) /\ Len(<<s>>) = 1 /\ LastOf(<<s>>) = s
BY DEF LastOf

LEMMA IssuedWellMade ==
  ASSUME NEW s \in Segment, NEW address \in Address \cup {None},
         NEW source \in {"adapter", "osPlaces", "synthetic"},
         s.form \in {"uprn", "option"} => s.key = address,
         source = "synthetic" => s.form = "madeUp",
         source = "adapter" => home \notin ByUprn /\ home # "fareham" /\ (home = "east-hampshire" => s.form = "area")
  PROVE  WellMade(Issue(source, <<s>>, address))
BY OneSegment DEF WellMade, Issue

LEMMA FarehamIdsWellMade ==
  ASSUME home = "fareham", NEW rows \in Seq(Row), NEW i \in DOMAIN rows
  PROVE  WellMade(Issue("adapter", FarehamLocalId(rows, i), rows[i].address))
<1> DEFINE key == IF rows[i].linked THEN Seg("uprn", rows[i].address) ELSE Seg("row", i)
<1>1. rows[i].address \in Address /\ i \in Nat
  <2>1. rows[i] \in Row /\ i \in Nat
    OBVIOUS
  <2> QED
    BY <2>1 DEF Row
<1>2. Seg("postcode", None) \in Segment /\ key \in Segment
  BY <1>1 DEF Seg, Segment
<1>3. key.form \in {"uprn", "option"} => key.key = rows[i].address
  BY DEF Seg
<1>4. FarehamLocalId(rows, i) = <<Seg("postcode", None), key>>
  BY DEF FarehamLocalId
<1> HIDE DEF key
<1>5. /\ FarehamLocalId(rows, i) \in Seq(Segment) /\ Len(FarehamLocalId(rows, i)) = 2
      /\ LastOf(FarehamLocalId(rows, i)) = key
  BY <1>2, <1>4 DEF LastOf
<1> QED
  BY <1>1, <1>3, <1>5 DEF WellMade, Issue, ByUprn

LEMMA PortalIdsWellMade ==
  ASSUME home \in Portals, NEW rows \in Seq(Row), NEW i \in DOMAIN rows
  PROVE  WellMade(Issue("adapter", PortalLocalId(rows, i), rows[i].address))
<1> DEFINE key == IF rows[i].linked THEN Seg("option", rows[i].address) ELSE Seg("position", i)
<1>1. rows[i].address \in Address /\ i \in Nat
  <2>1. rows[i] \in Row /\ i \in Nat
    OBVIOUS
  <2> QED
    BY <2>1 DEF Row
<1>2. key \in Segment
  BY <1>1 DEF Seg, Segment
<1>3. key.form \in {"uprn", "option"} => key.key = rows[i].address
  BY DEF Seg
<1>4. PortalLocalId(rows, i) = <<key>>
  BY DEF PortalLocalId
<1>5. home \notin ByUprn /\ home \notin {"fareham", "east-hampshire"}
  BY DEF Portals, ByUprn
<1> HIDE DEF key
<1> QED
  BY <1>1, <1>2, <1>3, <1>4, <1>5, IssuedWellMade

(* Answering an addresses request keeps the invariant. *)
LEMMA OfferKeeps ==
  ASSUME Inv, NEW ids, \A h \in ids : WellMade(h), Offer(ids), UNCHANGED world
  PROVE  Inv'
<1>1. PlaceOK' /\ CallOK'
  BY DEF Inv, PlaceOK, CallOK, Offer, world
<1>2. CASE UNCHANGED <<held, call, answer>>
  BY <1>1, <1>2 DEF Inv, HeldOK, WellMade, AnswerOK, IdsFindTheirAdapter, OwnSchedule,
     MadeUpIdsShowNothing, OwnIdsAreAccepted, world
<1>3. CASE held' \in ids /\ call' = None /\ answer' = None
  <2>1. WellMade(held')
    BY <1>3
  <2>2. WellMade(held)'
    BY <2>1 DEF WellMade, world
  <2> QED
    BY <1>1, <1>3, <2>2 DEF Inv, HeldOK, AnswerOK, IdsFindTheirAdapter, OwnSchedule,
       MadeUpIdsShowNothing, OwnIdsAreAccepted
<1> QED
  BY <1>2, <1>3 DEF Offer

LEMMA GoToKeeps ==
  ASSUME Inv, NEW label \in {"idle", "resolve", "resolveOld", "central", "fetch", "fetchOld"},
         label \in {"fetch", "fetchOld"} => at \in {"fetch", "fetchOld"},
         GoTo(label), UNCHANGED world
  PROVE  Inv'
BY DEF Inv, PlaceOK, HeldOK, WellMade, CallOK, AnswerOK, IdsFindTheirAdapter, OwnSchedule,
   MadeUpIdsShowNothing, OwnIdsAreAccepted, GoTo, world

LEMMA ResolvedKeeps ==
  ASSUME Inv, NEW ids, \A h \in ids : WellMade(h), Resolved(ids), UNCHANGED world
  PROVE  Inv'
<1>1. CASE Offer(ids)
  BY <1>1, OfferKeeps
<1>2. CASE GoTo("central")
  BY <1>2, GoToKeeps
<1> QED
  BY <1>1, <1>2 DEF Resolved

LEMMA ResolveFailedKeeps ==
  ASSUME Inv, ResolveFailed, UNCHANGED world
  PROVE  Inv'
<1>1. CASE GoTo("idle")
  BY <1>1, GoToKeeps
<1>2. CASE GoTo("central")
  BY <1>2, GoToKeeps
<1> QED
  BY <1>1, <1>2 DEF ResolveFailed
-----------------------------------------------------------------------------
(* Answers.  What the adapter was asked for is the last element of the id. *)
LEMMA CalledKey ==
  ASSUME Inv, at \in {"fetch", "fetchOld"}
  PROVE  /\ held # None
         /\ call.council = home /\ call.local = held.local
         /\ WellMade(held)
         /\ Key = LastOf(held.local) /\ Key \in Segment
<1>1. held # None /\ WellMade(held)
  BY DEF Inv, CallOK, HeldOK
<1>2. call.council = home /\ call.local = held.local
  BY DEF Inv, CallOK
<1>3. Key = LastOf(held.local) /\ Key \in Segment
  BY <1>1, <1>2 DEF Key, LastOf, WellMade
<1> QED
  BY <1>1, <1>2, <1>3

LEMMA RespondKeeps ==
  ASSUME Inv, at \in {"fetch", "fetchOld"}, UNCHANGED world,
         NEW result, Fits(result, home, Key),
         result.why = "refused" => held.source # "adapter",
         Respond(result)
  PROVE  Inv'
<1> USE CalledKey
<1>1. PlaceOK' /\ CallOK' /\ HeldOK' /\ IdsFindTheirAdapter'
  BY DEF Inv, PlaceOK, CallOK, HeldOK, WellMade, IdsFindTheirAdapter, Respond, world
<1>2. held' = held /\ home' = home
  BY DEF Respond, world
<1>3. CASE answer' = result
  <2>1. (answer = None \/ answer.shows \in Shown)'
    BY <1>3 DEF Fits
  <2>2. OwnSchedule'
    BY <1>2, <1>3 DEF OwnSchedule, Fits, WellMade, LastOf
  <2>3. MadeUpIdsShowNothing'
    BY <1>2, <1>3 DEF MadeUpIdsShowNothing, Fits, WellMade
  <2>4. OwnIdsAreAccepted'
    BY <1>2, <1>3 DEF OwnIdsAreAccepted
  <2> QED
    BY <1>1, <2>1, <2>2, <2>3, <2>4 DEF Inv, AnswerOK
<1>4. CASE answer' = Mock(Key)
  <2>1. /\ Mock(Key).shows \in {"mock", "nothing"} /\ Mock(Key).why \in {None, "thrown"}
        /\ Key.form # "uprn" => Mock(Key).shows = "nothing"
    BY DEF Mock, Failed
  <2>2. (answer = None \/ answer.shows \in Shown)'
    BY <1>4, <2>1 DEF Shown
  <2>3. OwnSchedule'
    BY <1>4, <2>1, IdentityAssumption DEF OwnSchedule
  <2>4. MadeUpIdsShowNothing'
    BY <1>2, <1>4, <2>1 DEF MadeUpIdsShowNothing, WellMade
  <2>5. OwnIdsAreAccepted'
    BY <1>4, <2>1, IdentityAssumption DEF OwnIdsAreAccepted
  <2> QED
    BY <1>1, <2>2, <2>3, <2>4, <2>5 DEF Inv, AnswerOK
<1> QED
  BY <1>3, <1>4 DEF Respond

(* The row that Fareham's adapter takes is that of the UPRN it looks for.  *)
LEMMA FoundRowFits ==
  ASSUME NEW rows \in Seq(Row), NEW key \in Segment
  PROVE  Fits(FindRow(rows, key), "fareham", key) /\ FindRow(rows, key).why # "refused"
<1>1. \A i \in DOMAIN rows : rows[i] \in Row
  OBVIOUS
<1>2. \A row \in Row : row.address \in Address
  BY DEF Row
<1>3. CASE \E i \in DOMAIN rows : rows[i].linked /\ key = Seg("uprn", rows[i].address)
  BY <1>1, <1>2, <1>3, IdentityAssumption DEF FindRow, Ok, Fits, Seg, Shown
<1>4. CASE ~ \E i \in DOMAIN rows : rows[i].linked /\ key = Seg("uprn", rows[i].address)
  BY <1>1, <1>2, <1>4, IdentityAssumption DEF FindRow, Ok, Failed, Fits, Shown
<1> QED
  BY <1>3, <1>4

LEMMA FailureFits ==
  ASSUME NEW why, NEW k, NEW key \in Segment, why = "refused" => k \in ByUprn \cup {"fareham", "east-hampshire"}
  PROVE  Fits(Failed(why), k, key) /\ Failed(why).why = why
BY IdentityAssumption DEF Failed, Fits, Shown

-----------------------------------------------------------------------------
LEMMA InitInv ==
  ASSUME Init
  PROVE  Inv
BY DEF Init, Inv, PlaceOK, HeldOK, CallOK, AnswerOK, IdsFindTheirAdapter, OwnSchedule,
   MadeUpIdsShowNothing, OwnIdsAreAccepted

LEMMA StepKeepsInv ==
  ASSUME Inv, [Next]_vars
  PROVE  Inv'
<1>1. CASE LookUp
  BY <1>1 DEF LookUp, Inv, PlaceOK, HeldOK, WellMade, CallOK, AnswerOK, IdsFindTheirAdapter,
     OwnSchedule, MadeUpIdsShowNothing, OwnIdsAreAccepted, world
<1>2. CASE ResolveFareham
  <2>1. Dataset \in {"new", "old"} /\ listing[Dataset] \in Seq(Row)
    BY RowsTyped DEF Dataset, Inv
  <2>2. CASE ResolveFailed
    BY <1>2, <2>2, ResolveFailedKeeps DEF ResolveFareham
  <2>3. CASE GoTo("resolveOld")
    BY <1>2, <2>3, GoToKeeps DEF ResolveFareham
  <2>4. CASE Resolved({Issue("adapter", FarehamLocalId(listing[Dataset], i), listing[Dataset][i].address) :
                         i \in DOMAIN listing[Dataset]})
    <3> DEFINE ids == {Issue("adapter", FarehamLocalId(listing[Dataset], i), listing[Dataset][i].address) :
                         i \in DOMAIN listing[Dataset]}
    <3>1. home = "fareham" /\ UNCHANGED world
      BY <1>2 DEF ResolveFareham
    <3>2. \A h \in ids : WellMade(h)
      BY <2>1, <3>1, FarehamIdsWellMade
    <3> HIDE DEF ids
    <3> QED
      BY <2>4, <3>1, <3>2, ResolvedKeeps DEF ids
  <2> QED
    BY <1>2, <2>2, <2>3, <2>4 DEF ResolveFareham
<1>3. CASE ResolvePortal
  <2>1. listing["new"] \in Seq(Row)
    BY RowsTyped DEF Inv
  <2>2. home \in Portals /\ UNCHANGED world
    BY <1>3 DEF ResolvePortal
  <2> DEFINE ids == {Issue("adapter", PortalLocalId(listing["new"], i), listing["new"][i].address) :
                       i \in DOMAIN listing["new"]}
  <2>3. \A h \in ids : WellMade(h)
    BY <2>1, <2>2, PortalIdsWellMade
  <2>4. Resolved(ids) \/ ResolveFailed
    BY <1>3 DEF ResolvePortal
  <2> HIDE DEF ids
  <2> QED
    BY <2>2, <2>3, <2>4, ResolvedKeeps, ResolveFailedKeeps
<1>4. CASE ResolveGosport
  <2>1. home = "gosport" /\ UNCHANGED world
    BY <1>4 DEF ResolveGosport
  <2>2. WellMade(Issue("adapter", <<Seg("postcode", None)>>, None))
    <3>1. Seg("postcode", None) \in Segment /\ Seg("postcode", None).form = "postcode"
      BY DEF Seg, Segment
    <3> QED
      BY <2>1, <3>1, IssuedWellMade DEF ByUprn
  <2> QED
    BY <1>4, <2>1, <2>2, ResolvedKeeps, ResolveFailedKeeps DEF ResolveGosport
<1>5. CASE ResolveEastHampshire
  <2>1. home = "east-hampshire" /\ UNCHANGED world
    BY <1>5 DEF ResolveEastHampshire
  <2>2. WellMade(Issue("adapter", <<Seg("area", None)>>, None))
    <3>1. Seg("area", None) \in Segment /\ Seg("area", None).form = "area"
      BY DEF Seg, Segment
    <3> QED
      BY <2>1, <3>1, IssuedWellMade DEF ByUprn
  <2> QED
    BY <1>5, <2>1, <2>2, ResolvedKeeps, ResolveFailedKeeps DEF ResolveEastHampshire
<1>6. CASE ResolveUnsupported
  BY <1>6, ResolveFailedKeeps DEF ResolveUnsupported
<1>7. CASE ResolveCentrally
  <2>1. \A a \in Address : WellMade(Issue("osPlaces", <<Seg("uprn", a)>>, a))
    <3>1. \A a \in Address : Seg("uprn", a) \in Segment /\ Seg("uprn", a).form = "uprn" /\ Seg("uprn", a).key = a
      BY DEF Seg, Segment
    <3> QED
      BY <3>1, IssuedWellMade
  <2>2. \A i \in 1 .. 5 : WellMade(Issue("synthetic", <<Seg("madeUp", i)>>, None))
    <3>1. \A i \in 1 .. 5 : Seg("madeUp", i) \in Segment /\ Seg("madeUp", i).form = "madeUp"
      BY DEF Seg, Segment
    <3> QED
      BY <3>1, IssuedWellMade
  <2>3. UNCHANGED world
    BY <1>7 DEF ResolveCentrally
  <2> DEFINE known == {Issue("osPlaces", <<Seg("uprn", a)>>, a) : a \in Address}
             madeUp == {Issue("synthetic", <<Seg("madeUp", i)>>, None) : i \in 1 .. 5}
  <2>4. (\A h \in known : WellMade(h)) /\ (\A h \in madeUp : WellMade(h)) /\ (\A h \in {} : WellMade(h))
    BY <2>1, <2>2
  <2>5. Offer(known) \/ Offer(madeUp) \/ Offer({})
    BY <1>7 DEF ResolveCentrally
  <2> HIDE DEF known, madeUp
  <2> QED
    BY <2>3, <2>4, <2>5, OfferKeeps
<1>8. CASE Ask
  <2>1. held # None /\ WellMade(held) /\ held' = held /\ home' = home /\ answer' = None /\ at' = "fetch"
    BY <1>8 DEF Ask, Inv, HeldOK, world
  <2>2. call' = [council |-> home, local |-> held.local]
    BY <1>8, <2>1, SplitUndoes DEF Ask, WellMade
  <2> QED
    BY <1>8, <2>1, <2>2 DEF Ask, Inv, PlaceOK, HeldOK, WellMade, CallOK, AnswerOK, IdsFindTheirAdapter,
       OwnSchedule, MadeUpIdsShowNothing, OwnIdsAreAccepted, world
<1>9. CASE RefuseFareham
  <2>1. at \in {"fetch", "fetchOld"} /\ call.council = "fareham" /\ Len(call.local) < 2 /\ UNCHANGED world
    BY <1>9 DEF RefuseFareham
  <2>2. home = "fareham" /\ Key \in Segment /\ held.source # "adapter"
    BY <2>1, CalledKey DEF WellMade
  <2>3. Fits(Failed("refused"), home, Key)
    BY <2>2, FailureFits
  <2> QED
    BY <1>9, <2>1, <2>2, <2>3, RespondKeeps DEF RefuseFareham
<1>10. CASE FetchFareham
  <2>1. at \in {"fetch", "fetchOld"} /\ call.council = "fareham" /\ Len(call.local) >= 2 /\ UNCHANGED world
    BY <1>10 DEF FetchFareham
  <2>2. home = "fareham" /\ Key \in Segment /\ call.local[2] = Key
    <3>1. WellMade(held)
      BY <2>1, CalledKey
    <3>2. call.council = home /\ call.local = held.local
      BY <2>1, CalledKey
    <3>3. Key = LastOf(held.local) /\ Key \in Segment
      BY <2>1, CalledKey
    <3>4. Len(held.local) \in {1, 2}
      BY <3>1 DEF WellMade
    <3>5. Len(held.local) = 2
      <4>1. Len(call.local) >= 2
        BY <2>1
      <4>2. Len(held.local) >= 2
        BY <3>2, <4>1
      <4>3. \A n \in {1, 2} : n >= 2 => n = 2
        OBVIOUS
      <4> QED
        BY <3>4, <4>2, <4>3
    <3> QED
      BY <2>1, <3>2, <3>3, <3>5 DEF LastOf
  <2>3. CASE Respond(FindRow(listing[Dataset], call.local[2]))
    <3>1. listing[Dataset] \in Seq(Row)
      BY RowsTyped DEF Dataset, Inv
    <3>2. Fits(FindRow(listing[Dataset], Key), "fareham", Key) /\ FindRow(listing[Dataset], Key).why # "refused"
      BY <2>2, <3>1, FoundRowFits
    <3> QED
      BY <2>1, <2>2, <2>3, <3>2, RespondKeeps
  <2>4. CASE Respond(Failed("failed"))
    BY <2>1, <2>2, <2>4, FailureFits, RespondKeeps
  <2>5. CASE GoTo("fetchOld")
    BY <2>1, <2>5, GoToKeeps
  <2> QED
    BY <1>10, <2>3, <2>4, <2>5 DEF FetchFareham
<1>11. CASE Fetch
  <2>1. at \in {"fetch", "fetchOld"} /\ call.council \in Council \ {"fareham"} /\ UNCHANGED world
    BY <1>11 DEF Fetch
  <2>2. home = call.council /\ Key \in Segment /\ WellMade(held) /\ Key = LastOf(held.local)
    BY <2>1, CalledKey
  <2>3. PICK result \in Fetched(home, Key) : Respond(result)
    BY <1>11, <2>2 DEF Fetch
  <2>4. Fits(result, home, Key) /\ (result.why = "refused" => home \in ByUprn \/ Key.form # "area")
    BY <2>1, <2>2, FetchedFits DEF Inv
  <2>5. result.why = "refused" => held.source # "adapter"
    BY <2>1, <2>2, <2>4 DEF Fits, WellMade
  <2> QED
    BY <2>1, <2>3, <2>4, <2>5, RespondKeeps
<1>12. CASE Publish
  <2>1. listing' \in [{"new", "old"} -> Listings] /\ UNCHANGED <<home, osKey, at, route, held, call, answer>>
    BY <1>12 DEF Publish, Inv, PlaceOK
  <2> QED
    BY <2>1 DEF Inv, PlaceOK, HeldOK, WellMade, CallOK, AnswerOK, IdsFindTheirAdapter, OwnSchedule,
       MadeUpIdsShowNothing, OwnIdsAreAccepted
<1>13. CASE UNCHANGED vars
  BY <1>13 DEF vars, world, Inv, PlaceOK, HeldOK, WellMade, CallOK, AnswerOK, IdsFindTheirAdapter, OwnSchedule,
     MadeUpIdsShowNothing, OwnIdsAreAccepted
<1> QED
  BY <1>1, <1>2, <1>3, <1>4, <1>5, <1>6, <1>7, <1>8, <1>9, <1>10, <1>11, <1>12, <1>13 DEF Next

LEMMA Invariance == Spec => []Inv
<1>1. Inv /\ [Next]_vars => Inv'
  BY StepKeepsInv
<1> QED
  BY InitInv, <1>1, PTL DEF Spec

-----------------------------------------------------------------------------
(* The state is well typed, and an id that is held is one that was made.   *)
THEOREM IdentityTypeCorrect == Spec => []IdentityTypeOK
<1>1. Inv => IdentityTypeOK
  BY DEF Inv, PlaceOK, HeldOK, WellMade, AnswerOK, IdentityTypeOK
<1> QED
  BY <1>1, Invariance, PTL

(* Whatever a council publishes and whenever, an id that ends in a UPRN or *)
(* a council's own value shows the schedule of its own address.            *)
THEOREM SchedulesAreOnesOwn == Spec => []OwnSchedule
<1>1. Inv => OwnSchedule
  BY DEF Inv, AnswerOK
<1> QED
  BY <1>1, Invariance, PTL

(* Ids that generateSyntheticAddresses made up bring up no schedule. *)
THEOREM MadeUpIdsAreEmpty == Spec => []MadeUpIdsShowNothing
<1>1. Inv => MadeUpIdsShowNothing
  BY DEF Inv, AnswerOK
<1> QED
  BY <1>1, Invariance, PTL

(* Every adapter accepts the ids that its own resolveAddresses makes, and  *)
(* the collections and services routes undo the composition of an id.      *)
THEOREM IdsKeepTheirMeaning == Spec => []IdsAreHonoured
<1>1. Inv => OwnIdsAreAccepted
  BY DEF Inv, AnswerOK
<1>2. Inv => IdsFindTheirAdapter
  BY DEF Inv
<1>3. Inv => IdsAreHonoured
  BY <1>1, <1>2 DEF IdsAreHonoured
<1> QED
  BY <1>3, Invariance, PTL
=============================================================================
