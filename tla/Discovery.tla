------------------------------ MODULE Discovery ------------------------------
(***************************************************************************)
(* How collectAccount finds the zones of one account that a job selects:   *)
(* ListZones and ZoneTags (internal/cloudflareapi/client.go) read their    *)
(* answers page by page while zones and tags may change on the other side, *)
(* and the zones whose ID the tag answer names are selected                *)
(* (internal/collector/collector.go:440-475).                              *)
(*                                                                         *)
(* The service is external: a listing is read at offsets into the list as  *)
(* it stands when the page is asked for, an empty page ends it, a request  *)
(* may fail, and resources without tags are not in the tag listing.        *)
(***************************************************************************)
EXTENDS Integers, Sequences, FiniteSets, SequencesExt, Sums

CONSTANTS
    Zones,        \* zone IDs of the account
    TagSets,      \* the tags a zone may have: sets of <<key, value>>
    JobFilters,   \* the searchTags a job may have: sequences of filters
    PageSize,     \* entries of a page
    MaxChanges    \* bound on the changes made while the account is read

\* An account has finitely many zones, and their IDs are not empty.
ASSUME DiscoveryAssumption ==
    /\ PageSize \in Nat \ {0} /\ MaxChanges \in Nat
    /\ IsFiniteSet(Zones) /\ "" \notin Zones
    /\ JobFilters \subseteq Seq([key : STRING, value : STRING, negate : BOOLEAN])

VARIABLES
    filters,   \* job.SearchTags
    listed,    \* service: the account's zones in listing order
    tagsOf,    \* service: [Zones -> its tags]
    changes,   \* how often the service has changed
    pc,        \* where collectAccount stands
    page,      \* pages read of the current listing
    out,       \* ListZones' result
    result,    \* ZoneTags' result: the zones named, with their tags
    selected,  \* tagMatched
    shrunk,    \* history: an entry has left one of the two listings
    stable,    \* history: zones listed, and matching, ever since the start
    matching   \* history: zones that matched while tags were read

vars == <<filters, listed, tagsOf, changes, pc, page, out, result, selected,
          shrunk, stable, matching>>

-----------------------------------------------------------------------------

\* Variant: collectJob copies key and value of a filter only.
\* A filter is a record with fields key, value ("" for none) and negate.
queryStringPositive(f) ==
    IF f.value = "" THEN <<"has", f.key>> ELSE <<"equal", f.key, f.value>>

\* TagFilter.queryString: "!key", "key", "key!=value" or "key=value".
queryString(f) ==
    CASE f.value = "" /\ f.negate  -> <<"lacks", f.key>>
      [] f.value = "" /\ ~f.negate -> <<"has", f.key>>
      [] f.value # "" /\ f.negate  -> <<"differs", f.key, f.value>>
      [] OTHER                     -> <<"equal", f.key, f.value>>

KeysOf(tags) == {p[1] : p \in tags}

\* The service's reading of one tag query.
Satisfies(tags, q) ==
    CASE q[1] = "has"     -> q[2] \in KeysOf(tags)
      [] q[1] = "lacks"   -> q[2] \notin KeysOf(tags)
      [] q[1] = "equal"   -> <<q[2], q[3]>> \in tags
      [] q[1] = "differs" -> <<q[2], q[3]>> \notin tags

\* How many of the first n entries of a list are in S; those entries, in order.
Count(list, S, n) == SumTo([i \in DOMAIN list |-> IF list[i] \in S THEN 1 ELSE 0], n)

Kept(list, S) ==
    [k \in 1..Count(list, S, Len(list)) |->
        list[CHOOSE i \in DOMAIN list : list[i] \in S /\ Count(list, S, i) = k]]

\* What a tag listing with queries qs holds: the zone resources in listing order,
\* and in front of them an item without a zone ID.
NoZone == ""

Satisfying(qs) ==
    {z \in Zones : tagsOf[z] # {} /\ \A i \in DOMAIN qs : Satisfies(tagsOf[z], qs[i])}

TagListing(qs) == <<NoZone>> \o Kept(listed, Satisfying(qs))

TagQuery == [i \in DOMAIN filters |-> queryString(filters[i])]

\* The next page of a listing, the last one possibly shorter.
Page(list) ==
    LET last == (page + 1) * PageSize
    IN  SubSeq(list, page * PageSize + 1, IF last < Len(list) THEN last ELSE Len(list))

\* What a filter means (the comment on config.TagFilter).
Meant(f, tags) ==
    LET held == IF f.value = "" THEN f.key \in KeysOf(tags) ELSE <<f.key, f.value>> \in tags
    IN  IF f.negate THEN ~held ELSE held

Matches(tags) == tags # {} /\ \A i \in DOMAIN filters : Meant(filters[i], tags)

\* The zones the job is meant to select of a listing l with tags t.
Wanted(l, t) == {z \in ToSet(l) : filters # << >> => Matches(t[z])}

Init ==
    /\ filters \in JobFilters
    /\ listed \in UNION {SetToSeqs(S) : S \in SUBSET Zones}
    /\ tagsOf \in [Zones -> TagSets]
    /\ changes = 0
    /\ pc = "zones" /\ page = 0
    /\ out = << >> /\ result = {} /\ selected = << >>
    /\ shrunk = FALSE
    /\ stable = Wanted(listed, tagsOf)
    /\ matching = {}

-----------------------------------------------------------------------------
(* The service *)

\* The listings change to l and t between two requests.
Becomes(l, t) ==
    /\ pc \in {"zones", "tags"} /\ changes < MaxChanges
    /\ changes' = changes + 1
    /\ listed' = l /\ tagsOf' = t
    /\ shrunk' = (\/ shrunk
                  \/ ~(ToSet(listed) \subseteq ToSet(l))
                  \/ ~(Wanted(listed, tagsOf) \subseteq Wanted(l, t)))
    /\ stable' = stable \cap Wanted(l, t)
    /\ matching' = IF pc = "tags" THEN matching \cup Wanted(l, t) ELSE matching
    /\ UNCHANGED <<filters, pc, page, out, result, selected>>

ZoneAdded ==
    \E z \in Zones \ ToSet(listed), i \in 1..(Len(listed) + 1) :
       Becomes(InsertAt(listed, i, z), tagsOf)

ZoneRemoved == \E i \in DOMAIN listed : Becomes(RemoveAt(listed, i), tagsOf)

ZoneRetagged ==
    \E z \in ToSet(listed), t \in TagSets : Becomes(listed, [tagsOf EXCEPT ![z] = t])

-----------------------------------------------------------------------------
(* collectAccount, up to the zones it passes to claimZones *)

Service == <<filters, listed, tagsOf, changes, shrunk, stable>>

ZonePage ==
    /\ pc = "zones" /\ Page(listed) # << >>
    /\ out' = out \o Page(listed)
    /\ page' = page + 1
    /\ UNCHANGED <<Service, pc, result, selected, matching>>

\* The empty page ends ListZones; ZoneTags begins.
ZonesListed ==
    /\ pc = "zones" /\ Page(listed) = << >>
    /\ pc' = "tags" /\ page' = 0
    /\ matching' = Wanted(listed, tagsOf)
    /\ UNCHANGED <<Service, out, result, selected>>

\* Nothing of a listing that fails half way is used.
ListZonesFails ==
    /\ pc = "zones"
    /\ pc' = "failed" /\ out' = << >>
    /\ UNCHANGED <<Service, page, result, selected, matching>>

\* tagsOf: the typed answer or the raw map, and no tags if it is neither.
Decoded(z) == IF z = NoZone THEN {{}} ELSE {tagsOf[z], {}}

\* Variant: an item is taken over whether or not it has a zone ID.
NamedAny(z, t) == {<<z, t>>}

\* The entry of the map result for an item: its zone, even without tags.
Named(z, t) == IF z = NoZone THEN {} ELSE {<<z, t>>}

TagPage ==
    /\ pc = "tags" /\ Page(TagListing(TagQuery)) # << >>
    /\ LET items == ToSet(Page(TagListing(TagQuery))) IN
         \E t \in [items -> UNION {Decoded(z) : z \in items}] :
            /\ \A z \in items : t[z] \in Decoded(z)
            /\ result' = {p \in result : p[1] \notin items}
                           \cup UNION {Named(z, t[z]) : z \in items}
    /\ page' = page + 1
    /\ UNCHANGED <<Service, pc, out, selected, matching>>

InTags(z) == \E p \in result : p[1] = z

\* The zones of the listing that the tags leave in scope.
Select ==
    /\ pc = "tags"
    /\ pc' = "selected"
    /\ selected' = Kept(out, {z \in Zones : filters # << >> => InTags(z)})
    /\ UNCHANGED <<Service, page, out, result, matching>>

ZoneTags == Page(TagListing(TagQuery)) = << >> /\ Select

\* Variant: the error of the iterator is not looked at.
ZoneTagsFailsSilently == Select

\* With filters the account fails; without, it goes on with no tags at all.
ZoneTagsFails ==
    /\ pc = "tags"
    /\ pc' = IF filters # << >> THEN "failed" ELSE "selected"
    /\ result' = {}
    /\ selected' = IF filters # << >> THEN << >> ELSE out
    /\ UNCHANGED <<Service, page, out, matching>>

Done == pc \in {"failed", "selected"} /\ UNCHANGED vars

Next ==
    \/ ZoneAdded \/ ZoneRemoved \/ ZoneRetagged
    \/ ZonePage \/ ZonesListed \/ ListZonesFails
    \/ TagPage \/ ZoneTags \/ ZoneTagsFails \/ Done

Spec == Init /\ [][Next]_vars

-----------------------------------------------------------------------------
(* Properties *)

\* Types of the variables; only zones get into the map of tags.
TypeOK ==
    /\ filters \in JobFilters
    /\ listed \in Seq(Zones) /\ out \in Seq(Zones) /\ selected \in Seq(Zones)
    /\ tagsOf \in [Zones -> TagSets]
    /\ changes \in 0..MaxChanges /\ page \in Nat
    /\ pc \in {"zones", "tags", "selected", "failed"}
    /\ \A p \in result : p[1] \in Zones
    /\ shrunk \in BOOLEAN
    /\ stable \subseteq Zones /\ matching \subseteq Zones

\* "SearchTags restrict scraped zones to those matching ALL filters"
\* (config.go:42): a zone selected by filters matched every one of them, as
\* written in the file, at some moment of this reading.
SelectionMatches ==
    pc = "selected" /\ filters # << >> => ToSet(selected) \subseteq matching

\* A zone that was there, tagged and matching all the while is selected, however
\* many pages there are and whatever is added in between, unless the account
\* failed; only an entry that leaves a listing may shift another one out of it.
StableZonesSelected ==
    pc = "selected" /\ ~shrunk => stable \subseteq ToSet(selected)
=============================================================================
