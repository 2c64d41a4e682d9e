---------------------------- MODULE ChangesProofs ----------------------------
(***************************************************************************)
(* The proof that changes of providers and links leave every product able  *)
(* to reach what it has, and that a change is applied on the configuration *)
(* its operator saw: for any number of providers, products, changes,       *)
(* replicas and operators.                                                 *)
(*                                                                         *)
(* The snapshot of a change keeps revisions in the place of most of what   *)
(* was seen.  Every step gives a provider a new revision, or leaves what   *)
(* the snapshot omits of it as it was (Revised); so a snapshot whose       *)
(* revisions are current still recalls all of it (Recalled).               *)
(***************************************************************************)
EXTENDS Changes, CatalogProofs

Assumptions == WorkloadsAssumption /\ EditsAssumption /\ ChangesAssumption

(* The rows have their columns; whatever is linked is linked by a row. *)
CatalogOK ==
  /\ DOMAIN phase = Tickets /\ kept \subseteq Tickets
  /\ \A t \in Tickets : ask[t].product \in Products /\ ask[t].provider \in Providers
  /\ DOMAIN product = Products
  /\ \A p \in Products :
       DOMAIN product[p] = ProductFields /\ product[p].default \in Providers \cup {None}
  /\ DOMAIN provider = Providers
  /\ \A v \in Providers : DOMAIN provider[v] = ProviderFields /\ provider[v].rev \in Nat
  /\ link \in [Products -> [Providers -> LinkRecord \cup {None}]]

(* What only the administration changes of a provider, and never without a new revision. *)
Unedited(v) ==
  /\ DOMAIN provider'[v] = ProviderFields
  /\ provider'[v].known = provider[v].known
  /\ provider'[v].url = provider[v].url
  /\ provider'[v].max = provider[v].max
  /\ provider'[v].accepting = provider[v].accepting
  /\ provider'[v].active = provider[v].active
  /\ provider'[v].rev = provider[v].rev

Unlimited == DOMAIN provider' = Providers /\ \A v \in Providers : Unedited(v)

LEMMA AdvanceUnedited ==
  ASSUME CatalogOK, NEW v \in Providers, Advance(v)
  PROVE  Unlimited
BY DEF CatalogOK, Advance, Unlimited, Unedited, ProviderFields

LEMMA RowGoneUnedited ==
  ASSUME CatalogOK, NEW t \in Tickets, RowGone(t)
  PROVE  Unlimited
<1> DEFINE v == ask[t].provider
           x == provider[v]
           y == [x EXCEPT !.occ = {}, !.absent = @ \ {t}]
<1>1. v \in Providers /\ DOMAIN x = ProviderFields
  BY DEF CatalogOK
<1>2. provider' = [provider EXCEPT ![v] = y]
  BY <1>1 DEF CatalogOK, RowGone
<1>3. DOMAIN y = ProviderFields /\ y = [x EXCEPT !.occ = {}, !.absent = y.absent]
  BY <1>1 DEF ProviderFields
<1> QED
  BY <1>1, <1>2, <1>3 DEF CatalogOK, Unlimited, Unedited, ProviderFields

LEMMA SameUnedited ==
  ASSUME CatalogOK, provider' = provider
  PROVE  Unlimited
BY DEF CatalogOK, Unlimited, Unedited

LEMMA ObservedUnedited ==
  ASSUME CatalogOK, NEW v \in Providers, NEW seen, NEW touched,
         provider' = [provider EXCEPT ![v] = Observed(v, seen, touched)]
  PROVE  Unlimited
BY DEF CatalogOK, Observed, Unlimited, Unedited, ProviderFields

LEMMA LimitedStays ==
  ASSUME CatalogOK, LimitedIsAlone, Unlimited
  PROVE  LimitedIsAlone'
BY DEF LimitedIsAlone, Unlimited, Unedited, Aliases
-----------------------------------------------------------------------------
(* What is needed of a step that unlinks nothing. *)

Linked(t) == link[ProductOf(t)][ask[t].provider] # None
Needs(t) == t \in kept \/ Creation!Held(t)

LinksStay == \A p \in Products, v \in Providers : link[p][v] # None => link'[p][v] # None

LEMMA UnlinkedStays ==
  ASSUME CatalogOK, NothingUnlinked, LinksStay, ask' = ask,
         \A p \in Products : product'[p].default = product[p].default,
         \A t \in Tickets : Needs(t)' => Needs(t) \/ Linked(t)'
  PROVE  NothingUnlinked'
<1>1. ASSUME NEW p \in Products, product'[p].default # None
      PROVE  link'[p][product'[p].default] # None
  <2>1. product[p].default \in Providers \cup {None}
    BY DEF CatalogOK
  <2> QED
    BY <1>1, <2>1 DEF NothingUnlinked, LinksStay
<1>2. ASSUME NEW t \in Tickets, Needs(t)'
      PROVE  Linked(t)'
  <2>1. ask[t].product \in Products /\ ask[t].provider \in Providers
    BY DEF CatalogOK
  <2>2. CASE Linked(t)'
    BY <2>2
  <2>3. CASE Needs(t)
    BY <2>1, <2>3 DEF NothingUnlinked, LinksStay, Linked, Needs, ProductOf
  <2> QED
    BY <1>2, <2>2, <2>3
<1> QED
  BY <1>1, <1>2 DEF NothingUnlinked, Linked, Needs

LEMMA RecordIsSome ==
  ASSUME Assumptions, NEW x \in LinkRecord
  PROVE  x # None
BY DEF Assumptions, WorkloadsAssumption

LEMMA EnsureLinks ==
  ASSUME Assumptions, CatalogOK, NEW p \in Products, NEW v \in Providers,
         NEW a \in BOOLEAN, EnsureLink(p, v, a)
  PROVE  /\ link' \in [Products -> [Providers -> LinkRecord \cup {None}]]
         /\ LinksStay /\ link'[p][v] # None
<1>1. NewLink(a) \in LinkRecord /\ NewLink(a) # None
  <2>1. NewLink(a) \in LinkRecord
    BY DEF NewLink, LinkRecord
  <2> QED
    BY <2>1, RecordIsSome
<1>2. link \in [Products -> [Providers -> LinkRecord \cup {None}]]
  BY DEF CatalogOK
<1>3. CASE link[p][v] = None
  <2>1. link' = [link EXCEPT ![p][v] = NewLink(a)]
    BY <1>3 DEF EnsureLink
  <2> QED
    BY <1>1, <1>2, <2>1 DEF LinksStay
<1>4. CASE link[p][v] # None
  BY <1>2, <1>4 DEF EnsureLink, LinksStay
<1> QED
  BY <1>3, <1>4

LEMMA Admitted ==
  ASSUME Assumptions, CatalogOK, NEW t \in Tickets, NEW own, Admit(t, own)
  PROVE  /\ link' \in [Products -> [Providers -> LinkRecord \cup {None}]]
         /\ LinksStay /\ link'[ProductOf(t)][ask[t].provider] # None
         /\ product' = product
<1> DEFINE p == ProductOf(t)
           v == ask[t].provider
<1>1. p \in Products /\ v \in Providers
  BY DEF CatalogOK, ProductOf
<1>2. Accepts(p, v) /\ product' = product /\ EnsureAdmissionLink(p, v)
  BY DEF Admit, Admissible
<1>3. CASE product[p].mode = "legacy"
  <2>1. EnsureLink(p, v, TRUE)
    BY <1>2, <1>3 DEF EnsureAdmissionLink
  <2> QED
    BY <1>1, <1>2, <2>1, EnsureLinks
<1>4. CASE product[p].mode # "legacy"
  <2>1. link' = link /\ link[p][v] # None
    BY <1>2, <1>4 DEF EnsureAdmissionLink, Accepts
  <2> QED
    BY <1>2, <2>1 DEF CatalogOK, LinksStay, Linked
<1> QED
  BY <1>3, <1>4
-----------------------------------------------------------------------------
(* What every step leaves of the catalogue. *)

Registered == CatalogOK /\ NothingUnlinked /\ LimitedIsAlone

SameRevision(v) ==
  /\ provider'[v].rev = provider[v].rev
  /\ provider'[v].url = provider[v].url
  /\ provider'[v].accepting = provider[v].accepting
  /\ provider'[v].active = provider[v].active

Revised ==
  \A v \in Providers :
    provider[v].known =>
      /\ provider'[v].known
      /\ provider'[v].rev > provider[v].rev \/ SameRevision(v)

LEMMA CreationStep ==
  ASSUME Registered, Unlimited, ask' = ask, product' = product,
         DOMAIN phase' = Tickets, kept' \subseteq Tickets,
         link' \in [Products -> [Providers -> LinkRecord \cup {None}]], LinksStay,
         \A t \in Tickets : Needs(t)' => Needs(t) \/ Linked(t)'
  PROVE  Registered' /\ Revised
<1>1. CatalogOK'
  BY DEF Registered, CatalogOK, Unlimited, Unedited
<1>2. NothingUnlinked'
  BY UnlinkedStays DEF Registered
<1>3. LimitedIsAlone'
  BY LimitedStays DEF Registered
<1>4. Revised
  BY DEF Unlimited, Unedited, Revised, SameRevision
<1> QED
  BY <1>1, <1>2, <1>3, <1>4 DEF Registered

LEMMA CreateKeeps ==
  ASSUME Assumptions, Registered, NEW t \in Tickets, Create(t)
  PROVE  Registered' /\ Revised
<1> USE DEF Needs, Linked, ProductOf, Creation!Held
<1>0. /\ CatalogOK /\ DOMAIN phase = Tickets /\ kept \subseteq Tickets
      /\ ask[t].provider \in Providers
  BY DEF Registered, CatalogOK
<1> DEFINE Still == product' = product /\ link' = link
<1>00. ASSUME Still
       PROVE  /\ product' = product /\ LinksStay
              /\ link' \in [Products -> [Providers -> LinkRecord \cup {None}]]
  BY <1>0, <1>00 DEF LinksStay, CatalogOK
<1>1. CASE Reserve(t)
  <2>1. Creation!Hold(t) /\ Admit(t, FALSE) /\ Advance(ask[t].provider)
    BY <1>1 DEF Reserve
  <2>2. Unlimited
    BY <1>0, <2>1, AdvanceUnedited
  <2>3. /\ ask' = ask /\ DOMAIN phase' = Tickets /\ kept' = kept
        /\ \A u \in Tickets : u # t => phase'[u] = phase[u]
    BY <1>0, <2>1 DEF Creation!Hold, Creation!Become
  <2> QED
    BY <1>0, <2>1, <2>2, <2>3, Admitted, CreationStep
<1>2. CASE Release(t)
  <2>1. Creation!Release(t) /\ Advance(ask[t].provider) /\ Still
    BY <1>2 DEF Release, catalogVars
  <2>2. Unlimited
    BY <1>0, <2>1, AdvanceUnedited
  <2>3. /\ ask' = ask /\ DOMAIN phase' = Tickets /\ kept' \subseteq Tickets
        /\ \A u \in Tickets : Needs(u)' => Needs(u)
    BY <1>0, <2>1 DEF Creation!Become, Creation!Turn, Creation!Release
  <2> QED
    BY <1>00, <2>1, <2>2, <2>3, CreationStep
<1>3. CASE MarkCreating(t)
  <2>1. Creation!Dispatch(t) /\ Admit(t, TRUE) /\ provider' = provider
    BY <1>3 DEF MarkCreating
  <2>2. Unlimited
    BY <1>0, <2>1, SameUnedited
  <2>3. /\ ask' = ask /\ DOMAIN phase' = Tickets /\ kept' = kept
        /\ \A u \in Tickets : Needs(u)' => Needs(u)
    BY <1>0, <2>1 DEF Creation!Dispatch, Creation!Become
  <2> QED
    BY <1>0, <2>1, <2>2, <2>3, Admitted, CreationStep
<1>4. CASE Call(t)
  <2>1. Creation!Call(t) /\ provider' = provider /\ Still
    BY <1>4 DEF Call, catalogVars
  <2>2. Unlimited
    BY <1>0, <2>1, SameUnedited
  <2>3. /\ ask' = ask /\ DOMAIN phase' = Tickets /\ kept' \subseteq Tickets
        /\ \A u \in Tickets : Needs(u)' => Needs(u)
    BY <1>0, <2>1 DEF Creation!Become, Creation!Turn, Creation!Call
  <2> QED
    BY <1>00, <2>1, <2>2, <2>3, CreationStep
<1>5. CASE Answer(t)
  <2>1. Creation!Answer(t) /\ provider' = provider /\ Still
    BY <1>5 DEF Answer, catalogVars
  <2>2. Unlimited
    BY <1>0, <2>1, SameUnedited
  <2>3. /\ ask' = ask /\ DOMAIN phase' = Tickets /\ kept' \subseteq Tickets
        /\ \A u \in Tickets : Needs(u)' => Needs(u)
    BY <1>0, <2>1 DEF Creation!Become, Creation!Turn, Creation!Answer
  <2> QED
    BY <1>00, <2>1, <2>2, <2>3, CreationStep
<1>6. CASE Vanish(t)
  <2>1. Creation!Vanish(t) /\ provider' = provider /\ Still
    BY <1>6 DEF Vanish, catalogVars
  <2>2. Unlimited
    BY <1>0, <2>1, SameUnedited
  <2>3. /\ ask' = ask /\ DOMAIN phase' = Tickets /\ kept' \subseteq Tickets
        /\ \A u \in Tickets : Needs(u)' => Needs(u)
    BY <1>0, <2>1 DEF Creation!Become, Creation!Turn, Creation!Vanish
  <2> QED
    BY <1>00, <2>1, <2>2, <2>3, CreationStep
<1>7. CASE Record(t)
  <2>1. Creation!Keep(t) /\ Advance(ask[t].provider) /\ Still
    BY <1>7 DEF Record, catalogVars
  <2>2. Unlimited
    BY <1>0, <2>1, AdvanceUnedited
  <2>3. /\ ask' = ask /\ DOMAIN phase' = Tickets /\ kept' \subseteq Tickets
        /\ \A u \in Tickets : Needs(u)' => Needs(u)
    BY <1>0, <2>1 DEF Creation!Become, Creation!Turn, Creation!Keep
  <2> QED
    BY <1>00, <2>1, <2>2, <2>3, CreationStep
<1>8. CASE Commit(t)
  <2>1. Creation!Commit(t) /\ Advance(ask[t].provider) /\ Still
    BY <1>8 DEF Commit, catalogVars
  <2>2. Unlimited
    BY <1>0, <2>1, AdvanceUnedited
  <2>3. /\ ask' = ask /\ DOMAIN phase' = Tickets /\ kept' \subseteq Tickets
        /\ \A u \in Tickets : Needs(u)' => Needs(u)
    BY <1>0, <2>1 DEF Creation!Become, Creation!Turn, Creation!Commit
  <2> QED
    BY <1>00, <2>1, <2>2, <2>3, CreationStep
<1>9. CASE Undo(t)
  <2>1. Creation!Undo(t) /\ provider' = provider /\ Still
    BY <1>9 DEF Undo, catalogVars
  <2>2. Unlimited
    BY <1>0, <2>1, SameUnedited
  <2>3. /\ ask' = ask /\ DOMAIN phase' = Tickets /\ kept' \subseteq Tickets
        /\ \A u \in Tickets : Needs(u)' => Needs(u)
    BY <1>0, <2>1 DEF Creation!Become, Creation!Turn, Creation!Undo
  <2> QED
    BY <1>00, <2>1, <2>2, <2>3, CreationStep
<1>10. CASE Drop(t)
  <2>1. (Creation!Undone(t) \/ Creation!Discard(t)) /\ RowGone(t) /\ Still
    BY <1>10 DEF Drop, catalogVars
  <2>2. Unlimited
    BY <1>0, <2>1, RowGoneUnedited
  <2>3. /\ ask' = ask /\ DOMAIN phase' = Tickets /\ kept' \subseteq Tickets
        /\ \A u \in Tickets : Needs(u)' => Needs(u)
    BY <1>0, <2>1 DEF Creation!Become, Creation!Turn, Creation!Undone, Creation!Discard
  <2> QED
    BY <1>00, <2>1, <2>2, <2>3, CreationStep
<1> QED
  BY <1>1, <1>2, <1>3, <1>4, <1>5, <1>6, <1>7, <1>8, <1>9, <1>10 DEF Create
-----------------------------------------------------------------------------
(* The edits of providers. *)

ProvidersOK ==
  DOMAIN provider = Providers
  /\ \A v \in Providers : DOMAIN provider[v] = ProviderFields /\ provider[v].rev \in Nat

LEMMA ProviderStep ==
  ASSUME Registered, UNCHANGED <<ask, phase, kept, product, link>>, ProvidersOK'
  PROVE  CatalogOK' /\ NothingUnlinked'
BY DEF Registered, CatalogOK, ProvidersOK, NothingUnlinked, Creation!Held, ProductOf

LEMMA UnlimitedKeeps ==
  ASSUME Registered, UNCHANGED <<ask, phase, kept, product, link>>, Unlimited
  PROVE  Registered' /\ Revised
<1>1. ProvidersOK'
  BY DEF Registered, CatalogOK, ProvidersOK, Unlimited, Unedited
<1> QED
  BY <1>1, ProviderStep, LimitedStays DEF Registered, Unlimited, Unedited, Revised, SameRevision

(* Whoever is limited stays alone, if a provider is changed to be alone in its installation, *)
(* or to be neither limited itself nor in that of one which is.                              *)
LEMMA OneChanged ==
  ASSUME Registered, ProvidersOK', NEW v \in Providers,
         \A w \in Providers \ {v} : provider'[w] = provider[w],
         \/ provider[v].known /\ provider'[v].url = provider[v].url
         \/ \A w \in Aliases(provider'[v].url, v) : ~IsControlled(w),
         provider'[v].max # None \/ ~provider'[v].accepting => Aliases(provider'[v].url, v) = {}
  PROVE  LimitedIsAlone'
<1> SUFFICES ASSUME NEW w \in Providers, NEW u \in Providers \ {w},
                    provider'[w].known, provider'[u].known,
                    provider'[w].max # None \/ ~provider'[w].accepting,
                    Endpoint[provider'[w].url] # None,
                    Endpoint[provider'[u].url] = Endpoint[provider'[w].url]
             PROVE  FALSE
  BY DEF LimitedIsAlone, Aliases
<1>1. CASE w = v
  <2>1. u \in Aliases(provider'[v].url, v)
    BY <1>1 DEF Aliases
  <2> QED
    BY <1>1, <2>1 DEF IsControlled
<1>2. CASE u = v
  <2>1. w \in Aliases(provider'[v].url, v)
    BY <1>2 DEF Aliases
  <2>2. IsControlled(w) /\ provider[w].known
    BY <1>2 DEF IsControlled
  <2>3. provider'[v].url = provider[v].url /\ provider[v].known
    BY <2>1, <2>2
  <2> QED
    BY <1>2, <2>2, <2>3 DEF Registered, LimitedIsAlone, Aliases
<1>3. CASE w # v /\ u # v
  BY <1>3 DEF Registered, LimitedIsAlone, Aliases
<1> QED
  BY <1>1, <1>2, <1>3

LEMMA CreateRecordKeeps ==
  ASSUME Registered, NEW v \in Providers, NEW u \in Urls, NEW strict \in BOOLEAN,
         CreateRecord(v, u, strict)
  PROVE  Registered' /\ Revised
<1>1. /\ UNCHANGED <<ask, phase, kept, product, link>> /\ ~provider[v].known
      /\ EndpointAvailable(u, v, strict)
      /\ provider' = [provider EXCEPT ![v] = NewProvider(u)]
  BY DEF CreateRecord, unedited, creationVars
<1>2. /\ \A w \in Providers \ {v} : provider'[w] = provider[w]
      /\ provider'[v] = NewProvider(u) /\ DOMAIN provider' = Providers
  BY <1>1 DEF Registered, CatalogOK
<1>3. /\ DOMAIN provider'[v] = ProviderFields /\ provider'[v].rev = 0
      /\ provider'[v].url = u /\ provider'[v].max = None /\ provider'[v].accepting
  BY <1>2 DEF NewProvider, ProviderFields
<1>4. ProvidersOK'
  BY <1>2, <1>3 DEF ProvidersOK, Registered, CatalogOK
<1>5. LimitedIsAlone'
  <2>1. \A w \in Aliases(provider'[v].url, v) : ~IsControlled(w)
    BY <1>1, <1>3 DEF EndpointAvailable
  <2> QED
    BY <1>2, <1>3, <1>4, <2>1, OneChanged
<1>6. Revised
  BY <1>1, <1>2 DEF Revised, SameRevision, Registered, CatalogOK
<1> QED
  BY <1>1, <1>4, <1>5, <1>6, ProviderStep DEF Registered

LEMMA ReadyIsAlone ==
  ASSUME NEW v, NEW x, NEW relay, Readiness(v, x, relay) = {}
  PROVE  Aliases(x.url, v) = {}
<1>1. Blocks(Aliases(x.url, v) # {}, "endpoint_alias") = {}
  BY DEF Readiness
<1> QED
  BY <1>1 DEF Blocks

(* What an update leaves in the columns that matter here. *)
LEMMA UpdatedRow ==
  ASSUME NEW x, DOMAIN x = ProviderFields, NEW e, NEW moves, NEW y, y = Updated(x, e, moves)
  PROVE  /\ DOMAIN y = ProviderFields /\ y.rev = x.rev + 1 /\ y.known = x.known
         /\ y.url = Given(e.url, x.url) /\ y.max = Given(e.max, x.max)
         /\ y.accepting = Given(e.accepting, x.accepting)
<1> DEFINE url == Given(e.url, x.url)
           forget == moves \/ e.key
           b == IF e.url # NotGiven \/ e.confirm THEN Endpoint[url] ELSE x.endpoint
           c == IF e.confirm THEN "verified" ELSE IF moves THEN "pending" ELSE x.identity
           d == IF moves THEN "pending" ELSE x.callback
           f == Given(e.active, x.active)
           g == Given(e.accepting, x.accepting)
           h == Given(e.max, x.max)
           i == x.rev + 1
           j == IF forget THEN "unknown" ELSE x.status
           k == IF forget THEN "never" ELSE x.observed
<1>1. y = [x EXCEPT !.url = url, !.endpoint = b, !.identity = c, !.callback = d, !.active = f,
                    !.accepting = g, !.max = h, !.rev = i, !.status = j, !.observed = k]
  BY DEF Updated
<1> HIDE DEF url, b, c, d, f, g, h, i, j, k
<1>2. /\ DOMAIN y = ProviderFields /\ y.known = x.known
      /\ y.url = url /\ y.accepting = g /\ y.max = h /\ y.rev = i
  <2>1. DOMAIN y = ProviderFields
    BY <1>1
  <2>2. y.known = x.known
    BY <1>1
  <2>3. y.url = url
    BY <1>1 DEF ProviderFields
  <2>4. y.accepting = g
    BY <1>1 DEF ProviderFields
  <2>5. y.max = h /\ y.rev = i
    BY <1>1 DEF ProviderFields
  <2> QED
    BY <2>1, <2>2, <2>3, <2>4, <2>5
<1> QED
  BY <1>2 DEF url, g, h, i

LEMMA UpdateRecordKeeps ==
  ASSUME Assumptions, Registered, NEW v \in Providers, NEW e \in ProviderEdits,
         UpdateRecord(v, e)
  PROVE  Registered' /\ Revised
<1> DEFINE x == provider[v]
           y == provider'[v]
           url == Given(e.url, x.url)
<1>1. /\ UNCHANGED <<ask, phase, kept, product, link>> /\ x.known
      /\ Permitted(v, e) /\ (Limits(e) => LimitReady(v, e))
      /\ provider' = [provider EXCEPT ![v] = Updated(x, e, Moves(v, e))]
  BY DEF UpdateRecord, unedited, creationVars
<1>2. /\ \A w \in Providers \ {v} : provider'[w] = provider[w]
      /\ y = Updated(x, e, Moves(v, e)) /\ DOMAIN provider' = Providers
      /\ DOMAIN x = ProviderFields /\ x.rev \in Nat
  BY <1>1 DEF Registered, CatalogOK
<1>3. /\ DOMAIN y = ProviderFields /\ y.rev = x.rev + 1 /\ y.known = x.known
      /\ y.url = url /\ y.max = Given(e.max, x.max)
      /\ y.accepting = Given(e.accepting, x.accepting)
  BY <1>2, UpdatedRow
<1> HIDE DEF x, y
<1>4. ProvidersOK'
  BY <1>2, <1>3 DEF ProvidersOK, Registered, CatalogOK, y
<1>5. \/ x.known /\ y.url = x.url
      \/ \A w \in Aliases(y.url, v) : ~IsControlled(w)
  BY <1>1, <1>3 DEF Permitted, Given, EndpointAvailable, x
<1>6. ASSUME y.max # None \/ ~y.accepting
      PROVE  Aliases(y.url, v) = {}
  <2>1. CASE Limits(e)
    <3>1. LimitReady(v, e)
      BY <1>1, <2>1
    <3>2. Aliases(x.url, v) = {}
      <4> DEFINE z == IF e.confirm
                      THEN [x EXCEPT !.identity = "verified", !.endpoint = Endpoint[url]]
                      ELSE x
      <4>1. Readiness(v, z, FALSE) = {}
        BY <3>1 DEF LimitReady, x
      <4>2. z.url = x.url
        <5> HIDE DEF url
        <5> QED
          BY <1>2 DEF ProviderFields
      <4> HIDE DEF z
      <4> QED
        BY <4>1, <4>2, ReadyIsAlone
    <3>3. y.url = x.url
      BY <1>3, <3>1 DEF LimitReady, Moves, Given, x
    <3> QED
      BY <3>2, <3>3
  <2>2. CASE e.accepting = FALSE
    BY <1>1, <1>3, <2>2 DEF Permitted, EndpointAvailable, x
  <2>3. CASE ~Limits(e) /\ e.accepting # FALSE
    <3>1. x.max # None \/ ~x.accepting
      BY <1>3, <1>6, <2>3 DEF Limits, Given, Assumptions, EditsAssumption
    <3>2. IsControlled(v) /\ Aliases(x.url, v) = {}
      BY <1>1, <3>1 DEF IsControlled, Registered, LimitedIsAlone, x
    <3> QED
      BY <1>1, <1>3, <3>2 DEF Permitted, Given, EndpointAvailable, x
  <2> QED
    BY <2>1, <2>2, <2>3
<1>7. LimitedIsAlone'
  BY <1>2, <1>4, <1>5, <1>6, OneChanged DEF x, y
<1>8. Revised
  <2>1. ASSUME NEW w \in Providers, provider[w].known
        PROVE  provider'[w].known /\ (provider'[w].rev > provider[w].rev \/ SameRevision(w))
    <3>1. CASE w = v
      BY <1>2, <1>3, <2>1, <3>1 DEF x, y
    <3>2. CASE w # v
      BY <1>2, <2>1, <3>2 DEF SameRevision
    <3> QED
      BY <3>1, <3>2
  <2> QED
    BY <2>1 DEF Revised
<1> QED
  BY <1>1, <1>4, <1>7, <1>8, ProviderStep DEF Registered

LEMMA RetireKeeps ==
  ASSUME Registered, NEW v \in Providers, Retire(v)
  PROVE  Registered' /\ Revised
<1>1. /\ UNCHANGED <<ask, phase, kept, product, link>>
      /\ provider' = [provider EXCEPT ![v].active = FALSE, ![v].rev = @ + 1]
  BY DEF Retire, unedited, creationVars
<1>2. /\ \A w \in Providers \ {v} : provider'[w] = provider[w]
      /\ DOMAIN provider' = Providers /\ DOMAIN provider'[v] = ProviderFields
      /\ provider'[v].rev = provider[v].rev + 1 /\ provider'[v].known = provider[v].known
      /\ provider'[v].url = provider[v].url /\ provider'[v].max = provider[v].max
      /\ provider'[v].accepting = provider[v].accepting
  BY <1>1 DEF Registered, CatalogOK, ProviderFields
<1>3. ProvidersOK'
  BY <1>2 DEF ProvidersOK, Registered, CatalogOK
<1>4. LimitedIsAlone'
  BY <1>2 DEF Registered, LimitedIsAlone, Aliases
<1>5. Revised
  BY <1>2 DEF Revised, SameRevision, Registered, CatalogOK
<1> QED
  BY <1>1, <1>3, <1>4, <1>5, ProviderStep DEF Registered

LEMMA EditProviderKeeps ==
  ASSUME Assumptions, Registered, EditProvider
  PROVE  Registered' /\ Revised
<1>1. ASSUME NEW v \in Providers, NEW active \in BOOLEAN, UpdateHost(v, active)
      PROVE  Registered' /\ Revised
  <2>1. /\ UNCHANGED <<ask, phase, kept, product, link>>
        /\ provider' = [provider EXCEPT ![v].host = active]
    BY <1>1 DEF UpdateHost, unedited, creationVars
  <2>2. Unlimited
    BY <2>1 DEF Registered, CatalogOK, Unlimited, Unedited, ProviderFields
  <2> QED
    BY <2>1, <2>2, UnlimitedKeeps
<1> QED
  BY <1>1, CreateRecordKeeps, UpdateRecordKeeps, RetireKeeps DEF EditProvider

LEMMA CallbackReceivedKeeps ==
  ASSUME Registered, NEW v \in Providers, CallbackReceived(v)
  PROVE  Registered' /\ Revised
<1>1. /\ UNCHANGED <<ask, phase, kept, product, link>>
      /\ provider' = [provider EXCEPT ![v].callback = "ready"]
  BY DEF CallbackReceived, unedited, creationVars
<1>2. Unlimited
  BY <1>1 DEF Registered, CatalogOK, Unlimited, Unedited, ProviderFields
<1> QED
  BY <1>1, <1>2, UnlimitedKeeps
-----------------------------------------------------------------------------
(* The edits of products and links. *)

ProductsOK ==
  /\ DOMAIN product = Products
  /\ \A p \in Products :
       DOMAIN product[p] = ProductFields /\ product[p].default \in Providers \cup {None}

LinksOK == link \in [Products -> [Providers -> LinkRecord \cup {None}]]

LEMMA ProductStep ==
  ASSUME Registered, UNCHANGED <<ask, phase, kept, provider>>,
         ProductsOK', LinksOK', NothingUnlinked'
  PROVE  Registered' /\ Revised
<1>1. CatalogOK'
  BY DEF Registered, CatalogOK, ProductsOK, LinksOK
<1>2. LimitedIsAlone' /\ Revised
  BY DEF Registered, LimitedIsAlone, Aliases, Revised, SameRevision
<1> QED
  BY <1>1, <1>2 DEF Registered

(* The new product differs in what is not its default. *)
LEMMA DefaultStays ==
  ASSUME Registered, UNCHANGED <<ask, phase, kept, provider>>, ProductsOK', LinksOK', LinksStay,
         \A p \in Products : product'[p].default = product[p].default
  PROVE  Registered' /\ Revised
<1>1. NothingUnlinked'
  BY UnlinkedStays DEF Registered, Needs, Creation!Held
<1> QED
  BY <1>1, ProductStep

LEMMA NextRevisionKeepsDefaults ==
  ASSUME CatalogOK, NEW p \in Products, NextRevision(p)
  PROVE  ProductsOK' /\ \A q \in Products : product'[q].default = product[q].default
BY DEF CatalogOK, NextRevision, ProductsOK, ProductFields

LEMMA LinkedAnew ==
  ASSUME Assumptions, CatalogOK, NEW p \in Products, NEW v \in Providers,
         NEW x \in LinkRecord, link' = [link EXCEPT ![p][v] = x]
  PROVE  LinksOK' /\ LinksStay
<1>1. x # None
  BY RecordIsSome
<1> QED
  BY <1>1 DEF CatalogOK, LinksOK, LinksStay

LEMMA EditLinkKeeps ==
  ASSUME Assumptions, Registered, NEW p \in Products, NEW v \in Providers,
         Attach(p, v) \/ \E a \in BOOLEAN : UpdateLink(p, v, a)
  PROVE  Registered' /\ Revised
<1>1. CatalogOK /\ UNCHANGED <<ask, phase, kept, provider>> /\ NextRevision(p)
  BY DEF Registered, Attach, UpdateLink, unedited, creationVars
<1>2. PICK x \in LinkRecord : link' = [link EXCEPT ![p][v] = x]
  <2>1. CASE Attach(p, v)
    <3>1. NewLink(FALSE) \in LinkRecord
      BY DEF NewLink, LinkRecord
    <3> QED
      BY <2>1, <3>1 DEF Attach
  <2>2. CASE \E a \in BOOLEAN : UpdateLink(p, v, a)
    <3>1. PICK a \in BOOLEAN : UpdateLink(p, v, a)
      BY <2>2
    <3>2. link[p][v] \in LinkRecord
      BY <1>1, <3>1 DEF UpdateLink, CatalogOK
    <3>3. [accepting |-> a, rev |-> link[p][v].rev + 1] \in LinkRecord
      BY <3>2 DEF LinkRecord
    <3> QED
      BY <3>1, <3>3 DEF UpdateLink
  <2> QED
    BY <2>1, <2>2
<1>3. LinksOK' /\ LinksStay
  BY <1>1, <1>2, LinkedAnew
<1> QED
  BY <1>1, <1>3, NextRevisionKeepsDefaults, DefaultStays

(* A link is removed only when neither default, rows nor open creations need it. *)
LEMMA EmptyLinkOnly ==
  ASSUME Registered, NEW p \in Products, NEW v \in Providers, DetachBlockers(p, v) = {}
  PROVE  /\ product[p].default # v
         /\ \A t \in Tickets : Needs(t) => ProductOf(t) # p \/ ask[t].provider # v
<1>1. /\ Blocks(product[p].default = v, "default_provider") = {}
      /\ Blocks(\E t \in RowsOf(p) : ask[t].provider = v, "instances_present") = {}
      /\ Blocks(PendingProvisionings(p, v), "provisioning_pending") = {}
  BY DEF DetachBlockers
<1>2. /\ product[p].default # v
      /\ ~ \E t \in RowsOf(p) : ask[t].provider = v
      /\ ~ PendingProvisionings(p, v)
  BY <1>1 DEF Blocks
<1>3. \A t \in kept : ProductOf(t) # p \/ ask[t].provider # v
  BY <1>2 DEF RowsOf
<1>4. \A t \in Tickets : Creation!Held(t) => ProductOf(t) # p \/ ask[t].provider # v
  BY <1>2 DEF PendingProvisionings
<1> QED
  BY <1>2, <1>3, <1>4 DEF Needs

LEMMA DetachKeeps ==
  ASSUME Registered, NEW p \in Products, NEW v \in Providers, Detach(p, v)
  PROVE  Registered' /\ Revised
<1>1. /\ CatalogOK /\ UNCHANGED <<ask, phase, kept, provider>> /\ NextRevision(p)
      /\ DetachBlockers(p, v) = {} /\ link' = [link EXCEPT ![p][v] = None]
  BY DEF Registered, Detach, DetachEmptyLink, unedited, creationVars
<1>2. ProductsOK' /\ \A q \in Products : product'[q].default = product[q].default
  BY <1>1, NextRevisionKeepsDefaults
<1>3. LinksOK' /\ \A q \in Products, u \in Providers :
                    link[q][u] # None => link'[q][u] # None \/ (q = p /\ u = v)
  BY <1>1 DEF CatalogOK, LinksOK
<1>4. NothingUnlinked'
  <2>1. ASSUME NEW q \in Products, product'[q].default # None
        PROVE  link'[q][product'[q].default] # None
    <3>1. product[q].default \in Providers /\ link[q][product[q].default] # None
      BY <1>1, <1>2, <2>1 DEF CatalogOK, Registered, NothingUnlinked
    <3>2. product[p].default # v
      BY <1>1, EmptyLinkOnly
    <3> QED
      BY <1>2, <1>3, <3>1, <3>2
  <2>2. ASSUME NEW t \in Tickets, Needs(t)
        PROVE  Linked(t)'
    <3>1. /\ ProductOf(t) \in Products /\ ask[t].provider \in Providers
          /\ link[ProductOf(t)][ask[t].provider] # None
      BY <1>1, <2>2 DEF CatalogOK, Registered, NothingUnlinked, Needs, ProductOf
    <3>2. ProductOf(t) # p \/ ask[t].provider # v
      BY <1>1, <2>2, EmptyLinkOnly
    <3> QED
      BY <1>1, <1>3, <3>1, <3>2 DEF Linked, ProductOf
  <2>3. \A t \in Tickets : Needs(t)' => Needs(t)
    BY <1>1 DEF Needs, Creation!Held
  <2> QED
    BY <2>1, <2>2, <2>3 DEF NothingUnlinked, Needs, Linked
<1> QED
  BY <1>1, <1>2, <1>3, <1>4, ProductStep

LEMMA SettingsKeep ==
  ASSUME Registered, NEW p \in Products,
         \/ DeactivateProduct(p)
         \/ \E mode \in {"legacy", "capacity"}, w \in BOOLEAN : SetAllocation(p, mode, w)
  PROVE  Registered' /\ Revised
<1>1. CatalogOK /\ UNCHANGED <<ask, phase, kept, provider, link>>
  BY DEF Registered, DeactivateProduct, SetAllocation, unedited, creationVars
<1>2. ProductsOK' /\ \A q \in Products : product'[q].default = product[q].default
  <2>1. CASE DeactivateProduct(p)
    BY <1>1, <2>1 DEF DeactivateProduct, CatalogOK, ProductsOK, ProductFields
  <2>2. CASE \E mode \in {"legacy", "capacity"}, w \in BOOLEAN : SetAllocation(p, mode, w)
    BY <1>1, <2>2 DEF SetAllocation, CatalogOK, ProductsOK, ProductFields
  <2> QED
    BY <2>1, <2>2
<1>3. LinksOK' /\ LinksStay
  BY <1>1 DEF CatalogOK, LinksOK, LinksStay
<1> QED
  BY <1>1, <1>2, <1>3, DefaultStays

LEMMA UpdateProductKeeps ==
  ASSUME Assumptions, Registered, NEW p \in Products, NEW d \in ProductEdits, UpdateProduct(p, d)
  PROVE  Registered' /\ Revised
<1> DEFINE default == Given(d.default, product[p].default)
<1>1. /\ CatalogOK /\ UNCHANGED <<ask, phase, kept, provider>>
      /\ product' = [product EXCEPT ![p] =
           [@ EXCEPT !.default = default, !.relay = Given(d.relay, @),
                     !.active = Given(d.active, @), !.rev = @ + 1]]
      /\ IF default # None THEN EnsureLink(p, default, product[p].mode = "legacy")
                           ELSE link' = link
  BY DEF Registered, UpdateProduct, unedited, creationVars
<1>2. default \in Providers \cup {None}
  BY <1>1 DEF CatalogOK, Assumptions, EditsAssumption, Given
<1> HIDE DEF default
<1>3. /\ ProductsOK' /\ product'[p].default = default
      /\ \A q \in Products \ {p} : product'[q].default = product[q].default
  BY <1>1, <1>2 DEF CatalogOK, ProductsOK, ProductFields
<1>4. LinksOK' /\ LinksStay /\ (default # None => link'[p][default] # None)
  <2>1. CASE default = None
    BY <1>1, <2>1 DEF CatalogOK, LinksOK, LinksStay
  <2>2. CASE default # None
    BY <1>1, <1>2, <2>2, EnsureLinks DEF LinksOK
  <2> QED
    BY <2>1, <2>2
<1>5. NothingUnlinked'
  <2>1. ASSUME NEW q \in Products, product'[q].default # None
        PROVE  link'[q][product'[q].default] # None
    <3>1. CASE q = p
      BY <1>3, <1>4, <2>1, <3>1
    <3>2. CASE q # p
      BY <1>1, <1>3, <1>4, <2>1, <3>2 DEF CatalogOK, Registered, NothingUnlinked, LinksStay
    <3> QED
      BY <3>1, <3>2
  <2>2. ASSUME NEW t \in Tickets, Needs(t)
        PROVE  Linked(t)'
    BY <1>1, <1>4, <2>2
       DEF CatalogOK, Registered, NothingUnlinked, LinksStay, Needs, Linked, ProductOf
  <2>3. \A t \in Tickets : Needs(t)' => Needs(t)
    BY <1>1 DEF Needs, Creation!Held
  <2> QED
    BY <2>1, <2>2, <2>3 DEF NothingUnlinked, Needs, Linked
<1> QED
  BY <1>1, <1>3, <1>4, <1>5, ProductStep

LEMMA EditProductKeeps ==
  ASSUME Assumptions, Registered, EditProduct
  PROVE  Registered' /\ Revised
<1>1. PICK p \in Products :
        \/ \E v \in Providers :
             Attach(p, v) \/ Detach(p, v) \/ \E a \in BOOLEAN : UpdateLink(p, v, a)
        \/ \E mode \in {"legacy", "capacity"}, w \in BOOLEAN : SetAllocation(p, mode, w)
        \/ \E d \in ProductEdits : UpdateProduct(p, d)
        \/ DeactivateProduct(p)
  BY DEF EditProduct
<1> QED
  BY <1>1, EditLinkKeeps, DetachKeeps, SettingsKeep, UpdateProductKeeps
-----------------------------------------------------------------------------
(* A change that is applied. *)

LEMMA WrittenRow ==
  ASSUME CatalogOK, NEW d, NEW v \in Providers
  PROVE  LET x == provider[v]
             y == Written(v, d)
         IN /\ DOMAIN y = ProviderFields /\ y.rev \in Nat /\ y.rev >= x.rev
            /\ y.url = x.url /\ y.known = x.known /\ y.active = x.active
            /\ y.accepting = x.accepting
            /\ y.max = IF v \in DOMAIN d.limits THEN d.limits[v] ELSE x.max
<1> DEFINE x == provider[v]
           i == Identified(v, d)
           a == ProviderAfter(v, d)
           y == Written(v, d)
           writes == Cardinality({v} \cap DOMAIN d.limits) + Cardinality({v} \cap d.identities)
<1>1. DOMAIN x = ProviderFields /\ x.rev \in Nat
  BY DEF CatalogOK
<1>2. /\ DOMAIN i = ProviderFields /\ i.rev = x.rev /\ i.url = x.url /\ i.known = x.known
      /\ i.active = x.active /\ i.accepting = x.accepting /\ i.max = x.max
  <2> HIDE DEF x
  <2>1. i = IF v \in d.identities
            THEN [x EXCEPT !.identity = "verified", !.endpoint = Endpoint[x.url]] ELSE x
    BY DEF Identified, Confirmed, x
  <2> HIDE DEF i
  <2> QED
    BY <1>1, <2>1 DEF ProviderFields
<1>3. /\ DOMAIN a = ProviderFields /\ a.rev = x.rev /\ a.url = x.url /\ a.known = x.known
      /\ a.active = x.active /\ a.accepting = x.accepting
      /\ a.max = IF v \in DOMAIN d.limits THEN d.limits[v] ELSE x.max
  <2>1. a = IF v \in DOMAIN d.limits THEN [i EXCEPT !.max = d.limits[v]] ELSE i
    BY DEF ProviderAfter
  <2> HIDE DEF x, i, a
  <2> QED
    BY <1>2, <2>1 DEF ProviderFields
<1>4. writes \in Nat
  <2>1. ASSUME NEW S
        PROVE  Cardinality({v} \cap S) \in Nat
    <3>1. {v} \cap S = {} \/ {v} \cap S = {v}
      OBVIOUS
    <3>2. Cardinality({}) = 0 /\ Cardinality({v}) = 1
      BY FS_EmptySet, FS_Singleton
    <3> QED
      BY <3>1, <3>2
  <2> QED
    BY <2>1
<1>5. y = [a EXCEPT !.rev = a.rev + writes]
  BY DEF Written
<1> HIDE DEF x, a, y, writes
<1>6. /\ DOMAIN y = ProviderFields /\ y.rev = a.rev + writes /\ y.url = a.url /\ y.known = a.known
      /\ y.active = a.active /\ y.accepting = a.accepting /\ y.max = a.max
  BY <1>3, <1>5 DEF ProviderFields
<1>7. y.rev \in Nat /\ y.rev >= x.rev
  BY <1>1, <1>3, <1>4, <1>6
<1> QED
  BY <1>3, <1>6, <1>7 DEF x, y

LEMMA LinkAfterIsLink ==
  ASSUME Assumptions, CatalogOK, NEW d, WellFormed(d), NEW v \in Providers
  PROVE  /\ LinkAfter(d, v) \in LinkRecord \cup {None}
         /\ link[d.product][v] # None /\ ~(d.action = "detach" /\ v = d.target)
            => LinkAfter(d, v) # None
<1> DEFINE x == link[d.product][v]
           own == IF v \notin DOMAIN d.links THEN x
                  ELSE IF x = None THEN NewLink(d.links[v] = TRUE)
                  ELSE [accepting |-> Given(d.links[v], x.accepting), rev |-> x.rev + 1]
<1>1. x \in LinkRecord \cup {None}
  BY DEF CatalogOK, WellFormed
<1>2. own \in LinkRecord \cup {None} /\ (x # None => own # None)
  <2>1. CASE v \notin DOMAIN d.links
    BY <1>1, <2>1
  <2>2. CASE v \in DOMAIN d.links /\ x = None
    BY <2>2 DEF NewLink, LinkRecord
  <2>3. CASE v \in DOMAIN d.links /\ x # None
    <3>1. x.accepting \in BOOLEAN /\ x.rev \in Nat
      BY <1>1, <2>3 DEF LinkRecord
    <3>2. Given(d.links[v], x.accepting) \in BOOLEAN /\ x.rev + 1 \in Nat
      BY <2>3, <3>1 DEF Given, WellFormed
    <3>3. own \in LinkRecord
      BY <2>3, <3>2 DEF LinkRecord
    <3> QED
      BY <3>3, RecordIsSome
  <2> QED
    BY <2>1, <2>2, <2>3
<1>3. LinkAfter(d, v) = IF d.action = "detach" /\ v = d.target THEN None
                        ELSE IF d.action = "single_destination" /\ own # None
                        THEN [accepting |-> v = d.target, rev |-> own.rev + 1]
                        ELSE own
  BY DEF LinkAfter
<1> HIDE DEF own, x
<1>4. own # None => [accepting |-> v = d.target, rev |-> own.rev + 1] \in LinkRecord
  BY <1>2 DEF LinkRecord
<1> QED
  BY <1>2, <1>3, <1>4, RecordIsSome DEF x

LEMMA LimitsReady ==
  ASSUME NEW d, WellFormed(d), NEW s, Evaluate(d, s) = {},
         NEW v \in DOMAIN d.limits, d.limits[v] # None
  PROVE  Aliases(Identified(v, d).url, v) = {}
<1>1. ~Reversal(d)
  BY DEF WellFormed, Reversal, Actions
<1>2. ActivationBlockers(d, s) = {}
  BY <1>1 DEF Evaluate
<1>3. UNION {LimitBlockers(u, d, s) : u \in DOMAIN d.limits} = {}
  <2>1. UNION {LimitBlockers(u, d, s) : u \in DOMAIN d.limits} \subseteq ActivationBlockers(d, s)
    BY Zenon DEF ActivationBlockers
  <2> QED
    BY <1>2, <2>1
<1>4. LimitBlockers(v, d, s) = {}
  BY <1>3
<1>5. Readiness(v, Identified(v, d), FALSE) = {}
  BY <1>4 DEF LimitBlockers
<1> QED
  BY <1>5, ReadyIsAlone

LEMMA RestoresLinked ==
  ASSUME NEW d, NEW s, Evaluate(d, s) = {}, d.action = "restore_legacy"
  PROVE  link[d.product][d.target] # None
<1>1. LegacyBlockers(d.product, d.target) = {}
  BY DEF Evaluate, Reversal, ReversalBlockers
<1>2. LET x == provider[d.target]
      IN Blocks(~x.known \/ ~x.active \/ ~x.host \/ link[d.product][d.target] = None,
                "target_unavailable") = {}
  BY <1>1 DEF LegacyBlockers
<1> QED
  BY <1>2 DEF Blocks

LEMMA DetachesEmpty ==
  ASSUME NEW d, NEW s, Evaluate(d, s) = {}, d.action = "detach"
  PROVE  DetachBlockers(d.product, d.target) = {}
BY DEF Evaluate, Reversal, ReversalBlockers

LEMMA AppliedKeeps ==
  ASSUME Assumptions, Registered, NEW d, WellFormed(d), NEW s, Evaluate(d, s) = {},
         UNCHANGED <<ask, phase, kept>>,
         provider' = [v \in Providers |-> Written(v, d)],
         link' = [link EXCEPT ![d.product] = [v \in Providers |-> LinkAfter(d, v)]],
         product' = [product EXCEPT ![d.product] = ProductAfter(d)]
  PROVE  Registered' /\ Revised
<1>1. CatalogOK /\ d.product \in Products
  BY DEF Registered, WellFormed
<1>2. ASSUME NEW v \in Providers
      PROVE  LET x == provider[v]
                 y == provider'[v]
             IN /\ DOMAIN y = ProviderFields /\ y.rev \in Nat /\ y.rev >= x.rev
                /\ y.url = x.url /\ y.known = x.known /\ y.active = x.active
                /\ y.accepting = x.accepting
                /\ y.max = IF v \in DOMAIN d.limits THEN d.limits[v] ELSE x.max
  <2>1. provider'[v] = Written(v, d)
    OBVIOUS
  <2> QED
    BY <1>1, <2>1, WrittenRow
<1>3. ProvidersOK'
  BY <1>2 DEF ProvidersOK
<1>4. ProductsOK' /\ \A p \in Products :
                       product'[p].default = IF p = d.product /\ d.action = "restore_legacy"
                                             THEN d.target ELSE product[p].default
  <2>1. /\ DOMAIN ProductAfter(d) = ProductFields
        /\ ProductAfter(d).default = IF d.action = "restore_legacy" THEN d.target
                                     ELSE product[d.product].default
    BY <1>1 DEF ProductAfter, CatalogOK, ProductFields
  <2>2. d.action = "restore_legacy" => d.target \in Providers
    BY DEF WellFormed
  <2> QED
    BY <1>1, <2>1, <2>2 DEF CatalogOK, ProductsOK
<1>5. /\ LinksOK'
      /\ \A p \in Products, v \in Providers :
           link[p][v] # None =>
             link'[p][v] # None \/ (d.action = "detach" /\ p = d.product /\ v = d.target)
  <2>1. /\ \A v \in Providers : link'[d.product][v] = LinkAfter(d, v)
        /\ \A p \in Products \ {d.product} : link'[p] = link[p]
        /\ [v \in Providers |-> LinkAfter(d, v)] \in [Providers -> LinkRecord \cup {None}]
    BY <1>1, LinkAfterIsLink DEF CatalogOK
  <2>2. LinksOK'
    BY <1>1, <2>1 DEF CatalogOK, LinksOK
  <2> QED
    BY <2>1, <2>2, <1>1, LinkAfterIsLink
<1>6. NothingUnlinked'
  <2>1. ASSUME NEW p \in Products, product'[p].default # None
        PROVE  link'[p][product'[p].default] # None
    <3>1. CASE p = d.product /\ d.action = "restore_legacy"
      BY <1>4, <1>5, <3>1, RestoresLinked DEF WellFormed
    <3>2. CASE ~(p = d.product /\ d.action = "restore_legacy")
      <4>1. product[p].default \in Providers /\ link[p][product[p].default] # None
        BY <1>1, <1>4, <2>1, <3>2 DEF CatalogOK, Registered, NothingUnlinked
      <4>2. d.action = "detach" => product[d.product].default # d.target
        BY <1>1, DetachesEmpty, EmptyLinkOnly DEF WellFormed
      <4> QED
        BY <1>4, <1>5, <3>2, <4>1, <4>2
    <3> QED
      BY <3>1, <3>2
  <2>2. ASSUME NEW t \in Tickets, Needs(t)
        PROVE  Linked(t)'
    <3>1. /\ ProductOf(t) \in Products /\ ask[t].provider \in Providers
          /\ link[ProductOf(t)][ask[t].provider] # None
      BY <1>1, <2>2 DEF CatalogOK, Registered, NothingUnlinked, Needs, ProductOf
    <3>2. d.action = "detach" => ProductOf(t) # d.product \/ ask[t].provider # d.target
      BY <1>1, <2>2, DetachesEmpty, EmptyLinkOnly DEF WellFormed
    <3> QED
      BY <1>5, <3>1, <3>2 DEF Linked, ProductOf
  <2>3. \A t \in Tickets : Needs(t)' => Needs(t)
    BY DEF Needs, Creation!Held
  <2> QED
    BY <2>1, <2>2, <2>3 DEF NothingUnlinked, Needs, Linked
<1>7. LimitedIsAlone'
  <2>1. ASSUME NEW v \in Providers, provider'[v].known,
               provider'[v].max # None \/ ~provider'[v].accepting
        PROVE  Aliases(provider[v].url, v) = {}
    <3>1. CASE v \in DOMAIN d.limits /\ d.limits[v] # None
      <4>1. Identified(v, d).url = provider[v].url
        BY <1>1 DEF Identified, Confirmed, CatalogOK, ProviderFields
      <4> QED
        BY <3>1, <4>1, LimitsReady
    <3>2. CASE ~(v \in DOMAIN d.limits /\ d.limits[v] # None)
      <4>1. provider[v].known /\ (provider[v].max # None \/ ~provider[v].accepting)
        BY <1>2, <2>1, <3>2
      <4> QED
        BY <4>1 DEF Registered, LimitedIsAlone
    <3> QED
      BY <3>1, <3>2
  <2>2. \A v \in Providers : Aliases(provider[v].url, v)' = Aliases(provider[v].url, v)
    BY <1>2 DEF Aliases
  <2> QED
    BY <2>1, <2>2 DEF LimitedIsAlone
<1>8. Revised
  <2>1. ASSUME NEW v \in Providers, provider[v].known
        PROVE  provider'[v].known /\ (provider'[v].rev > provider[v].rev \/ SameRevision(v))
    <3>1. provider[v].rev \in Nat
      BY <1>1 DEF CatalogOK
    <3> QED
      BY <1>2, <2>1, <3>1 DEF SameRevision
  <2> QED
    BY <2>1 DEF Revised
<1> QED
  BY <1>1, <1>3, <1>4, <1>5, <1>6, <1>7, <1>8
     DEF Registered, CatalogOK, ProvidersOK, ProductsOK, LinksOK
-----------------------------------------------------------------------------
(* The changes themselves. *)

ChangeFields ==
  {"status", "draft", "snapshot", "seen", "owner", "leased", "late", "over", "callback",
   "errors", "offered", "shown"}
CallbackFields == {"state", "ticket"}
Reviewed == {"ready", "action_required"}
HalfWay == {"queued", "syncing"}

RowOK(x) ==
  /\ DOMAIN x = ChangeFields /\ DOMAIN x.callback = CallbackFields
  /\ x.status \in Statuses
  /\ x.status # "none" => WellFormed(x.draft)
  /\ x.status = "running" <=> x.owner # None
  /\ x.leased => x.owner # None
  /\ x.over => x.late
  /\ x.shown # None => x.status \in Reviewed /\ x.shown.status \in Reviewed
  /\ x.status \in Reviewed \cup {"applied"} => x.callback.state \notin HalfWay

ProcFields == {"pc", "change", "callback", "left", "errors", "blocking", "offered"}

ProcOK(q) ==
  /\ DOMAIN q = ProcFields /\ DOMAIN q.callback = CallbackFields
  /\ q.pc # "idle" => q.change \in ChangeIds
  /\ q.pc \in {"refresh", "settle"} => q.callback.state \notin HalfWay

ChangesOK ==
  /\ "drafts" \in DOMAIN bounds /\ \A d \in bounds.drafts : WellFormed(d)
  /\ DOMAIN change = ChangeIds /\ \A h \in ChangeIds : RowOK(change[h])
  /\ DOMAIN proc = Replicas /\ \A r \in Replicas : ProcOK(proc[r])

(* What a change was prepared with stays with it, and only applying it makes it applied. *)
Carries(x, y) ==
  /\ y.draft = x.draft /\ y.snapshot = x.snapshot /\ y.seen = x.seen
  /\ y.status = "none" <=> x.status = "none"
  /\ y.status = "applied" => x.status = "applied"

Carried == \A h \in ChangeIds : Carries(change[h], change'[h])

LEMMA OneRow ==
  ASSUME ChangesOK, NEW h \in ChangeIds, NEW y, change' = [change EXCEPT ![h] = y],
         RowOK(y), Carries(change[h], y)
  PROVE  /\ DOMAIN change' = ChangeIds /\ \A g \in ChangeIds : RowOK(change'[g])
         /\ Carried
<1>1. DOMAIN change' = ChangeIds /\ change'[h] = y
  BY DEF ChangesOK
<1>2. ASSUME NEW g \in ChangeIds, g # h
      PROVE  RowOK(change'[g]) /\ Carries(change[g], change'[g])
  <2>1. change'[g] = change[g]
    BY <1>2 DEF ChangesOK
  <2> QED
    BY <2>1 DEF ChangesOK, Carries
<1> QED
  BY <1>1, <1>2 DEF Carried

LEMMA SameRows ==
  ASSUME ChangesOK, change' = change
  PROVE  /\ DOMAIN change' = ChangeIds /\ \A g \in ChangeIds : RowOK(change'[g])
         /\ Carried
BY DEF ChangesOK, Carried, Carries

LEMMA OneProc ==
  ASSUME ChangesOK, NEW r \in Replicas, NEW q, proc' = [proc EXCEPT ![r] = q], ProcOK(q)
  PROVE  DOMAIN proc' = Replicas /\ \A o \in Replicas : ProcOK(proc'[o])
<1>1. DOMAIN proc' = Replicas /\ proc'[r] = q
  BY DEF ChangesOK
<1>2. ASSUME NEW o \in Replicas, o # r
      PROVE  ProcOK(proc'[o])
  <2>1. proc'[o] = proc[o]
    BY <1>2 DEF ChangesOK
  <2> QED
    BY <2>1 DEF ChangesOK
<1> QED
  BY <1>1, <1>2

(* A row that is given up by whoever has it. *)
LEMMA UnownedRow ==
  ASSUME NEW x, RowOK(x), NEW status \in Ended \ {"applied"}, x.status # "none",
         NEW y, y = [Unowned(x, status) EXCEPT !.shown = None]
  PROVE  RowOK(y) /\ Carries(x, y)
<1>1. DOMAIN x = ChangeFields
  BY DEF RowOK
<1>2. y = [x EXCEPT !.status = status, !.owner = None, !.leased = FALSE, !.shown = None]
  BY DEF Unowned
<1>3. /\ DOMAIN y = ChangeFields /\ y.status = status /\ y.owner = None /\ y.leased = FALSE
      /\ y.shown = None /\ y.draft = x.draft /\ y.snapshot = x.snapshot /\ y.seen = x.seen
      /\ y.late = x.late /\ y.over = x.over /\ y.callback = x.callback
  BY <1>1, <1>2 DEF ChangeFields
<1>4. status \in Statuses /\ status \notin {"none", "running", "applied"} \cup Reviewed
  BY DEF Ended, Statuses, Reviewed
<1> QED
  BY <1>3, <1>4 DEF RowOK, Carries

LEMMA ExpireKeeps ==
  ASSUME ChangesOK, NEW h \in ChangeIds, Expire(h) \/ Cancel(h)
  PROVE  ChangesOK' /\ Carried
<1>1. /\ UNCHANGED <<proc, bounds>> /\ change[h].status # "none"
      /\ Revise(h, Unowned(change[h], "expired")) \/ Revise(h, Unowned(change[h], "cancelled"))
  BY DEF Expire, Cancel
<1>2. PICK y : /\ change' = [change EXCEPT ![h] = y] /\ RowOK(y) /\ Carries(change[h], y)
  <2>1. PICK status \in Ended \ {"applied"} : Revise(h, Unowned(change[h], status))
    BY <1>1 DEF Ended
  <2> DEFINE y == [Unowned(change[h], status) EXCEPT !.shown = None]
  <2>2. RowOK(change[h])
    BY DEF ChangesOK
  <2>3. RowOK(y) /\ Carries(change[h], y)
    <3> HIDE DEF y
    <3>1. y = [Unowned(change[h], status) EXCEPT !.shown = None]
      BY DEF y
    <3> QED
      BY <1>1, <2>2, <3>1, UnownedRow
  <2>4. change' = [change EXCEPT ![h] = y]
    BY <2>1 DEF Revise
  <2> QED
    BY <2>3, <2>4
<1> QED
  BY <1>1, <1>2, OneRow DEF ChangesOK

LEMMA GetKeeps ==
  ASSUME ChangesOK, NEW h \in ChangeIds, Get(h)
  PROVE  ChangesOK' /\ Carried
<1> DEFINE x == change[h]
<1>1. UNCHANGED <<proc, bounds>> /\ x.status \in Reviewed
  BY DEF Get, Reviewed
<1>2. PICK seen : seen.status \in Reviewed /\ change' = [change EXCEPT ![h].shown = seen]
  <2>1. ASSUME NEW b \in BOOLEAN, NEW f, NEW o
        PROVE  [status |-> IF b THEN "ready" ELSE "action_required", errors |-> f,
                offered |-> o].status \in Reviewed
    BY DEF Reviewed
  <2> QED
    BY <2>1 DEF Get
<1>3. RowOK(x) /\ DOMAIN x = ChangeFields
  BY DEF ChangesOK, RowOK
<1> DEFINE y == [x EXCEPT !.shown = seen]
<1>4. change' = [change EXCEPT ![h] = y]
  BY <1>2
<1>5. RowOK(y) /\ Carries(x, y)
  <2> HIDE DEF x
  <2>1. /\ DOMAIN y = ChangeFields /\ y.status = x.status /\ y.owner = x.owner
        /\ y.leased = x.leased
        /\ y.shown = seen /\ y.draft = x.draft /\ y.snapshot = x.snapshot /\ y.seen = x.seen
        /\ y.late = x.late /\ y.over = x.over /\ y.callback = x.callback
    BY <1>3 DEF ChangeFields
  <2> HIDE DEF y
  <2> QED
    BY <1>1, <1>2, <1>3, <2>1 DEF RowOK, Carries
<1> HIDE DEF y
<1> QED
  BY <1>1, <1>4, <1>5, OneRow DEF ChangesOK

LEMMA SaveViewKeeps ==
  ASSUME ChangesOK, NEW h \in ChangeIds, SaveView(h)
  PROVE  ChangesOK' /\ Carried
<1> DEFINE x == change[h]
           y == [[x EXCEPT !.status = x.shown.status, !.errors = x.shown.errors,
                           !.offered = x.shown.offered] EXCEPT !.shown = None]
<1>1. /\ UNCHANGED <<proc, bounds>> /\ x.shown # None
      /\ change' = [change EXCEPT ![h] = y]
  BY DEF SaveView, Revise
<1>2. RowOK(x) /\ DOMAIN x = ChangeFields /\ x.status \in Reviewed /\ x.shown.status \in Reviewed
  BY <1>1 DEF ChangesOK, RowOK
<1>3. RowOK(y) /\ Carries(x, y)
  <2> HIDE DEF x
  <2>1. /\ DOMAIN y = ChangeFields /\ y.status = x.shown.status /\ y.owner = x.owner
        /\ y.leased = x.leased /\ y.shown = None /\ y.draft = x.draft
        /\ y.snapshot = x.snapshot /\ y.seen = x.seen
        /\ y.late = x.late /\ y.over = x.over /\ y.callback = x.callback
    BY <1>2 DEF ChangeFields
  <2> HIDE DEF y
  <2> QED
    BY <1>2, <2>1 DEF RowOK, Carries, Reviewed, Statuses
<1> HIDE DEF y
<1> QED
  BY <1>1, <1>3, OneRow DEF ChangesOK

LEMMA CallbackCheckKeeps ==
  ASSUME ChangesOK, NEW h \in ChangeIds, NEW t \in Tickets, CallbackCheck(h, t)
  PROVE  ChangesOK' /\ Carried
<1> DEFINE x == change[h]
           y == [[x EXCEPT !.status = "queued", !.callback = [state |-> "queued", ticket |-> t]]
                   EXCEPT !.shown = None]
<1>1. /\ UNCHANGED <<proc, bounds>> /\ x.status = "action_required"
      /\ change' = [change EXCEPT ![h] = y]
  BY DEF CallbackCheck, Revise
<1>2. RowOK(x) /\ DOMAIN x = ChangeFields
  BY DEF ChangesOK, RowOK
<1>3. RowOK(y) /\ Carries(x, y)
  <2> HIDE DEF x
  <2>1. /\ DOMAIN y = ChangeFields /\ y.status = "queued" /\ y.owner = x.owner
        /\ y.leased = x.leased /\ y.shown = None /\ y.draft = x.draft
        /\ y.snapshot = x.snapshot /\ y.seen = x.seen
        /\ y.late = x.late /\ y.over = x.over /\ DOMAIN y.callback = CallbackFields
    BY <1>2 DEF ChangeFields, CallbackFields
  <2> HIDE DEF y
  <2> QED
    BY <1>1, <1>2, <2>1 DEF RowOK, Carries, Reviewed, Statuses
<1> HIDE DEF y
<1> QED
  BY <1>1, <1>3, OneRow DEF ChangesOK

LEMMA TimeKeeps ==
  ASSUME ChangesOK, Time
  PROVE  ChangesOK' /\ Carried
<1>1. PICK h \in ChangeIds : LeaseLost(h) \/ Deadline(h) \/ RunsOut(h)
  BY DEF Time
<1> DEFINE x == change[h]
<1>2. /\ proc' = proc /\ "drafts" \in DOMAIN bounds' /\ bounds'.drafts = bounds.drafts
      /\ \/ change' = [change EXCEPT ![h] = [x EXCEPT !.leased = FALSE]]
         \/ change' = [change EXCEPT ![h] = [x EXCEPT !.late = TRUE]]
         \/ x.late /\ change' = [change EXCEPT ![h] = [x EXCEPT !.over = TRUE]]
  BY <1>1 DEF LeaseLost, Deadline, RunsOut, ChangesOK
<1>3. RowOK(x) /\ DOMAIN x = ChangeFields
  BY DEF ChangesOK, RowOK
<1> HIDE DEF x
<1>4. PICK y : /\ change' = [change EXCEPT ![h] = y]
               /\ RowOK(y) /\ Carries(x, y)
  <2>1. CASE change' = [change EXCEPT ![h] = [x EXCEPT !.leased = FALSE]]
    <3>1. RowOK([x EXCEPT !.leased = FALSE]) /\ Carries(x, [x EXCEPT !.leased = FALSE])
      BY <1>3 DEF RowOK, Carries, ChangeFields
    <3> QED
      BY <2>1, <3>1
  <2>2. CASE change' = [change EXCEPT ![h] = [x EXCEPT !.late = TRUE]]
    <3>1. RowOK([x EXCEPT !.late = TRUE]) /\ Carries(x, [x EXCEPT !.late = TRUE])
      BY <1>3 DEF RowOK, Carries, ChangeFields
    <3> QED
      BY <2>2, <3>1
  <2>3. CASE x.late /\ change' = [change EXCEPT ![h] = [x EXCEPT !.over = TRUE]]
    <3>1. RowOK([x EXCEPT !.over = TRUE]) /\ Carries(x, [x EXCEPT !.over = TRUE])
      BY <1>3, <2>3 DEF RowOK, Carries, ChangeFields
    <3> QED
      BY <2>3, <3>1
  <2> QED
    BY <1>2, <2>1, <2>2, <2>3
<1> QED
  BY <1>2, <1>4, OneRow DEF ChangesOK, x
-----------------------------------------------------------------------------
(* Preparing and applying. *)

LEMMA PrepareKeeps ==
  ASSUME ChangesOK, NEW h \in ChangeIds, NEW d \in bounds.drafts, Prepare(h, d)
  PROVE  /\ ChangesOK'
         /\ \A g \in ChangeIds \ {h} : change'[g] = change[g]
         /\ change'[h].draft = d /\ change'[h].snapshot = Snapshot(d)
         /\ change'[h].seen = Configuration(d) /\ change'[h].status = "queued"
<1> DEFINE s == Snapshot(d)
           c == Configuration(d)
           y == [[Unprepared EXCEPT !.status = "queued", !.draft = d, !.snapshot = s, !.seen = c]
                   EXCEPT !.shown = None]
<1>1. UNCHANGED <<proc, bounds>> /\ change' = [change EXCEPT ![h] = y]
  BY DEF Prepare, Revise
<1>2. WellFormed(d) /\ DOMAIN change = ChangeIds
  BY DEF ChangesOK
<1> HIDE DEF s, c
<1>3. /\ DOMAIN y = ChangeFields /\ y.status = "queued" /\ y.draft = d /\ y.snapshot = s
      /\ y.seen = c /\ y.owner = None /\ y.leased = FALSE /\ y.late = FALSE /\ y.over = FALSE
      /\ y.callback = NoCallback /\ y.shown = None
  BY DEF Unprepared, ChangeFields
<1> HIDE DEF y
<1>4. RowOK(y)
  BY <1>2, <1>3 DEF RowOK, Statuses, Reviewed, NoCallback, CallbackFields
<1> QED
  BY <1>1, <1>2, <1>3, <1>4 DEF ChangesOK, s, c

LEMMA ApplyKeeps ==
  ASSUME ChangesOK, NEW h \in ChangeIds, Apply(h)
  PROVE  /\ ChangesOK'
         /\ \A g \in ChangeIds \ {h} : change'[g] = change[g]
         /\ change'[h].draft = change[h].draft /\ change'[h].snapshot = change[h].snapshot
         /\ change'[h].seen = change[h].seen /\ change'[h].status # "none"
<1> DEFINE x == change[h]
           y == [Unowned(x, "applied") EXCEPT !.shown = None]
<1>1. UNCHANGED <<proc, bounds>> /\ x.status = "ready" /\ change' = [change EXCEPT ![h] = y]
  BY DEF Apply, Revise
<1>2. RowOK(x) /\ DOMAIN x = ChangeFields /\ DOMAIN change = ChangeIds
  BY DEF ChangesOK, RowOK
<1> HIDE DEF x
<1>3. /\ DOMAIN y = ChangeFields /\ y.status = "applied" /\ y.owner = None /\ y.leased = FALSE
      /\ y.shown = None /\ y.draft = x.draft /\ y.snapshot = x.snapshot /\ y.seen = x.seen
      /\ y.late = x.late /\ y.over = x.over /\ y.callback = x.callback
  BY <1>2 DEF Unowned, ChangeFields
<1> HIDE DEF y
<1>4. RowOK(y)
  BY <1>1, <1>2, <1>3 DEF RowOK, Statuses, Ended, Reviewed
<1> QED
  BY <1>1, <1>2, <1>3, <1>4 DEF ChangesOK, x
-----------------------------------------------------------------------------
(* What a replica does. *)

(* A row it gives back with an outcome. *)
LEMMA ReturnedRow ==
  ASSUME NEW x, RowOK(x), x.status # "none",
         NEW status \in Statuses \ {"none", "running", "applied"},
         NEW cb, DOMAIN cb = CallbackFields, status \in Reviewed => cb.state \notin HalfWay,
         NEW e, NEW o,
         NEW y, y = [[Unowned(x, status) EXCEPT !.callback = cb, !.errors = e, !.offered = o]
                       EXCEPT !.shown = None]
  PROVE  RowOK(y) /\ Carries(x, y)
<1>1. DOMAIN x = ChangeFields
  BY DEF RowOK
<1>2. /\ DOMAIN y = ChangeFields /\ y.status = status /\ y.owner = None /\ y.leased = FALSE
      /\ y.shown = None /\ y.draft = x.draft /\ y.snapshot = x.snapshot /\ y.seen = x.seen
      /\ y.late = x.late /\ y.over = x.over /\ y.callback = cb
  BY <1>1 DEF Unowned, ChangeFields
<1> QED
  BY <1>2 DEF RowOK, Carries

(* What it works on is a change. *)
LEMMA AtWork ==
  ASSUME ChangesOK, NEW r \in Replicas, proc[r].pc # "idle"
  PROVE  /\ proc[r].change \in ChangeIds /\ ProcOK(proc[r]) /\ DOMAIN proc[r] = ProcFields
         /\ RowOK(change[proc[r].change])
BY DEF ChangesOK, ProcOK

LEMMA Resting ==
  ASSUME ChangesOK, NEW r \in Replicas, proc' = [proc EXCEPT ![r] = Idling]
  PROVE  DOMAIN proc' = Replicas /\ \A o \in Replicas : ProcOK(proc'[o])
<1>1. ProcOK(Idling)
  BY DEF ProcOK, Idling, ProcFields, NoCallback, CallbackFields
<1> QED
  BY <1>1, OneProc

LEMMA ClaimKeeps ==
  ASSUME Assumptions, ChangesOK, NEW r \in Replicas, NEW h \in ChangeIds, Claim(r, h)
  PROVE  ChangesOK' /\ Carried
<1> DEFINE x == change[h]
<1>1. RowOK(x) /\ DOMAIN x = ChangeFields /\ x.status \in {"queued", "running"} /\ bounds' = bounds
  BY DEF ChangesOK, RowOK, Claim
<1>2. CASE x.late
  <2> DEFINE y == [Unowned(x, "expired") EXCEPT !.shown = None]
  <2>1. proc' = proc /\ change' = [change EXCEPT ![h] = y]
    BY <1>2 DEF Claim, Revise
  <2>2. RowOK(y) /\ Carries(x, y)
    BY <1>1, UnownedRow DEF Ended
  <2> HIDE DEF y
  <2> QED
    BY <1>1, <2>1, <2>2, OneRow DEF ChangesOK
<1>3. CASE ~x.late
  <2> DEFINE y == [[x EXCEPT !.status = "running", !.owner = r, !.leased = TRUE]
                     EXCEPT !.shown = None]
             q == [Idling EXCEPT !.pc = "compare", !.change = h, !.callback = x.callback]
  <2>1. change' = [change EXCEPT ![h] = y] /\ proc' = [proc EXCEPT ![r] = q]
    BY <1>3 DEF Claim, Revise
  <2>2. RowOK(y) /\ Carries(x, y)
    <3>1. r # None
      BY DEF Assumptions, ChangesAssumption
    <3> HIDE DEF x
    <3>2. /\ DOMAIN y = ChangeFields /\ y.status = "running" /\ y.owner = r /\ y.leased = TRUE
          /\ y.shown = None /\ y.draft = x.draft /\ y.snapshot = x.snapshot /\ y.seen = x.seen
          /\ y.late = x.late /\ y.over = x.over /\ y.callback = x.callback
      BY <1>1 DEF ChangeFields
    <3> HIDE DEF y
    <3> QED
      BY <1>1, <3>1, <3>2 DEF RowOK, Carries, Reviewed, Statuses
  <2>3. ProcOK(q)
    <3>1. DOMAIN x.callback = CallbackFields
      BY <1>1 DEF RowOK
    <3> HIDE DEF x
    <3>2. /\ DOMAIN q = ProcFields /\ q.pc = "compare" /\ q.change = h
          /\ q.callback = x.callback
      BY DEF Idling, ProcFields
    <3> HIDE DEF q
    <3> QED
      BY <3>1, <3>2 DEF ProcOK
  <2> HIDE DEF y, q
  <2> QED
    BY <1>1, <2>1, <2>2, <2>3, OneRow, OneProc DEF ChangesOK
<1> QED
  BY <1>2, <1>3

LEMMA CompareKeeps ==
  ASSUME ChangesOK, NEW r \in Replicas, Compare(r)
  PROVE  ChangesOK' /\ Carried
<1> DEFINE left == Examined(change[proc[r].change].draft)
           pc == IF proc[r].callback.state \in HalfWay THEN "callback" ELSE "refresh"
           q == [proc[r] EXCEPT !.pc = pc, !.left = left]
<1>1. UNCHANGED <<change, bounds>> /\ proc' = [proc EXCEPT ![r] = q] /\ proc[r].pc = "compare"
  BY DEF Compare, HalfWay
<1>2. ProcOK(q)
  <2>1. ProcOK(proc[r]) /\ DOMAIN proc[r] = ProcFields /\ proc[r].change \in ChangeIds
    BY <1>1, AtWork
  <2>2. pc \in {"callback", "refresh"} /\ (pc = "refresh" => proc[r].callback.state \notin HalfWay)
    OBVIOUS
  <2> HIDE DEF left, pc
  <2>3. /\ DOMAIN q = ProcFields /\ q.pc = pc /\ q.change = proc[r].change
        /\ q.callback = proc[r].callback
    BY <2>1 DEF ProcFields
  <2> HIDE DEF q
  <2> QED
    BY <2>1, <2>2, <2>3 DEF ProcOK
<1> HIDE DEF q
<1> QED
  BY <1>1, <1>2, SameRows, OneProc DEF ChangesOK

LEMMA RecordCallbackKeeps ==
  ASSUME ChangesOK, NEW r \in Replicas, RecordCallback(r)
  PROVE  ChangesOK' /\ Carried
<1> DEFINE h == proc[r].change
           x == change[h]
           syncing == [proc[r].callback EXCEPT !.state = "syncing"]
           q == [proc[r] EXCEPT !.pc = "sync", !.callback = syncing]
           y == [x EXCEPT !.callback = syncing]
<1>1. /\ bounds' = bounds /\ proc[r].pc = "callback" /\ proc' = [proc EXCEPT ![r] = q]
      /\ change' = IF Mine(r) THEN [change EXCEPT ![h] = y] ELSE change
  BY DEF RecordCallback
<1>2. ProcOK(proc[r]) /\ DOMAIN proc[r] = ProcFields /\ h \in ChangeIds /\ RowOK(x)
  BY <1>1, AtWork
<1>3. DOMAIN syncing = CallbackFields
  BY <1>2 DEF ProcOK
<1> HIDE DEF syncing
<1>4. ProcOK(q)
  <2>1. /\ DOMAIN q = ProcFields /\ q.pc = "sync" /\ q.change = h /\ q.callback = syncing
    BY <1>2 DEF ProcFields
  <2> HIDE DEF q
  <2> QED
    BY <1>2, <1>3, <2>1 DEF ProcOK
<1>5. DOMAIN proc' = Replicas /\ \A o \in Replicas : ProcOK(proc'[o])
  <2> HIDE DEF q
  <2> QED
    BY <1>1, <1>4, OneProc
<1>6. CASE Mine(r)
  <2>1. x.status = "running"
    BY <1>6 DEF Mine
  <2>2. RowOK(y) /\ Carries(x, y)
    <3> HIDE DEF x
    <3>1. DOMAIN x = ChangeFields
      BY <1>2 DEF RowOK
    <3>2. /\ DOMAIN y = ChangeFields /\ y.status = x.status /\ y.owner = x.owner
          /\ y.leased = x.leased /\ y.shown = x.shown /\ y.draft = x.draft
          /\ y.snapshot = x.snapshot /\ y.seen = x.seen /\ y.late = x.late /\ y.over = x.over
          /\ y.callback = syncing
      BY <3>1 DEF ChangeFields
    <3> HIDE DEF y
    <3> QED
      BY <1>2, <1>3, <2>1, <3>2 DEF RowOK, Carries, Reviewed
  <2>3. change' = [change EXCEPT ![h] = y]
    BY <1>1, <1>6
  <2> HIDE DEF y
  <2> QED
    BY <1>1, <1>2, <1>5, <2>2, <2>3, OneRow DEF ChangesOK
<1>7. CASE ~Mine(r)
  BY <1>1, <1>5, <1>7, SameRows DEF ChangesOK
<1> QED
  BY <1>6, <1>7

LEMMA SyncKeeps ==
  ASSUME ChangesOK, NEW r \in Replicas, Sync(r)
  PROVE  ChangesOK' /\ Carried
<1>1. PICK outcome : /\ outcome \in {"uncertain", "configured"}
                     /\ proc' = [proc EXCEPT ![r].pc = "refresh", ![r].callback.state = outcome]
  BY DEF Sync
<1> DEFINE q == [proc[r] EXCEPT !.pc = "refresh", !.callback.state = outcome]
<1>2. UNCHANGED <<change, bounds>> /\ proc[r].pc = "sync" /\ proc' = [proc EXCEPT ![r] = q]
  <2>1. UNCHANGED <<change, bounds>> /\ proc[r].pc = "sync"
    BY DEF Sync
  <2>2. DOMAIN proc = Replicas /\ DOMAIN proc[r] = ProcFields
    BY DEF ChangesOK, ProcOK
  <2>3. proc' = [proc EXCEPT ![r] = q]
    BY <1>1, <2>2 DEF ProcFields
  <2> QED
    BY <2>1, <2>3
<1>3. ProcOK(q)
  <2>1. ProcOK(proc[r]) /\ DOMAIN proc[r] = ProcFields /\ proc[r].change \in ChangeIds
    BY <1>2, AtWork
  <2>2. /\ DOMAIN q = ProcFields /\ q.pc = "refresh" /\ q.change = proc[r].change
        /\ q.callback = [proc[r].callback EXCEPT !.state = outcome]
    BY <2>1 DEF ProcFields
  <2>3. DOMAIN q.callback = CallbackFields /\ q.callback.state = outcome
    BY <2>1, <2>2 DEF ProcOK, CallbackFields
  <2> HIDE DEF q
  <2> QED
    BY <1>1, <2>1, <2>2, <2>3 DEF ProcOK, HalfWay
<1> HIDE DEF q
<1> QED
  BY <1>2, <1>3, SameRows, OneProc DEF ChangesOK

LEMMA RefreshKeeps ==
  ASSUME ChangesOK, NEW r \in Replicas, NEW v \in Providers, Refresh(r, v)
  PROVE  ChangesOK' /\ Carried
<1>1. PICK e : proc' = [proc EXCEPT ![r].left = @ \ {v}, ![r].errors = @ \cup e]
  BY DEF Refresh
<1> DEFINE q == [proc[r] EXCEPT !.left = @ \ {v}, !.errors = @ \cup e]
<1>2. UNCHANGED <<change, bounds>> /\ proc[r].pc = "refresh" /\ proc' = [proc EXCEPT ![r] = q]
  BY <1>1 DEF Refresh, catalog, unchanged
<1>3. ProcOK(q)
  <2>1. ProcOK(proc[r]) /\ DOMAIN proc[r] = ProcFields /\ proc[r].change \in ChangeIds
    BY <1>2, AtWork
  <2>2. /\ DOMAIN q = ProcFields /\ q.pc = proc[r].pc /\ q.change = proc[r].change
        /\ q.callback = proc[r].callback
    BY <2>1 DEF ProcFields
  <2> HIDE DEF q
  <2> QED
    BY <1>2, <2>1, <2>2 DEF ProcOK
<1> HIDE DEF q
<1> QED
  BY <1>2, <1>3, SameRows, OneProc DEF ChangesOK

LEMMA DiagnoseKeeps ==
  ASSUME ChangesOK, NEW r \in Replicas, Diagnose(r)
  PROVE  ChangesOK' /\ Carried
<1>1. PICK b, o : proc' = [proc EXCEPT ![r].pc = "settle", ![r].blocking = b, ![r].offered = o]
  BY DEF Diagnose
<1> DEFINE q == [proc[r] EXCEPT !.pc = "settle", !.blocking = b, !.offered = o]
<1>2. UNCHANGED <<change, bounds>> /\ proc[r].pc = "refresh" /\ proc' = [proc EXCEPT ![r] = q]
  BY <1>1 DEF Diagnose
<1>3. ProcOK(q)
  <2>1. ProcOK(proc[r]) /\ DOMAIN proc[r] = ProcFields /\ proc[r].change \in ChangeIds
    BY <1>2, AtWork
  <2>2. /\ DOMAIN q = ProcFields /\ q.pc = "settle" /\ q.change = proc[r].change
        /\ q.callback = proc[r].callback
    BY <2>1 DEF ProcFields
  <2> HIDE DEF q
  <2> QED
    BY <1>2, <2>1, <2>2 DEF ProcOK
<1> HIDE DEF q
<1> QED
  BY <1>2, <1>3, SameRows, OneProc DEF ChangesOK

LEMMA SettleKeeps ==
  ASSUME ChangesOK, NEW r \in Replicas, Settle(r)
  PROVE  ChangesOK' /\ Carried
<1> DEFINE h == proc[r].change
           x == change[h]
           status == IF proc[r].blocking = {} /\ proc[r].errors = {}
                     THEN "ready" ELSE "action_required"
           y == [[Unowned(x, status) EXCEPT !.callback = proc[r].callback,
                                            !.errors = proc[r].errors,
                                            !.offered = proc[r].offered] EXCEPT !.shown = None]
<1>1. /\ bounds' = bounds /\ proc[r].pc = "settle" /\ proc' = [proc EXCEPT ![r] = Idling]
      /\ change' = IF Mine(r) THEN [change EXCEPT ![h] = y] ELSE change
  BY DEF Settle, Revise
<1>2. ProcOK(proc[r]) /\ h \in ChangeIds /\ RowOK(x)
  BY <1>1, AtWork
<1>3. CASE Mine(r)
  <2>1. x.status = "running"
    BY <1>3 DEF Mine
  <2>2. RowOK(y) /\ Carries(x, y)
    <3>1. status \in Reviewed /\ status \in Statuses \ {"none", "running", "applied"}
      BY DEF Reviewed, Statuses, Ended
    <3>2. DOMAIN proc[r].callback = CallbackFields /\ proc[r].callback.state \notin HalfWay
      BY <1>1, <1>2 DEF ProcOK
    <3>3. y = [[Unowned(x, status) EXCEPT !.callback = proc[r].callback,
                                          !.errors = proc[r].errors,
                                          !.offered = proc[r].offered] EXCEPT !.shown = None]
      OBVIOUS
    <3> HIDE DEF x, status, y
    <3> QED
      BY <1>2, <2>1, <3>1, <3>2, <3>3, ReturnedRow
  <2>3. change' = [change EXCEPT ![h] = y]
    BY <1>1, <1>3
  <2> HIDE DEF y
  <2> QED
    BY <1>1, <1>2, <2>2, <2>3, Resting, OneRow DEF ChangesOK
<1>4. CASE ~Mine(r)
  BY <1>1, <1>4, Resting, SameRows DEF ChangesOK
<1> QED
  BY <1>3, <1>4

LEMMA ThrowKeeps ==
  ASSUME ChangesOK, NEW r \in Replicas, Throw(r)
  PROVE  ChangesOK' /\ Carried
<1> DEFINE h == proc[r].change
           x == change[h]
<1>1. PICK status \in {"failed", "expired"} :
        IF Mine(r) THEN Revise(h, [Unowned(x, status) EXCEPT !.callback = proc[r].callback,
                                                             !.errors = {}, !.offered = {}])
        ELSE UNCHANGED change
  BY DEF Throw
<1> DEFINE y == [[Unowned(x, status) EXCEPT !.callback = proc[r].callback,
                                            !.errors = {}, !.offered = {}] EXCEPT !.shown = None]
<1>2. /\ bounds' = bounds /\ proc[r].pc # "idle" /\ proc' = [proc EXCEPT ![r] = Idling]
      /\ change' = IF Mine(r) THEN [change EXCEPT ![h] = y] ELSE change
  BY <1>1 DEF Throw, Revise
<1>3. ProcOK(proc[r]) /\ h \in ChangeIds /\ RowOK(x)
  BY <1>2, AtWork
<1>4. CASE Mine(r)
  <2>1. x.status = "running"
    BY <1>4 DEF Mine
  <2>2. RowOK(y) /\ Carries(x, y)
    <3>1. status \notin Reviewed /\ status \in Statuses \ {"none", "running", "applied"}
      BY DEF Reviewed, Statuses, Ended
    <3>2. DOMAIN proc[r].callback = CallbackFields
      BY <1>3 DEF ProcOK
    <3> HIDE DEF x
    <3> QED
      BY <1>3, <2>1, <3>1, <3>2, ReturnedRow
  <2>3. change' = [change EXCEPT ![h] = y]
    BY <1>2, <1>4
  <2> HIDE DEF y
  <2> QED
    BY <1>2, <1>3, <2>2, <2>3, Resting, OneRow DEF ChangesOK
<1>5. CASE ~Mine(r)
  BY <1>2, <1>5, Resting, SameRows DEF ChangesOK
<1> QED
  BY <1>4, <1>5

LEMMA CrashKeeps ==
  ASSUME ChangesOK, NEW r \in Replicas, Crash(r)
  PROVE  ChangesOK' /\ Carried
<1>1. /\ change' = change /\ proc' = [proc EXCEPT ![r] = Idling]
      /\ "drafts" \in DOMAIN bounds' /\ bounds'.drafts = bounds.drafts
  BY DEF Crash, ChangesOK
<1> QED
  BY <1>1, Resting, SameRows DEF ChangesOK

LEMMA ProcessKeeps ==
  ASSUME Assumptions, ChangesOK, NEW r \in Replicas, Process(r)
  PROVE  ChangesOK' /\ Carried
BY ClaimKeeps, CompareKeeps, RecordCallbackKeeps, SyncKeeps, RefreshKeeps, DiagnoseKeeps,
   SettleKeeps, ThrowKeeps, CrashKeeps DEF Process
-----------------------------------------------------------------------------
(* The catalogue, at every step. *)

Steady == UNCHANGED <<ask, phase, kept, product, link>> /\ Unlimited

LEMMA StillSteady ==
  ASSUME Registered, UNCHANGED catalog
  PROVE  Steady
BY SameUnedited DEF Steady, Registered, catalog, unchanged, creationVars

LEMMA OperateCatalog ==
  ASSUME Assumptions, Registered, ChangesOK, NEW h \in ChangeIds, Operate(h)
  PROVE  Registered' /\ Revised
<1>1. CASE Apply(h)
  <2> DEFINE d == change[h].draft
  <2>1. /\ Evaluate(d, change[h].snapshot) = {} /\ UNCHANGED <<ask, phase, kept>>
        /\ provider' = [v \in Providers |-> Written(v, d)]
        /\ link' = [link EXCEPT ![d.product] = [v \in Providers |-> LinkAfter(d, v)]]
        /\ product' = [product EXCEPT ![d.product] = ProductAfter(d)]
    BY <1>1 DEF Apply, unchanged, creationVars
  <2>2. WellFormed(d)
    BY <1>1 DEF Apply, ChangesOK, RowOK
  <2> HIDE DEF d
  <2> QED
    BY <2>1, <2>2, AppliedKeeps
<1>2. CASE UNCHANGED catalog
  BY <1>2, StillSteady, UnlimitedKeeps DEF Steady
<1> QED
  BY <1>1, <1>2 DEF Operate, Prepare, Expire, Get, SaveView, Cancel, CallbackCheck

LEMMA ProcessCatalog ==
  ASSUME Registered, NEW r \in Replicas, Process(r)
  PROVE  Registered' /\ Revised
<1>1. CASE UNCHANGED catalog
  BY <1>1, StillSteady, UnlimitedKeeps DEF Steady
<1>2. ASSUME NEW v \in Providers, Refresh(r, v)
      PROVE  Steady
  <2>1. UNCHANGED <<ask, phase, kept, product, link>>
    BY <1>2 DEF Refresh, unchanged, creationVars
  <2>2. \/ provider' = provider
        \/ provider' = [provider EXCEPT ![v] = Observed(v, RemoteAt(v), {})]
    BY <1>2 DEF Refresh
  <2>3. Unlimited
    BY <2>2, SameUnedited, ObservedUnedited DEF Registered
  <2> QED
    BY <2>1, <2>3 DEF Steady
<1>3. (\E v \in Providers : Refresh(r, v)) \/ UNCHANGED catalog
  BY DEF Process, Claim, Compare, RecordCallback, Sync, Diagnose, Settle, Throw, Crash
<1> QED
  BY <1>1, <1>2, <1>3, UnlimitedKeeps DEF Steady

LEMMA ElsewhereCatalog ==
  ASSUME Assumptions, Registered, Elsewhere
  PROVE  Registered' /\ Revised
<1>1. ASSUME NEW v \in Providers, Observe(v) \/ Fade(v)
      PROVE  Steady
  <2>1. UNCHANGED <<ask, phase, kept, product, link>>
    BY <1>1 DEF Observe, Fade, unchanged, creationVars
  <2>2. CASE Observe(v)
    BY <2>1, <2>2, ObservedUnedited DEF Observe, Steady, Registered
  <2>3. CASE Fade(v)
    <3>1. \/ provider' = [provider EXCEPT ![v].observed = "old", ![v].seen = "old"]
          \/ provider' = [provider EXCEPT ![v].healthy = FALSE]
      BY <2>3 DEF Fade
    <3>2. Unlimited
      BY <3>1 DEF Registered, CatalogOK, Unlimited, Unedited, ProviderFields
    <3> QED
      BY <2>1, <3>2 DEF Steady
  <2> QED
    BY <1>1, <2>2, <2>3
<1>2. CASE ConfirmSetup \/ \E d \in undelivered : Deliver(d)
  <2>1. UNCHANGED <<ask, phase, kept, product, link, provider>>
    BY <1>2 DEF ConfirmSetup, Deliver, unedited, creationVars
  <2> QED
    BY <2>1, SameUnedited, UnlimitedKeeps DEF Registered
<1> QED
  BY <1>1, <1>2, UnlimitedKeeps, CreateKeeps, EditProviderKeeps, EditProductKeeps,
     CallbackReceivedKeeps DEF Elsewhere, Steady

LEMMA CatalogKeeps ==
  ASSUME Assumptions, Registered, ChangesOK, Next
  PROVE  Registered' /\ Revised
<1>1. ASSUME Time
      PROVE  UNCHANGED catalog
  BY <1>1 DEF Time, LeaseLost, Deadline, RunsOut
<1> QED
  BY <1>1, OperateCatalog, ProcessCatalog, ElsewhereCatalog, StillSteady, UnlimitedKeeps
     DEF Next, Steady
-----------------------------------------------------------------------------
(* What the snapshot of a change says of what its operator saw: all of it, as long as the      *)
(* revisions it keeps are the current ones.                                                    *)

AsSeen(v, s) ==
  [url |-> provider[v].url, active |-> provider[v].active, max |-> s.max,
   accepting |-> provider[v].accepting, identity |-> s.identity]

Recalled(s, c) ==
  /\ c = [product |-> [mode |-> s.product.mode, default |-> s.product.default,
                       relay |-> s.product.relay, active |-> s.product.active],
          links |-> [v \in DOMAIN s.links |-> s.links[v].accepting],
          providers |-> [v \in DOMAIN s.providers |-> c.providers[v]]]
  /\ DOMAIN s.providers \subseteq Providers
  /\ \A v \in DOMAIN s.providers :
       /\ provider[v].known /\ s.providers[v].rev \in Nat
       /\ \/ provider[v].rev > s.providers[v].rev
          \/ /\ provider[v].rev = s.providers[v].rev
             /\ c.providers[v] = AsSeen(v, s.providers[v])

Prepared ==
  \A h \in ChangeIds :
    change[h].status # "none" => Recalled(change[h].snapshot, change[h].seen)

(* Each provider only gets newer revisions, and without one nothing the snapshot leaves out    *)
(* is changed.                                                                                 *)
LEMMA RecalledStays ==
  ASSUME CatalogOK, CatalogOK', Revised, NEW s, NEW c, Recalled(s, c)
  PROVE  Recalled(s, c)'
<1>1. ASSUME NEW v \in DOMAIN s.providers
      PROVE  /\ provider'[v].known
             /\ \/ provider'[v].rev > s.providers[v].rev
                \/ /\ provider'[v].rev = s.providers[v].rev
                   /\ c.providers[v] = AsSeen(v, s.providers[v])'
  <2>1. v \in Providers /\ provider[v].known /\ s.providers[v].rev \in Nat
    BY DEF Recalled
  <2>2. provider[v].rev \in Nat /\ provider'[v].rev \in Nat
    BY <2>1 DEF CatalogOK
  <2>3. provider'[v].known /\ (provider'[v].rev > provider[v].rev \/ SameRevision(v))
    BY <2>1 DEF Revised
  <2>4. CASE provider[v].rev > s.providers[v].rev
    BY <2>1, <2>2, <2>3, <2>4 DEF SameRevision
  <2>5. CASE /\ provider[v].rev = s.providers[v].rev
             /\ c.providers[v] = AsSeen(v, s.providers[v])
    <3>1. CASE provider'[v].rev > provider[v].rev
      BY <2>1, <2>2, <2>3, <2>5, <3>1
    <3>2. CASE SameRevision(v)
      BY <2>3, <2>5, <3>2 DEF SameRevision, AsSeen
    <3> QED
      BY <2>3, <3>1, <3>2
  <2> QED
    BY <2>4, <2>5 DEF Recalled
<1> QED
  BY <1>1 DEF Recalled

LEMMA PreparedStays ==
  ASSUME CatalogOK, CatalogOK', Revised, Prepared, NEW h \in ChangeIds,
         change[h].status # "none",
         change'[h].snapshot = change[h].snapshot, change'[h].seen = change[h].seen
  PROVE  Recalled(change[h].snapshot, change[h].seen)'
<1> DEFINE s == change[h].snapshot
           c == change[h].seen
<1>1. Recalled(s, c)
  BY DEF Prepared
<1>2. s' = s /\ c' = c
  OBVIOUS
<1> HIDE DEF s, c
<1>3. \A a, b : Recalled(a, b) => Recalled(a, b)'
  BY RecalledStays
<1> QED
  BY <1>1, <1>2, <1>3 DEF s, c

LEMMA ConcernedAreKnown ==
  ASSUME NEW d, WellFormed(d), Valid(d)
  PROVE  Concerned(d) \subseteq Providers /\ \A v \in Concerned(d) : provider[v].known
<1>1. d.target \in Providers \cup {None}
  BY DEF WellFormed
<1>2. LinkedTo(d.product) \subseteq Providers /\ DOMAIN d.links \subseteq Providers
  BY DEF LinkedTo, WellFormed
<1>3. DOMAIN d.limits \cup d.identities \subseteq LinkedTo(d.product) \cup DOMAIN d.links
  BY DEF Valid
<1> QED
  BY <1>1, <1>2, <1>3 DEF Concerned, Valid

LEMMA NewlyRecalled ==
  ASSUME CatalogOK, NEW d, WellFormed(d), Valid(d)
  PROVE  Recalled(Snapshot(d), Configuration(d))
<1> DEFINE P == LinkedTo(d.product)
           C == Concerned(d)
           s == Snapshot(d)
           c == Configuration(d)
<1>1. C \subseteq Providers /\ \A v \in C : provider[v].known /\ provider[v].rev \in Nat
  BY ConcernedAreKnown DEF CatalogOK
<1>2. /\ s.product = product[d.product] /\ s.links = [v \in P |-> link[d.product][v]]
      /\ DOMAIN s.providers = C
      /\ \A v \in C : /\ s.providers[v].rev = provider[v].rev
                      /\ s.providers[v].max = provider[v].max
                      /\ s.providers[v].identity = provider[v].identity
  BY DEF Snapshot
<1>3. /\ c = [product |-> c.product, links |-> c.links, providers |-> c.providers]
      /\ c.product = [mode |-> product[d.product].mode, default |-> product[d.product].default,
                      relay |-> product[d.product].relay, active |-> product[d.product].active]
      /\ c.links = [v \in P |-> link[d.product][v].accepting]
      /\ c.providers = [v \in C |->
           [url |-> provider[v].url, active |-> provider[v].active, max |-> provider[v].max,
            accepting |-> provider[v].accepting, identity |-> provider[v].identity]]
  BY DEF Configuration
<1> HIDE DEF P, C, s, c
<1>4. c.links = [v \in DOMAIN s.links |-> s.links[v].accepting]
  BY <1>2, <1>3
<1>5. c.providers = [v \in DOMAIN s.providers |-> c.providers[v]]
  BY <1>2, <1>3
<1>6. ASSUME NEW v \in DOMAIN s.providers
      PROVE  /\ v \in Providers /\ provider[v].known /\ s.providers[v].rev \in Nat
             /\ provider[v].rev = s.providers[v].rev
             /\ c.providers[v] = AsSeen(v, s.providers[v])
  BY <1>1, <1>2, <1>3 DEF AsSeen
<1>7. Recalled(s, c)
  BY <1>2, <1>3, <1>4, <1>5, <1>6 DEF Recalled
<1> QED
  BY <1>7 DEF s, c

(* What Apply finds confirmed is then all there was to see. *)
LEMMA RecalledIsCurrent ==
  ASSUME CatalogOK, NEW d, NEW s, NEW c, Recalled(s, c), Snapshot(d) = s
  PROVE  c = Configuration(d)
<1> DEFINE P == LinkedTo(d.product)
           C == Concerned(d)
<1>2. /\ s.product = product[d.product] /\ s.links = [v \in P |-> link[d.product][v]]
      /\ DOMAIN s.providers = C
      /\ \A v \in C : /\ s.providers[v].rev = provider[v].rev
                      /\ s.providers[v].max = provider[v].max
                      /\ s.providers[v].identity = provider[v].identity
  BY DEF Snapshot
<1>3. Configuration(d) =
        [product |-> [mode |-> product[d.product].mode, default |-> product[d.product].default,
                      relay |-> product[d.product].relay, active |-> product[d.product].active],
         links |-> [v \in P |-> link[d.product][v].accepting],
         providers |-> [v \in C |-> AsSeen(v, provider[v])]]
  BY DEF Configuration, AsSeen
<1> HIDE DEF P, C
<1>4. [v \in DOMAIN s.links |-> s.links[v].accepting] = [v \in P |-> link[d.product][v].accepting]
  BY <1>2
<1>5. ASSUME NEW v \in C
      PROVE  c.providers[v] = AsSeen(v, provider[v])
  <2>1. v \in Providers /\ s.providers[v].rev \in Nat
    BY <1>2 DEF Recalled
  <2>2. provider[v].rev = s.providers[v].rev /\ provider[v].rev \in Nat
    BY <1>2, <2>1 DEF CatalogOK
  <2>3. c.providers[v] = AsSeen(v, s.providers[v])
    BY <1>2, <2>2 DEF Recalled
  <2> QED
    BY <1>2, <2>3 DEF AsSeen
<1>6. [v \in DOMAIN s.providers |-> c.providers[v]] = [v \in C |-> AsSeen(v, provider[v])]
  BY <1>2, <1>5
<1>7. c = [product |-> [mode |-> s.product.mode, default |-> s.product.default,
                        relay |-> s.product.relay, active |-> s.product.active],
           links |-> [v \in DOMAIN s.links |-> s.links[v].accepting],
           providers |-> [v \in DOMAIN s.providers |-> c.providers[v]]]
  BY DEF Recalled
<1> QED
  BY <1>2, <1>3, <1>4, <1>6, <1>7
-----------------------------------------------------------------------------
(* The rows, at every step. *)

LEMMA RowsKeep ==
  ASSUME Assumptions, ChangesOK, Next
  PROVE  /\ ChangesOK'
         /\ \/ Carried
            \/ \E h \in ChangeIds : Apply(h) \/ \E d \in bounds.drafts : Prepare(h, d)
<1>1. ASSUME NEW h \in ChangeIds, NEW d \in bounds.drafts, Prepare(h, d)
      PROVE  ChangesOK'
  BY <1>1, PrepareKeeps
<1>2. ASSUME NEW h \in ChangeIds, Apply(h)
      PROVE  ChangesOK'
  BY <1>2, ApplyKeeps
<1>3. ASSUME Elsewhere
      PROVE  ChangesOK' /\ Carried
  <2>1. UNCHANGED <<change, proc>> /\ "drafts" \in DOMAIN bounds' /\ bounds'.drafts = bounds.drafts
    BY <1>3 DEF Elsewhere, Observe, Fade, changeVars, ChangesOK
  <2> QED
    BY <2>1, SameRows DEF ChangesOK
<1>4. CASE \E h \in ChangeIds : Operate(h)
  <2>1. PICK h \in ChangeIds : Operate(h)
    BY <1>4
  <2> QED
    BY <1>1, <1>2, <2>1, ExpireKeeps, GetKeeps, SaveViewKeeps, CallbackCheckKeeps DEF Operate
<1> QED
  BY <1>3, <1>4, ProcessKeeps, TimeKeeps DEF Next

LEMMA PreparedKeeps ==
  ASSUME Assumptions, Registered, ChangesOK, Prepared, Next
  PROVE  Prepared'
<1>1. CatalogOK /\ CatalogOK' /\ Revised
  BY CatalogKeeps DEF Registered
<1>2. CASE Carried
  <2>1. ASSUME NEW h \in ChangeIds, change'[h].status # "none"
        PROVE  Recalled(change[h].snapshot, change[h].seen)'
    BY <1>1, <1>2, <2>1, PreparedStays DEF Carried, Carries
  <2> QED
    BY <2>1 DEF Prepared
<1>3. ASSUME NEW h \in ChangeIds, NEW g \in ChangeIds \ {h}, change'[g] = change[g],
             change'[g].status # "none"
      PROVE  Recalled(change[g].snapshot, change[g].seen)'
  BY <1>1, <1>3, PreparedStays
<1>4. CASE \E h \in ChangeIds : Apply(h)
  <2>1. PICK h \in ChangeIds : Apply(h)
    BY <1>4
  <2>2. /\ \A g \in ChangeIds \ {h} : change'[g] = change[g]
        /\ change'[h].snapshot = change[h].snapshot /\ change'[h].seen = change[h].seen
    BY <2>1, ApplyKeeps
  <2>3. change[h].status # "none"
    BY <2>1 DEF Apply
  <2>4. Recalled(change[h].snapshot, change[h].seen)'
    BY <1>1, <2>2, <2>3, PreparedStays
  <2> QED
    BY <1>3, <2>2, <2>4 DEF Prepared
<1>5. CASE \E h \in ChangeIds, d \in bounds.drafts : Prepare(h, d)
  <2>1. PICK h \in ChangeIds, d \in bounds.drafts : Prepare(h, d)
    BY <1>5
  <2>2. /\ \A g \in ChangeIds \ {h} : change'[g] = change[g]
        /\ change'[h].snapshot = Snapshot(d) /\ change'[h].seen = Configuration(d)
    BY <2>1, PrepareKeeps
  <2>3. WellFormed(d) /\ Valid(d) /\ provider' = provider
    BY <2>1 DEF Prepare, ChangesOK, catalog
  <2>4. Recalled(Snapshot(d), Configuration(d))
    BY <1>1, <2>3, NewlyRecalled
  <2>5. Recalled(change[h].snapshot, change[h].seen)'
    BY <2>2, <2>3, <2>4 DEF Recalled, AsSeen
  <2> QED
    BY <1>3, <2>2, <2>5 DEF Prepared
<1> QED
  BY <1>2, <1>4, <1>5, RowsKeep
-----------------------------------------------------------------------------
(* The invariant. *)

ChangesInv == Registered /\ ChangesOK /\ Prepared

LEMMA InvStarts ==
  ASSUME Assumptions, Init
  PROVE  ChangesInv
<1>1. PICK w \in Workloads : Start(w) /\ bounds = w.bounds
  BY DEF Init
<1>2. /\ ask = w.ask /\ kept = w.done /\ product = w.product /\ provider = w.provider
      /\ link = w.link /\ phase = [t \in Tickets |-> IF t \in w.done THEN "committed" ELSE "none"]
  BY <1>1 DEF Start
<1>3. CatalogOK
  <2>1. w.provider \in [Providers -> RecordOf({}, {}, {})]
    BY DEF Assumptions, WorkloadsAssumption
  <2>2. /\ DOMAIN w.provider = Providers
        /\ \A v \in Providers : DOMAIN w.provider[v] = ProviderFields /\ w.provider[v].rev \in Nat
    BY <2>1 DEF RecordOf, ProviderFields
  <2> QED
    BY <1>2, <2>2 DEF CatalogOK, Assumptions, WorkloadsAssumption
<1>4. NothingUnlinked
  <2>1. \A t \in Tickets : ~Creation!Held(t)
    BY <1>2 DEF Creation!Held
  <2> QED
    BY <1>2, <2>1 DEF NothingUnlinked, ProductOf, Assumptions, WorkloadsAssumption
<1>5. LimitedIsAlone
  BY <1>2 DEF LimitedIsAlone, Aliases, Assumptions, WorkloadsAssumption
<1>6. ChangesOK
  <2>1. "drafts" \in DOMAIN bounds /\ \A d \in bounds.drafts : WellFormed(d)
    BY <1>1 DEF Assumptions, ChangesAssumption
  <2>2. RowOK(Unprepared)
    BY DEF RowOK, Unprepared, ChangeFields, NoCallback, CallbackFields, Statuses, Reviewed
  <2>3. ProcOK(Idling)
    BY DEF ProcOK, Idling, ProcFields, NoCallback, CallbackFields
  <2> QED
    BY <2>1, <2>2, <2>3 DEF Init, ChangesOK
<1>7. Prepared
  BY DEF Init, Prepared, Unprepared
<1> QED
  BY <1>3, <1>4, <1>5, <1>6, <1>7 DEF ChangesInv, Registered

LEMMA InvKeeps ==
  ASSUME Assumptions, ChangesInv, [Next]_vars
  PROVE  ChangesInv'
<1>1. CASE Next
  BY <1>1, CatalogKeeps, RowsKeep, PreparedKeeps DEF ChangesInv
<1>2. CASE UNCHANGED vars
  <2>1. UNCHANGED <<ask, phase, kept, product, provider, link, change, proc, bounds>>
    BY <1>2 DEF vars, evolutionVars, changeVars
  <2> QED
    <3>1. CatalogOK'
      BY <2>1 DEF ChangesInv, Registered, CatalogOK
    <3>2. NothingUnlinked'
      BY <2>1 DEF ChangesInv, Registered, NothingUnlinked, Creation!Held, ProductOf
    <3>3. LimitedIsAlone'
      BY <2>1 DEF ChangesInv, Registered, LimitedIsAlone, Aliases
    <3>4. ChangesOK'
      BY <2>1 DEF ChangesInv, ChangesOK
    <3>5. Prepared'
      <4>1. ASSUME NEW s, NEW c, Recalled(s, c)
            PROVE  Recalled(s, c)'
        BY <2>1, <4>1 DEF Recalled, AsSeen
      <4> QED
        BY <2>1, <4>1 DEF ChangesInv, Prepared
    <3> QED
      BY <3>1, <3>2, <3>3, <3>4, <3>5 DEF ChangesInv, Registered
<1> QED
  BY <1>1, <1>2

(* The invariant: the catalogue is in order, whatever is edited; the rows of changes say who is  *)
(* at them; and snapshots with current revisions recall all that was seen.                       *)
THEOREM ChangesTracked == Spec => []ChangesInv
<1>1. Assumptions
  BY WorkloadsAssumption, EditsAssumption, ChangesAssumption DEF Assumptions
<1>2. Init => ChangesInv
  BY <1>1, InvStarts
<1>3. ChangesInv /\ [Next]_vars => ChangesInv'
  BY <1>1, InvKeeps
<1> QED
  BY <1>2, <1>3, PTL DEF Spec

(* Every variable has its type; only a running change has an owner                              *)
(* (evolution-changes.service.ts 600).                                                          *)
THEOREM ChangesTypes == Spec => []TypeOK
<1>1. ChangesInv => TypeOK
  BY DEF ChangesInv, ChangesOK, RowOK, TypeOK
<1> QED
  BY <1>1, ChangesTracked, PTL

(* Whatever is attached, detached, restored or retired, defaults, instances and open creations   *)
(* of a product stay on providers it is linked to (evolution-base-diagnostics.ts 21).            *)
THEOREM NeverUnlinked == Spec => []NothingUnlinked
<1>1. ChangesInv => NothingUnlinked
  BY DEF ChangesInv, Registered
<1> QED
  BY <1>1, ChangesTracked, PTL

(* No sequence of edits, direct or by a change, limits or pauses a provider that shares its      *)
(* installation with another record (evolution-controls.ts 52).                                  *)
THEOREM LimitedAlone == Spec => []LimitedIsAlone
<1>1. ChangesInv => LimitedIsAlone
  BY DEF ChangesInv, Registered
<1> QED
  BY <1>1, ChangesTracked, PTL

(* Wherever the replica synchronizing a callback dies, the change is taken up again before its   *)
(* operator is asked to review it (evolution-changes.service.ts 696).                            *)
THEOREM NoCallbackHalfWay == Spec => []CallbackSettled
<1>1. ChangesInv => CallbackSettled
  BY DEF ChangesInv, ChangesOK, RowOK, CallbackSettled, Reviewed, HalfWay
<1> QED
  BY <1>1, ChangesTracked, PTL

(* Nothing but applying a change makes it applied. *)
LEMMA OnlyApplied ==
  ASSUME Assumptions, ChangesInv, Next, NEW h \in ChangeIds,
         change'[h].status = "applied", change[h].status # "applied"
  PROVE  Apply(h)
<1>1. ~Carried
  BY DEF Carried, Carries
<1>2. PICK g \in ChangeIds : Apply(g) \/ \E d \in bounds.drafts : Prepare(g, d)
  BY <1>1, RowsKeep DEF ChangesInv
<1>3. g = h
  BY <1>2, ApplyKeeps, PrepareKeeps DEF ChangesInv
<1>4. \A d \in bounds.drafts : ~Prepare(h, d)
  BY PrepareKeeps DEF ChangesInv
<1> QED
  BY <1>2, <1>3, <1>4

(* A change is applied only to the configuration its operator saw when preparing it, though the  *)
(* comparison is of revisions for the most part (evolution-change-checks.ts 98).                 *)
THEOREM AppliesWhatWasSeen == Spec => AppliedAsPrepared
<1> DEFINE Step == \A h \in ChangeIds :
                     change'[h].status = "applied" /\ change[h].status # "applied"
                     => change[h].seen = Configuration(change[h].draft)
<1>1. ASSUME ChangesInv, Next, NEW h \in ChangeIds,
             change'[h].status = "applied", change[h].status # "applied"
      PROVE  change[h].seen = Configuration(change[h].draft)
  <2>1. Apply(h)
    <3>1. Assumptions
      BY WorkloadsAssumption, EditsAssumption, ChangesAssumption DEF Assumptions
    <3> QED
      BY <1>1, <3>1, OnlyApplied
  <2> DEFINE d == change[h].draft
             s == change[h].snapshot
             c == change[h].seen
  <2>2. Evaluate(d, s) = {} /\ change[h].status = "ready"
    BY <2>1 DEF Apply
  <2>3. Snapshot(d) = s
    <3>1. Blocks(Snapshot(d) # s, "configuration_changed") = {}
      BY <2>2 DEF Evaluate
    <3> QED
      BY <3>1 DEF Blocks
  <2>4. Recalled(s, c) /\ CatalogOK
    BY <1>1, <2>2 DEF ChangesInv, Prepared, Registered
  <2> HIDE DEF d, s, c
  <2>5. c = Configuration(d)
    BY <2>3, <2>4, RecalledIsCurrent
  <2> QED
    BY <2>5 DEF c, d
<1>2. ChangesInv /\ [Next]_vars => [Step]_vars
  BY <1>1
<1> QED
  BY <1>2, ChangesTracked, PTL DEF Spec, AppliedAsPrepared
-----------------------------------------------------------------------------
(* The rows keep their types, too: there are no collectors here, so none has seen an occupancy. *)

RowsAsTyped == RowsTyped({})

LEMMA StaleTypes ==
  ASSUME NEW x \in ProviderRecord({})
  PROVE  /\ [x EXCEPT !.observed = "old", !.seen = "old"] \in ProviderRecord({})
         /\ [x EXCEPT !.healthy = FALSE] \in ProviderRecord({})
<1> DEFINE y == [x EXCEPT !.observed = "old"]
<1>1. y \in ProviderRecord({})
  BY DEF ProviderRecord, RecordOf
<1>2. [y EXCEPT !.seen = "old"] = [x EXCEPT !.observed = "old", !.seen = "old"]
  OBVIOUS
<1> HIDE DEF y
<1>3. [y EXCEPT !.seen = "old"] \in ProviderRecord({})
  BY <1>1 DEF ProviderRecord, RecordOf
<1>4. [x EXCEPT !.healthy = FALSE] \in ProviderRecord({})
  BY DEF ProviderRecord, RecordOf
<1> QED
  BY <1>2, <1>3, <1>4

(* What applying a draft writes has its type. *)
LEMMA WrittenTypes ==
  ASSUME NEW x \in ProviderRecord({}), NEW d, WellFormed(d), NEW v \in Providers, x = provider[v],
         NEW y, y = Written(v, d)
  PROVE  y \in ProviderRecord({})
<1> DEFINE i == Identified(v, d)
           a == ProviderAfter(v, d)
           writes == Cardinality({v} \cap DOMAIN d.limits) + Cardinality({v} \cap d.identities)
<1>1. FieldsTyped({}, x)
  BY FieldByField
<1>2. i \in ProviderRecord({})
  <2>1. i = IF v \in d.identities
            THEN [x EXCEPT !.identity = "verified", !.endpoint = Endpoint[x.url]] ELSE x
    BY DEF Identified, Confirmed
  <2> DEFINE j == [x EXCEPT !.identity = "verified"]
  <2>2. j \in ProviderRecord({})
    BY DEF ProviderRecord, RecordOf
  <2>3. x.url \in Urls
    BY <1>1 DEF FieldsTyped
  <2> DEFINE e == Endpoint[x.url]
  <2>4. e \in {Endpoint[u] : u \in Urls} \cup {None}
    BY <2>3
  <2>5. [j EXCEPT !.endpoint = e] = [x EXCEPT !.identity = "verified", !.endpoint = e]
    OBVIOUS
  <2> HIDE DEF j, e
  <2>6. [j EXCEPT !.endpoint = e] \in ProviderRecord({})
    BY <2>2, <2>4 DEF ProviderRecord, RecordOf
  <2> QED
    BY <2>1, <2>5, <2>6 DEF e
<1>3. a \in ProviderRecord({})
  <2>1. a = IF v \in DOMAIN d.limits THEN [i EXCEPT !.max = d.limits[v]] ELSE i
    BY DEF ProviderAfter
  <2>2. v \in DOMAIN d.limits => d.limits[v] \in Nat \cup {None}
    BY DEF WellFormed
  <2> HIDE DEF i, a
  <2>3. v \in DOMAIN d.limits => [i EXCEPT !.max = d.limits[v]] \in ProviderRecord({})
    BY <1>2, <2>2 DEF ProviderRecord, RecordOf
  <2> QED
    BY <1>2, <2>1, <2>3
<1>4. writes \in Nat
  <2>1. ASSUME NEW S
        PROVE  Cardinality({v} \cap S) \in Nat
    <3>1. {v} \cap S = {} \/ {v} \cap S = {v}
      OBVIOUS
    <3>2. Cardinality({}) = 0 /\ Cardinality({v}) = 1
      BY FS_EmptySet, FS_Singleton
    <3> QED
      BY <3>1, <3>2
  <2>2. /\ Cardinality({v} \cap DOMAIN d.limits) \in Nat
        /\ Cardinality({v} \cap d.identities) \in Nat
    BY <2>1
  <2> QED
    BY <2>2
<1>5. y = [a EXCEPT !.rev = a.rev + writes]
  BY DEF Written
<1> HIDE DEF a, writes
<1>6. a.rev + writes \in Nat
  BY <1>3, <1>4, FieldByField DEF FieldsTyped
<1> DEFINE n == a.rev + writes
<1> HIDE DEF n
<1>7. [a EXCEPT !.rev = n] \in ProviderRecord({})
  BY <1>3, <1>6 DEF ProviderRecord, RecordOf, n
<1> QED
  BY <1>5, <1>7 DEF n

LEMMA TypedRowsKeep ==
  ASSUME Assumptions, ChangesInv, RowsAsTyped, [Next]_vars
  PROVE  RowsAsTyped'
<1>1. /\ foreign \subseteq Foreign /\ kept \subseteq Tickets
      /\ provider \in [Providers -> ProviderRecord({})]
  BY DEF RowsAsTyped, RowsTyped
<1>2. ASSUME UNCHANGED <<ask, kept, foreign, provider>>
      PROVE  RowsAsTyped'
  BY <1>1, <1>2, RowsUntouched DEF RowsAsTyped
<1>3. ASSUME NEW v \in Providers, UNCHANGED <<ask, kept, foreign>>,
             NEW y \in ProviderRecord({}), provider' = [provider EXCEPT ![v] = y]
      PROVE  RowsAsTyped'
  BY <1>1, <1>3, RowWritten DEF RowsAsTyped
<1>4. ASSUME NEW v \in Providers
      PROVE  Observed(v, RemoteAt(v), {}) \in ProviderRecord({})
  BY RemoteIsListable, ObservedTypes DEF RowsAsTyped
<1>5. ASSUME NEW h \in ChangeIds, Operate(h)
      PROVE  RowsAsTyped'
  <2>1. UNCHANGED <<ask, kept, foreign>>
    BY <1>5 DEF Operate, Prepare, Expire, Get, SaveView, Cancel, Apply, CallbackCheck, catalog,
                unchanged, creationVars
  <2>2. CASE Apply(h)
    <3> DEFINE d == change[h].draft
               R == ProviderRecord({})
    <3>1. WellFormed(d) /\ provider' = [v \in Providers |-> Written(v, d)]
      BY <2>2 DEF Apply, ChangesInv, ChangesOK, RowOK
    <3>2. \A v \in Providers : Written(v, d) \in R
      BY <1>1, <3>1, WrittenTypes
    <3>3. R' = R
      BY <2>1 DEF ProviderRecord, RecordOf, Listable
    <3> HIDE DEF R, d
    <3>4. provider' \in [Providers -> R]
      BY <3>1, <3>2
    <3> QED
      BY <1>1, <2>1, <3>3, <3>4 DEF RowsAsTyped, RowsTyped, R
  <2>3. CASE ~Apply(h)
    <3>1. provider' = provider
      BY <1>5, <2>3 DEF Operate, Prepare, Expire, Get, SaveView, Cancel, CallbackCheck, catalog
    <3> QED
      BY <1>2, <2>1, <3>1
  <2> QED
    BY <2>2, <2>3
<1>6. ASSUME NEW r \in Replicas, Process(r)
      PROVE  RowsAsTyped'
  <2>1. UNCHANGED <<ask, kept, foreign>>
    BY <1>6 DEF Process, Claim, Compare, RecordCallback, Sync, Refresh, Diagnose, Settle, Throw,
                Crash, catalog, unchanged, creationVars
  <2>2. \/ provider' = provider
        \/ \E v \in Providers : provider' = [provider EXCEPT ![v] = Observed(v, RemoteAt(v), {})]
    BY <1>6 DEF Process, Claim, Compare, RecordCallback, Sync, Refresh, Diagnose, Settle, Throw,
                Crash, catalog
  <2> QED
    BY <1>2, <1>3, <1>4, <2>1, <2>2
<1>7. ASSUME Time
      PROVE  RowsAsTyped'
  BY <1>2, <1>7 DEF Time, LeaseLost, Deadline, RunsOut, catalog, unchanged, creationVars
<1>8. ASSUME NEW v \in Providers, Observe(v)
      PROVE  RowsAsTyped'
  BY <1>3, <1>4, <1>8 DEF Observe, unchanged, creationVars
<1>9. ASSUME NEW v \in Providers, Fade(v)
      PROVE  RowsAsTyped'
  <2>1. PICK y : /\ provider' = [provider EXCEPT ![v] = y]
                 /\ \/ y = [provider[v] EXCEPT !.observed = "old", !.seen = "old"]
                    \/ y = [provider[v] EXCEPT !.healthy = FALSE]
    BY <1>1, <1>9 DEF Fade
  <2>2. provider[v] \in ProviderRecord({})
    BY <1>1
  <2>3. y \in ProviderRecord({})
    BY <2>1, <2>2, StaleTypes
  <2>4. UNCHANGED <<ask, kept, foreign>>
    BY <1>9 DEF Fade, unchanged, creationVars
  <2> QED
    BY <1>3, <2>1, <2>3, <2>4
<1>10. ASSUME EditProduct \/ ConfirmSetup \/ \E d \in undelivered : Deliver(d)
       PROVE  RowsAsTyped'
  <2>1. UNCHANGED <<ask, kept, foreign, provider>>
    BY <1>10 DEF EditProduct, ConfirmSetup, Deliver, Attach, Detach, UpdateLink, SetAllocation,
                 UpdateProduct, DeactivateProduct, unedited, creationVars
  <2> QED
    BY <1>2, <2>1
<1>11. CASE Next
  <2>1. EditsAssumption
    BY DEF Assumptions
  <2> QED
    BY <1>5, <1>6, <1>7, <1>8, <1>9, <1>10, <1>11, <2>1, CreateTypes, EditProviderTypes,
       CallbackTypes DEF Next, Elsewhere, RowsAsTyped
<1>12. CASE UNCHANGED vars
  BY <1>2, <1>12 DEF vars, evolutionVars
<1> QED
  BY <1>11, <1>12
-----------------------------------------------------------------------------
(* What an activation relies on. *)

LEMMA NothingLinkedBlocks ==
  ASSUME NEW d, NEW v, LinkedBlockers(v, d, TRUE) = {}, NEW x, x = ProviderAfter(v, d)
  PROVE  /\ IdentityConfirmed(x) /\ Aliases(x.url, v) = {} /\ x.active /\ x.host
         /\ IsFresh(x) /\ (product[d.product].relay => x.callback = "ready")
         /\ ~ReadOccupancy(v).ambiguous /\ provider[v].accepting
<1>1. /\ Readiness(v, x, TRUE /\ product[d.product].relay) = {}
      /\ Blocks(~provider[v].accepting, "provider_paused") = {}
  BY DEF LinkedBlockers
<1>2. provider[v].accepting
  BY <1>1 DEF Blocks
<1>3. /\ IdentityConfirmed(x) /\ Aliases(x.url, v) = {} /\ x.active /\ x.host
      /\ x.healthy /\ x.seen = "recent" /\ x.status = "ready" /\ InventoryFresh(x)
      /\ product[d.product].relay => x.callback = "ready"
      /\ ~ReadOccupancy(v).ambiguous
  BY <1>1 DEF Readiness, Blocks
<1>4. IsFresh(x)
  BY <1>3 DEF IsFresh, InventoryFresh
<1> QED
  BY <1>2, <1>3, <1>4

LEMMA Activated ==
  ASSUME NEW d, NEW s, ~Reversal(d), Evaluate(d, s) = {}
  PROVE  /\ Snapshot(d) = s /\ AllocationEnabled /\ product[d.product].active
         /\ d.action = "single_destination" => d.target \in DOMAIN LinksAfter(d, s)
         /\ \E v \in DOMAIN LinksAfter(d, s) : LinksAfter(d, s)[v] /\ Vacant(v, d)
<1>1. /\ Blocks(Snapshot(d) # s, "configuration_changed") = {}
      /\ ActivationBlockers(d, s) = {}
  BY DEF Evaluate
<1> DEFINE after == LinksAfter(d, s)
           open == {v \in DOMAIN after : after[v]}
<1>2. /\ Blocks(~AllocationEnabled, "distribution_disabled") = {}
      /\ Blocks(~product[d.product].active, "product_inactive") = {}
      /\ Blocks(d.action = "single_destination" /\ d.target \notin DOMAIN after,
                "target_unavailable") = {}
      /\ Blocks(\A v \in open : ~Vacant(v, d), "no_capacity") = {}
  BY <1>1 DEF ActivationBlockers
<1> HIDE DEF after
<1> QED
  BY <1>1, <1>2 DEF Blocks, after

(* Applying leaves who is on a provider, and where it is. *)
LEMMA OccupancyStays ==
  ASSUME UNCHANGED <<ask, phase, kept>>, NEW v,
         provider'[v].entries = provider[v].entries, provider'[v].absent = provider[v].absent
  PROVE  ReadOccupancy(v)' = ReadOccupancy(v)
<1>1. /\ RowsAt(v)' = RowsAt(v) /\ OpenAt(v)' = OpenAt(v)
      /\ \A t, known : Account(t, known)' = Account(t, known)
  BY DEF RowsAt, OpenAt, Account, Creation!Held, ProductOf
<1> QED
  BY <1>1 DEF ReadOccupancy

(* The row written is the edited copy that was checked, but for its revision. *)
LEMMA WrittenAsChecked ==
  ASSUME NEW x \in ProviderRecord({}), NEW d, WellFormed(d), NEW v \in Providers, x = provider[v],
         NEW a, a = ProviderAfter(v, d), NEW y, y = Written(v, d)
  PROVE  /\ y.url = a.url /\ y.endpoint = a.endpoint /\ y.identity = a.identity
         /\ y.active = a.active /\ y.host = a.host /\ y.max = a.max /\ y.status = a.status
         /\ y.observed = a.observed /\ y.healthy = a.healthy /\ y.seen = a.seen
         /\ y.callback = a.callback
         /\ a.accepting = x.accepting /\ y.accepting = x.accepting
         /\ y.entries = x.entries /\ y.absent = x.absent
<1> DEFINE i == Identified(v, d)
           writes == Cardinality({v} \cap DOMAIN d.limits) + Cardinality({v} \cap d.identities)
<1>1. i.accepting = x.accepting /\ i.entries = x.entries /\ i.absent = x.absent
  BY DEF Identified, Confirmed
<1>2. a = IF v \in DOMAIN d.limits THEN [i EXCEPT !.max = d.limits[v]] ELSE i
  BY DEF ProviderAfter
<1> HIDE DEF i
<1>3. a.accepting = x.accepting /\ a.entries = x.entries /\ a.absent = x.absent
  BY <1>1, <1>2
<1>4. y = [a EXCEPT !.rev = @ + writes]
  BY DEF Written
<1> HIDE DEF writes
<1> QED
  BY <1>3, <1>4

LEMMA LinksOpened ==
  ASSUME Assumptions, CatalogOK, NEW d, WellFormed(d), ~Reversal(d), NEW s, s = Snapshot(d),
         NEW v \in DOMAIN LinksAfter(d, s)
  PROVE  /\ v \in Providers
         /\ LinksAfter(d, s)[v] => LinkAfter(d, v) # None /\ LinkAfter(d, v).accepting
<1> DEFINE x == link[d.product][v]
           own == IF v \notin DOMAIN d.links THEN x
                  ELSE IF x = None THEN NewLink(d.links[v] = TRUE)
                  ELSE [accepting |-> Given(d.links[v], x.accepting), rev |-> x.rev + 1]
<1>1. /\ DOMAIN s.links = LinkedTo(d.product)
      /\ \A u \in LinkedTo(d.product) : s.links[u] = link[d.product][u]
  BY DEF Snapshot
<1>2. /\ DOMAIN LinksAfter(d, s) = LinkedTo(d.product) \cup DOMAIN d.links
      /\ LinksAfter(d, s)[v] =
           IF d.action = "single_destination" THEN v = d.target
           ELSE IF v \in DOMAIN d.links /\ d.links[v] # NotGiven THEN d.links[v]
           ELSE v \in LinkedTo(d.product) /\ s.links[v].accepting
  BY <1>1 DEF LinksAfter
<1>3. v \in Providers
  BY <1>2 DEF LinkedTo, WellFormed
<1>4. x # None <=> v \in LinkedTo(d.product)
  BY <1>3 DEF LinkedTo
<1>5. LinkAfter(d, v) = IF d.action = "single_destination" /\ own # None
                        THEN [accepting |-> v = d.target, rev |-> own.rev + 1]
                        ELSE own
  BY DEF LinkAfter, Reversal
<1>6. LinkAfter(d, v) \in LinkRecord \cup {None} /\ (x # None => LinkAfter(d, v) # None)
  BY <1>3, LinkAfterIsLink DEF Reversal
<1>7. ASSUME LinksAfter(d, s)[v], d.action = "single_destination"
      PROVE  LinkAfter(d, v) # None /\ LinkAfter(d, v).accepting
  <2>1. v = d.target /\ DOMAIN d.links = {}
    BY <1>2, <1>7 DEF WellFormed
  <2>2. x # None /\ own = x
    BY <1>2, <1>4, <2>1
  <2>3. LinkAfter(d, v) = [accepting |-> TRUE, rev |-> own.rev + 1]
    BY <1>5, <1>7, <2>1, <2>2
  <2> HIDE DEF x, own
  <2>4. LinkAfter(d, v).accepting = TRUE
    BY <2>3
  <2> QED
    BY <1>6, <2>2, <2>4
<1>8. ASSUME LinksAfter(d, s)[v], d.action # "single_destination"
      PROVE  LinkAfter(d, v) # None /\ LinkAfter(d, v).accepting
  <2>1. LinkAfter(d, v) = own
    BY <1>5, <1>8
  <2>2. CASE v \in DOMAIN d.links /\ d.links[v] # NotGiven
    <3>1. d.links[v] = TRUE
      BY <1>2, <1>8, <2>2 DEF WellFormed
    <3>2. own.accepting
      BY <2>2, <3>1 DEF NewLink, Given
    <3>3. own # None
      <4>1. x \in LinkRecord \cup {None}
        BY <1>3 DEF CatalogOK, WellFormed
      <4>2. x = None => own \in LinkRecord
        BY <2>2, <3>1 DEF NewLink, LinkRecord
      <4>3. x # None => own \in LinkRecord
        <5>1. x # None => x.rev + 1 \in Nat
          BY <4>1 DEF LinkRecord
        <5>2. x # None => own = [accepting |-> TRUE, rev |-> x.rev + 1]
          BY <2>2, <3>1 DEF Given
        <5>3. \A n \in Nat : [accepting |-> TRUE, rev |-> n] \in LinkRecord
          BY DEF LinkRecord
        <5> HIDE DEF x, own
        <5> QED
          BY <5>1, <5>2, <5>3
      <4> QED
        BY <4>2, <4>3, RecordIsSome
    <3> QED
      BY <2>1, <3>2, <3>3
  <2>3. CASE ~(v \in DOMAIN d.links /\ d.links[v] # NotGiven)
    <3>1. v \in LinkedTo(d.product) /\ x.accepting
      BY <1>1, <1>2, <1>8, <2>3
    <3>2. x # None
      BY <1>4, <3>1
    <3>3. own.accepting
      BY <2>3, <3>1, <3>2 DEF Given
    <3> QED
      BY <1>6, <2>1, <3>2, <3>3
  <2> QED
    BY <2>2, <2>3
<1> QED
  BY <1>3, <1>7, <1>8

(* A provider with room as checked takes the product's next instance as written. *)
LEMMA VacantTakesOne ==
  ASSUME Assumptions, EvolutionsAssumption, CatalogOK, RowsAsTyped, NEW d, WellFormed(d),
         ~Reversal(d), NEW s, Evaluate(d, s) = {},
         UNCHANGED <<ask, phase, kept, foreign>>,
         provider' = [v \in Providers |-> Written(v, d)],
         link' = [link EXCEPT ![d.product] = [v \in Providers |-> LinkAfter(d, v)]],
         product' = [product EXCEPT ![d.product] = ProductAfter(d)],
         NEW v \in DOMAIN LinksAfter(d, s), LinksAfter(d, s)[v], Vacant(v, d)
  PROVE  v \in Providers /\ Admissible(d.product, v, FALSE)'
<1> DEFINE p == d.product
<1>0. PICK a, y, x : a = ProviderAfter(v, d) /\ y = Written(v, d) /\ x = provider[v]
  OBVIOUS
<1>1. /\ s = Snapshot(d) /\ AllocationEnabled /\ product[p].active
  BY Activated
<1>2. /\ v \in Providers /\ LinkAfter(d, v) # None /\ LinkAfter(d, v).accepting
  BY <1>1, LinksOpened
<1>3. /\ p \in Products /\ DOMAIN product[p] = ProductFields /\ DOMAIN product = Products
      /\ link \in [Products -> [Providers -> LinkRecord \cup {None}]]
  BY DEF WellFormed, CatalogOK
<1>4. /\ product'[p].active = product[p].active /\ product'[p].relay = product[p].relay
      /\ product'[p].mode = "capacity"
  <2>1. ProductAfter(d) = [[product[p] EXCEPT !.rev = @ + 1] EXCEPT !.mode = "capacity"]
    BY DEF ProductAfter, Reversal
  <2>2. product'[p] = ProductAfter(d)
    BY <1>3
  <2> QED
    BY <1>3, <2>1, <2>2 DEF ProductFields
<1>5. link'[p][v] = LinkAfter(d, v)
  BY <1>2, <1>3
<1>6. x \in ProviderRecord({}) /\ y = provider'[v]
  BY <1>0, <1>2 DEF RowsAsTyped, RowsTyped
<1>7. /\ y.url = a.url /\ y.endpoint = a.endpoint /\ y.identity = a.identity
      /\ y.active = a.active /\ y.host = a.host /\ y.max = a.max /\ y.status = a.status
      /\ y.observed = a.observed /\ y.healthy = a.healthy /\ y.seen = a.seen
      /\ y.callback = a.callback
      /\ a.accepting = x.accepting /\ y.accepting = x.accepting
      /\ y.entries = x.entries /\ y.absent = x.absent
  BY <1>0, <1>2, <1>6, WrittenAsChecked
<1>8. /\ IdentityConfirmed(a) /\ Aliases(a.url, v) = {} /\ a.active /\ a.host
      /\ IsFresh(a) /\ (product[p].relay => a.callback = "ready")
      /\ ~ReadOccupancy(v).ambiguous /\ x.accepting
  BY <1>0, NothingLinkedBlocks DEF Vacant
<1>9. ReadOccupancy(v)' = ReadOccupancy(v)
  BY <1>0, <1>6, <1>7, OccupancyStays
<1>10. Aliases(a.url, v)' = Aliases(a.url, v)
  <2>1. \A w \in Providers : /\ provider'[w].url = provider[w].url
                             /\ provider'[w].known = provider[w].known
    BY WrittenRow
  <2> QED
    BY <2>1 DEF Aliases
<1>11. a.max # None => ReadOccupancy(v).effective + 1 <= a.max
  <2>1. ~Full(v, a.max)
    BY <1>0 DEF Vacant
  <2>2. ReadOccupancy(v).effective \in Nat
    BY <1>2, UsedCounts DEF RowsAsTyped
  <2>3. y.max \in Nat \cup {None}
    <3>1. y \in ProviderRecord({})
      BY <1>0, <1>2, <1>6, WrittenTypes
    <3> QED
      BY <3>1, FieldByField DEF FieldsTyped
  <2>4. a.max \in Nat \cup {None}
    BY <1>7, <2>3
  <2> QED
    BY <2>1, <2>2, <2>4 DEF Full
<1>12. IdentityConfirmed(y) /\ IsFresh(y)
  BY <1>7, <1>8 DEF IdentityConfirmed, IsFresh
<1>13. Aliases(y.url, v)' = {}
  BY <1>7, <1>8, <1>10
<1> QED
  BY <1>1, <1>2, <1>4, <1>5, <1>6, <1>7, <1>8, <1>9, <1>11, <1>12, <1>13 DEF Admissible, Accepts

(* A single destination is the one provider that accepts. *)
LEMMA SingleAccepts ==
  ASSUME Assumptions, CatalogOK, NEW d, WellFormed(d), d.action = "single_destination",
         NEW s, Evaluate(d, s) = {},
         link' = [link EXCEPT ![d.product] = [v \in Providers |-> LinkAfter(d, v)]],
         product' = [product EXCEPT ![d.product] = ProductAfter(d)],
         NEW v \in Providers
  PROVE  Accepts(d.product, v)' <=> v = d.target
<1> DEFINE p == d.product
           x == link[p][v]
<1>1. /\ p \in Products /\ DOMAIN product[p] = ProductFields /\ DOMAIN product = Products
      /\ link \in [Products -> [Providers -> LinkRecord \cup {None}]]
      /\ DOMAIN d.links = {}
  BY DEF WellFormed, CatalogOK
<1>2. ~Reversal(d)
  BY DEF Reversal
<1>3. product'[p].mode = "capacity"
  <2>1. ProductAfter(d) = [[product[p] EXCEPT !.rev = @ + 1] EXCEPT !.mode = "capacity"]
    BY DEF ProductAfter
  <2>2. product'[p] = ProductAfter(d)
    BY <1>1
  <2> QED
    BY <1>1, <2>1, <2>2 DEF ProductFields
<1>4. link'[p][v] = IF x # None THEN [accepting |-> v = d.target, rev |-> x.rev + 1] ELSE None
  BY <1>1 DEF LinkAfter
<1>5. v = d.target => x # None
  <2>1. d.target \in DOMAIN LinksAfter(d, s) /\ Snapshot(d) = s
    BY <1>2, Activated
  <2>2. DOMAIN LinksAfter(d, s) = LinkedTo(p)
    BY <1>1, <2>1 DEF LinksAfter, Snapshot
  <2> QED
    BY <2>1, <2>2 DEF LinkedTo
<1>6. x # None => [accepting |-> v = d.target, rev |-> x.rev + 1] # None
  <2>1. x # None => [accepting |-> v = d.target, rev |-> x.rev + 1] \in LinkRecord
    BY <1>1 DEF LinkRecord
  <2> QED
    BY <2>1, RecordIsSome
<1>7. Accepts(p, v)' <=> IF link'[p][v] # None THEN link'[p][v].accepting ELSE FALSE
  BY <1>3 DEF Accepts
<1> DEFINE there == v = d.target
           next == [accepting |-> there, rev |-> x.rev + 1]
<1>8. x # None => link'[p][v] = next /\ next # None
  BY <1>4, <1>6
<1>9. next.accepting = there
  OBVIOUS
<1> HIDE DEF x, next
<1>10. CASE x = None
  BY <1>4, <1>5, <1>7, <1>10
<1>11. CASE x # None
  <2>1. Accepts(p, v)' <=> next.accepting
    BY <1>7, <1>8, <1>11
  <2> QED
    BY <2>1, <1>9
<1> QED
  BY <1>10, <1>11

LEMMA RowsStart ==
  ASSUME Assumptions, Init
  PROVE  RowsAsTyped
<1>1. PICK w \in Workloads : Start(w)
  BY DEF Init
<1>2. /\ provider = w.provider /\ w.provider \in [Providers -> RecordOf({}, {}, {})]
      /\ kept \subseteq Tickets /\ foreign = {}
  BY <1>1 DEF Start, Assumptions, WorkloadsAssumption
<1>3. RecordOf({}, {}, {}) \subseteq ProviderRecord({})
  BY DEF RecordOf, ProviderRecord
<1> DEFINE R == RecordOf({}, {}, {})
           S == ProviderRecord({})
<1> HIDE DEF R, S
<1>4. provider \in [Providers -> R] /\ R \subseteq S
  BY <1>2, <1>3 DEF R, S
<1>5. provider \in [Providers -> S]
  BY <1>4
<1> QED
  BY <1>2, <1>5 DEF RowsAsTyped, RowsTyped, S

(* A product moved to capacity can take an instance at once, and one given a single destination   *)
(* takes none elsewhere: what was checked of the edited copies holds of the rows written          *)
(* (evolution-changes.service.ts 438).                                                            *)
THEOREM AppliesUsably == Spec => AppliedIsUsable
<1> DEFINE Step == \A h \in ChangeIds :
                     LET d == change[h].draft
                     IN change'[h].status = "applied" /\ change[h].status # "applied"
                          /\ ~Reversal(d)
                        => /\ \E v \in Providers : Admissible(d.product, v, FALSE)'
                           /\ d.action = "single_destination"
                              => \A v \in Providers : Accepts(d.product, v)' <=> v = d.target
<1>1. Assumptions
  BY WorkloadsAssumption, EditsAssumption, ChangesAssumption DEF Assumptions
<1>2. ASSUME ChangesInv, RowsAsTyped, Next, NEW h \in ChangeIds,
             change'[h].status = "applied", change[h].status # "applied",
             NEW d, d = change[h].draft, ~Reversal(d)
      PROVE  /\ d = change'[h].draft
             /\ \E v \in Providers : Admissible(d.product, v, FALSE)'
             /\ d.action = "single_destination"
                => \A v \in Providers : Accepts(d.product, v)' <=> v = d.target
  <2>1. Apply(h)
    BY <1>1, <1>2, OnlyApplied
  <2>2. PICK s : s = change[h].snapshot
    OBVIOUS
  <2>3. CatalogOK /\ WellFormed(d)
    BY <1>2, <2>1 DEF ChangesInv, Registered, ChangesOK, RowOK, Apply
  <2>4. /\ Evaluate(d, s) = {}
        /\ provider' = [v \in Providers |-> Written(v, d)]
        /\ link' = [link EXCEPT ![d.product] = [v \in Providers |-> LinkAfter(d, v)]]
        /\ product' = [product EXCEPT ![d.product] = ProductAfter(d)]
        /\ UNCHANGED <<ask, phase, kept, foreign>>
    BY <1>2, <2>1, <2>2 DEF Apply, unchanged, creationVars
  <2>5. PICK v \in DOMAIN LinksAfter(d, s) : LinksAfter(d, s)[v] /\ Vacant(v, d)
    BY <1>2, <2>4, Activated
  <2>6. v \in Providers /\ Admissible(d.product, v, FALSE)'
    BY <1>1, <1>2, <2>3, <2>4, <2>5, EvolutionsAssumption, VacantTakesOne
  <2>7. d.action = "single_destination"
          => \A w \in Providers : Accepts(d.product, w)' <=> w = d.target
    BY <1>1, <2>3, <2>4, SingleAccepts
  <2>8. d = change'[h].draft
    BY <1>2, <2>1, ApplyKeeps DEF ChangesInv
  <2> QED
    BY <2>6, <2>7, <2>8
<1>3. ASSUME ChangesInv, RowsAsTyped, Next
      PROVE  Step
  BY <1>2, <1>3
<1>4. ChangesInv /\ RowsAsTyped /\ [Next]_vars => [Step]_vars
  BY <1>3
<1>5. Init => RowsAsTyped
  BY <1>1, RowsStart
<1>6. ChangesInv /\ RowsAsTyped /\ [Next]_vars => RowsAsTyped'
  BY <1>1, TypedRowsKeep
<1> QED
  BY <1>4, <1>5, <1>6, ChangesTracked, PTL DEF Spec, AppliedIsUsable
=============================================================================
