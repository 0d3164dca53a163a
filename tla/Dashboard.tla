----------------------------- MODULE Dashboard -----------------------------
(***************************************************************************)
(* The dashboard as administrators arrange it (frontend, pages/dashboard   *)
(* and components/modal_groups.rs): cards of services and quick links in   *)
(* sections, dragged to another place or reset to A-Z; groups made,        *)
(* renamed, moved and deleted; and the modal of HistoryModal, with which   *)
(* they share nothing.                                                     *)
(*                                                                         *)
(* Several pages show what one server keeps.  A page has the lists it      *)
(* fetched last and fetches a list anew after a change of its own, not     *)
(* after another's.  What a click or a drop starts is a task of requests,  *)
(* one after the other.  The server writes a PUT over the row it read,     *)
(* whole.                                                                  *)
(***************************************************************************)
EXTENDS HistoryModal, FiniteSets, SequencesExt, FiniteSetsExt

CONSTANTS
  Tabs,      \* pages that are open
  Slots,     \* bound: tasks at a time
  Services,  \* ids of cards
  Links,     \* ids of cards
  Title,     \* a card's title as its place in the alphabet
  Source,    \* the source of a service
  Modes,     \* the sort modes the pages may be in, each in one
  MaxGroup,  \* bound: ids of groups, 1..MaxGroup
  MaxActs,   \* bound: what users do to cards and groups
  MaxFaults, \* bound: requests that fail
  Stored     \* what the server may hold at first: cards and groups

(* What the server holds at first is whole: groups numbered, cards in      *)
(* them or in none.  An import, 008 and POST without an order leave groups *)
(* with ties.                                                              *)
ASSUME DashboardAssumption ==
  /\ Services \cap Links = {} /\ Services \cup Links \subseteq Nat
  /\ IsFiniteSet(Services) /\ IsFiniteSet(Links)
  /\ Title \in [Services \cup Links -> Nat]
  /\ \A i, j \in Services \cup Links : Title[i] = Title[j] => i = j
  /\ MaxGroup \in Nat /\ None \notin Nat
  /\ \A x \in Stored :
       /\ DOMAIN x.cards \subseteq Services \cup Links
       /\ x.cards \in [DOMAIN x.cards -> [order : Nat, group : 1..MaxGroup \cup {None}]]
       /\ \E n \in 0..MaxGroup : x.groups \in [1..n -> Nat]

VARIABLES
  cards,   \* the tables services and quick_links: id |-> order and group
  groups,  \* the table groups: id |-> order
  used,    \* the ids of cards given out
  serial,  \* the last id given to a group
  pages,   \* the mode and the lists of each page
  stale,   \* the lists each page is fetching
  drags,   \* the card each page's user drags, if any
  tasks,
  raced,   \* history: orders of groups had ties, or were written by one who did not see them
  acts, faults

tables == <<cards, groups, used, serial>>
view   == <<pages, stale>>
vars   == <<tables, view, drags, tasks, raced, modalVars, acts, faults>>

(* The user of a modal is not the one of the page: a behaviour is of the   *)
(* one or of the other.                                                    *)
Act   == looks = 0 /\ acts < MaxActs /\ acts' = acts + 1
Fault == faults < MaxFaults /\ faults' = faults + 1

Lists == {"services", "links", "groups"}

-----------------------------------------------------------------------------
(* Sections                                                                *)

ListOf(i) == IF i \in Services THEN "services" ELSE "links"

(* Members of a set by one key and, where that ties, by another, which     *)
(* does not: each comes after as many as are before it.                    *)
Before(key, then, i, j) == key[i] < key[j] \/ (key[i] = key[j] /\ then[i] < then[j])

Ranked(ids, key, then) ==
  [n \in 1..Cardinality(ids) |->
     CHOOSE i \in ids : Cardinality({j \in ids : Before(key, then, j, i)}) = n - 1]

Orders(table, ids) == [i \in ids |-> table[i].order]

(* As the server sends links: by sort_order, then by id.                   *)
Sent(table, ids) == Ranked(ids, Orders(table, ids), [i \in ids |-> i])

(* By sort_order, then by title.                                           *)
Sorted(table, ids) == Ranked(ids, Orders(table, ids), Title)

(* From A to Z.                                                            *)
Alphabetic(ids) == Ranked(ids, Title, Title)

(* The source of a service, or none, which is "Manual".                    *)
SourceKey(i) == IF i \in Services THEN Source[i] ELSE None

(* The group of a card; one the page does not know is none, "Ungrouped".   *)
GroupKey(p, i) == IF p.cards[i].group \in DOMAIN p.groups THEN p.cards[i].group ELSE None

(* A section of a page: of one list, and of one source or group in the     *)
(* modes that have such.                                                   *)
SectionOf(p, i) ==
  [list |-> ListOf(i),
   key  |-> CASE p.mode = "source" -> SourceKey(i)
              [] p.mode = "group"  -> GroupKey(p, i)
              [] OTHER             -> None]

Members(p, s) == {i \in DOMAIN p.cards : SectionOf(p, i) = s}

(* As the page shows them.                                                 *)
Row(p, s) == Sorted(p.cards, Members(p, s))

(* Does the section hold all of its list?                                  *)
Flat(p, s) == p.mode = "az" \/ (p.mode = "source" /\ s.list = "links")

(* Places count from 1 here, the orders that are sent from 0.              *)
Moved(seq, src, dst) == InsertAt(RemoveAt(seq, src), dst, seq[src])

PlaceOf(seq, i) == CHOOSE n \in DOMAIN seq : seq[n] = i

Payload(seq) == [i \in ToSet(seq) |-> PlaceOf(seq, i) - 1]

-----------------------------------------------------------------------------
(* Tasks                                                                   *)

Idle == [pc |-> "idle"]

Free(k) == tasks[k] = Idle

(* What a task has to send: sort orders of a list, and, for the property,  *)
(* the order its user is to see then.                                      *)
Patch(list, orders, want) == [list |-> list, orders |-> orders, want |-> want]

Reorder(list, seq, want) == Patch(list, Payload(seq), want)

Sending(t, queue) == [pc |-> "send", tab |-> t, queue |-> queue]

(* Or what it has to PUT: fields of a row.                                 *)
CardFields(i, g)  == [list |-> ListOf(i), id |-> i, group |-> g]
GroupFields(g, n) == [list |-> "groups", id |-> g, order |-> n]

Updating(t, queue) == [pc |-> "read", tab |-> t, queue |-> queue]

Go(k, x) == tasks' = [tasks EXCEPT ![k] = x]

Refetching(t, lists) == stale' = [stale EXCEPT ![t] = @ \cup lists]

(* The answer to a fetch: a failed one is an empty list.                   *)
Fetched(t, list) == list \in stale[t] /\ stale' = [stale EXCEPT ![t] = @ \ {list}]

RefetchCards(t, list) ==
  LET other == {i \in DOMAIN pages[t].cards : ListOf(i) # list}
      sent  == {i \in DOMAIN cards : ListOf(i) = list}
      With(ids) == [i \in other \cup ids |-> IF i \in ids THEN cards[i] ELSE pages[t].cards[i]]
  IN
  /\ Fetched(t, list)
  /\ \/ pages' = [pages EXCEPT ![t].cards = With(sent)] /\ UNCHANGED faults
     \/ pages' = [pages EXCEPT ![t].cards = With({})] /\ Fault
  /\ UNCHANGED <<tables, drags, tasks, raced, modalVars, acts>>

ListServices(t) == RefetchCards(t, "services")
ListLinks(t)    == RefetchCards(t, "links")

ListGroups(t) ==
  /\ Fetched(t, "groups")
  /\ \/ pages' = [pages EXCEPT ![t].groups = groups] /\ UNCHANGED faults
     \/ pages' = [pages EXCEPT ![t].groups = << >>] /\ Fault
  /\ UNCHANGED <<tables, drags, tasks, raced, modalVars, acts>>

-----------------------------------------------------------------------------
(* Dragging                                                                *)

(* dragstart: the place of the card is kept, not the card.                 *)
DragStart(t, i) ==
  /\ Act
  /\ drags[t] = None /\ i \in DOMAIN pages[t].cards
  /\ LET s == SectionOf(pages[t], i)
     IN  drags' = [drags EXCEPT ![t] = [section |-> s, page |-> pages[t],
                                        src |-> PlaceOf(Row(pages[t], s), i)]]
  /\ UNCHANGED <<tables, view, tasks, raced, modalVars, faults>>

(* Mutant: dropped in another section of the list.                         *)
AnySection(from, to) == from.list = to.list

(* src_sec == dst_sec.  Services and links have signals of their own.      *)
SameSection(from, to) == from = to

(* drop on card i of the page as it is now; dragover, which comes again    *)
(* and again, has kept its place.                                          *)
Dropped(t, i, k) ==
  /\ drags[t] # None /\ i \in DOMAIN pages[t].cards /\ Free(k)
  /\ drags' = [drags EXCEPT ![t] = None]
  /\ LET p   == pages[t]
         d   == drags[t]
         s   == SectionOf(p, i)
         ids == Members(p, s)
         seq == Row(p, s)
         dst == PlaceOf(seq, i)
     IN  \/ /\ SameSection(d.section, s) /\ d.src # dst
            /\ Go(k, [pc |-> "fetch", tab |-> t, list |-> s.list, ids |-> ids,
                      flat |-> Flat(p, s), az |-> FALSE, src |-> d.src, dst |-> dst,
                      seen |-> [j \in ids |-> p.cards[j]],
                      want |-> IF Row(d.page, d.section) = seq THEN Moved(seq, d.src, dst) ELSE None,
                      had  |-> Max({Len(Row(d.page, s)), Len(seq)})])
         \/ ~(SameSection(d.section, s) /\ d.src # dst) /\ UNCHANGED tasks
  /\ UNCHANGED <<tables, view, raced, modalVars, acts, faults>>

(* Where: each has a handler of its own.                                   *)
DropInPage(t, i, k)   == i \in Services /\ pages[t].mode = "az" /\ Dropped(t, i, k)
DropInSource(t, i, k) == i \in Services /\ pages[t].mode = "source" /\ Dropped(t, i, k)
DropInGroup(t, i, k)  == i \in Services /\ pages[t].mode = "group" /\ Dropped(t, i, k)
DropLink(t, i, k)     == i \in Links /\ pages[t].mode # "group" /\ Dropped(t, i, k)
DropGroupLink(t, i, k) == i \in Links /\ pages[t].mode = "group" /\ Dropped(t, i, k)

(* dragend without a drop.                                                 *)
DragEnd(t) ==
  /\ drags[t] # None
  /\ drags' = [drags EXCEPT ![t] = None]
  /\ UNCHANGED <<tables, view, tasks, raced, modalVars, acts, faults>>

(* Mutant: the places are looked up in the list as it was sent.            *)
AsSent(x, ids) == Sent(cards, ids)

(* What the places are looked up in: the fresh list, sorted as the section *)
(* is; but the flat list of links is taken as it was sent.                 *)
Fresh(x, ids) == IF x.flat /\ x.list = "links" THEN Sent(cards, ids) ELSE Sorted(cards, ids)

FreshIds(x) == {i \in DOMAIN cards : ListOf(i) = x.list /\ (x.flat \/ i \in x.ids)}

(* Is what the page showed at the drop what it fetches now?  The flat list *)
(* of links must also have no ties, which are shown by title and fetched   *)
(* by id.                                                                  *)
Unchanged(x) ==
  /\ x.seen = [i \in FreshIds(x) |-> cards[i]]
  /\ (x.flat /\ x.list = "links") => Sent(cards, FreshIds(x)) = Sorted(cards, FreshIds(x))

(* Vec::remove and Vec::insert panic out of bounds.                        *)
InBounds(x, n) == x.src <= n /\ x.dst <= n

(* The fetch of a drop, or of a reset of the whole page: a fetch that      *)
(* fails ends the task, and so does a panic.                               *)
FetchForDrop(k) ==
  LET x   == tasks[k]
      ids == FreshIds(x)
      seq == Fresh(x, ids)
      want == IF Unchanged(x) THEN x.want ELSE None
  IN
  /\ x.pc = "fetch"
  /\ \/ /\ x.az
        /\ Go(k, Sending(x.tab, <<Reorder(x.list, Alphabetic(ids), Alphabetic(ids))>>))
        /\ UNCHANGED faults
     \/ /\ ~x.az /\ InBounds(x, Len(seq))
        /\ Go(k, Sending(x.tab, <<Reorder(x.list, Moved(seq, x.src, x.dst), want)>>))
        /\ UNCHANGED faults
     \/ ~x.az /\ ~InBounds(x, Len(seq)) /\ Go(k, Idle) /\ UNCHANGED faults
     \/ Go(k, Idle) /\ Fault
  /\ UNCHANGED <<tables, view, drags, raced, modalVars, acts>>

(* The button over the page, in the mode that has no sections.             *)
ResetPage(t, k) ==
  /\ Act
  /\ Free(k) /\ pages[t].mode = "az"
  /\ Go(k, [pc |-> "fetch", tab |-> t, list |-> "services", ids |-> {}, flat |-> TRUE, az |-> TRUE])
  /\ UNCHANGED <<tables, view, drags, raced, modalVars, faults>>

(* The button over a section of a source: what is sent was made with the   *)
(* page.                                                                   *)
ResetOf(list, ids) == Reorder(list, Alphabetic(ids), Alphabetic(ids))

ResetSource(t, i, k) ==
  LET p == pages[t]
      s == SectionOf(p, i)
  IN
  /\ Act
  /\ i \in DOMAIN p.cards \cap Services /\ p.mode = "source" /\ Free(k)
  /\ Go(k, Sending(t, <<ResetOf("services", Members(p, s))>>))
  /\ UNCHANGED <<tables, view, drags, raced, modalVars, faults>>

(* The button over a group: its services, if any, and then its links.      *)
ResetGroup(t, i, k) ==
  LET p == pages[t]
      Of(list) == Members(p, [SectionOf(p, i) EXCEPT !.list = list])
      Half(list) == IF Of(list) = {} THEN << >> ELSE <<ResetOf(list, Of(list))>>
  IN
  /\ Act
  /\ i \in DOMAIN p.cards /\ p.mode = "group" /\ Free(k)
  /\ Go(k, Sending(t, Half("services") \o Half("links")))
  /\ UNCHANGED <<tables, view, drags, raced, modalVars, faults>>

(* PATCH reorder, one transaction; then the page fetches the list anew,    *)
(* whatever the answer.                                                    *)
SendOrder(k) ==
  LET x == tasks[k]
      q == Head(x.queue)
  IN
  /\ x.pc = "send"
  /\ \/ /\ cards' = [i \in DOMAIN cards |->
                       IF i \in DOMAIN q.orders THEN [cards[i] EXCEPT !.order = q.orders[i]]
                                                ELSE cards[i]]
        /\ UNCHANGED faults
     \/ Fault /\ UNCHANGED cards
  /\ Go(k, IF Len(x.queue) = 1 THEN Idle ELSE Sending(x.tab, Tail(x.queue)))
  /\ Refetching(x.tab, {q.list})
  /\ UNCHANGED <<groups, used, serial, pages, drags, raced, modalVars, acts>>

-----------------------------------------------------------------------------
(* Cards                                                                   *)

Without(f, i) == [j \in DOMAIN f \ {i} |-> f[j]]

Put(f, i, x) == [j \in DOMAIN f \cup {i} |-> IF j = i THEN x ELSE f[j]]

(* The bin on a card.                                                      *)
Deleted(t, i) ==
  /\ Act
  /\ i \in DOMAIN pages[t].cards
  /\ cards' = Without(cards, i)
  /\ Refetching(t, {ListOf(i)})
  /\ UNCHANGED <<groups, used, serial, pages, drags, tasks, raced, modalVars, faults>>

DeleteService(t, i) == i \in Services /\ Deleted(t, i)
DeleteLink(t, i)    == i \in Links /\ Deleted(t, i)

(* The modals that add one: a group, if any, and no sort_order.  A group   *)
(* that is gone makes it an error.                                         *)
Added(t, i, g) ==
  /\ Act
  /\ i \notin used /\ g \in DOMAIN pages[t].groups \cup {None}
  /\ IF g \in DOMAIN groups \cup {None}
     THEN used' = used \cup {i} /\ cards' = Put(cards, i, [order |-> 0, group |-> g])
     ELSE UNCHANGED <<used, cards>>
  /\ Refetching(t, {ListOf(i)})
  /\ UNCHANGED <<groups, serial, pages, drags, tasks, raced, modalVars, faults>>

AddService(t, i, g) == i \in Services /\ Added(t, i, g)
AddLink(t, i, g)    == i \in Links /\ Added(t, i, g)

(* The modals that edit one: here, its group, or none.                     *)
Edited(t, i, g, k) ==
  /\ Act
  /\ Free(k) /\ i \in DOMAIN pages[t].cards /\ g \in DOMAIN pages[t].groups \cup {None}
  /\ Go(k, Updating(t, <<CardFields(i, g)>>))
  /\ UNCHANGED <<tables, view, drags, raced, modalVars, faults>>

EditService(t, i, g, k) == i \in Services /\ Edited(t, i, g, k)
EditLink(t, i, g, k)    == i \in Links /\ Edited(t, i, g, k)

-----------------------------------------------------------------------------
(* PUT: the row is read, and then written whole.                           *)

(* An answer, whatever it is: the next PUT, or the lists are fetched anew. *)
Answered(k) ==
  LET x == tasks[k]
      list == Head(x.queue).list
  IN
  \/ /\ Len(x.queue) = 1
     /\ Go(k, Idle) /\ Refetching(x.tab, IF list = "groups" THEN Lists ELSE {list})
  \/ Len(x.queue) = 2 /\ Go(k, Updating(x.tab, Tail(x.queue))) /\ UNCHANGED stale

(* The SELECT: of the row its order is all that a PUT may write back.      *)
Selected(k, order) ==
  LET q == Head(tasks[k].queue) IN
  \/ /\ q.id \in DOMAIN order
     /\ Go(k, [pc |-> "write", tab |-> tasks[k].tab, queue |-> tasks[k].queue, row |-> order[q.id]])
     /\ UNCHANGED <<stale, faults>>
  \/ q.id \notin DOMAIN order /\ Answered(k) /\ UNCHANGED faults
  \/ Fault /\ Answered(k)

ReadCard(k) ==
  /\ tasks[k].pc = "read" /\ Head(tasks[k].queue).list # "groups"
  /\ Selected(k, Orders(cards, DOMAIN cards))
  /\ UNCHANGED <<tables, pages, drags, raced, modalVars, acts>>

(* The UPDATE, with the order that was read.                               *)
WriteCard(k) ==
  LET x == tasks[k]
      q == Head(x.queue)
  IN
  /\ x.pc = "write" /\ q.list # "groups"
  /\ \/ /\ cards' = IF q.id \in DOMAIN cards /\ q.group \in DOMAIN groups \cup {None}
                    THEN Put(cards, q.id, [order |-> x.row, group |-> q.group]) ELSE cards
        /\ UNCHANGED faults
     \/ Fault /\ UNCHANGED cards
  /\ Answered(k)
  /\ UNCHANGED <<groups, used, serial, pages, drags, raced, modalVars, acts>>

(* A PUT of an order that fails leaves a move undone by half.              *)
ReadGroup(k) ==
  LET q == Head(tasks[k].queue) IN
  /\ tasks[k].pc = "read" /\ q.list = "groups"
  /\ Selected(k, groups)
  /\ raced' = (raced \/ (faults' # faults /\ q.order # None))
  /\ UNCHANGED <<tables, pages, drags, modalVars, acts>>

(* One without an order writes the order it read, whatever it is by now.   *)
WriteGroup(k) ==
  LET x == tasks[k]
      q == Head(x.queue)
      there == q.id \in DOMAIN groups
  IN
  /\ x.pc = "write" /\ q.list = "groups"
  /\ \/ /\ groups' = IF there THEN Put(groups, q.id, IF q.order = None THEN x.row ELSE q.order)
                              ELSE groups
        /\ raced' = (raced \/ (there /\ q.order = None /\ groups[q.id] # x.row))
        /\ UNCHANGED faults
     \/ Fault /\ raced' = (raced \/ q.order # None) /\ UNCHANGED groups
  /\ Answered(k)
  /\ UNCHANGED <<cards, used, serial, pages, drags, modalVars, acts>>

-----------------------------------------------------------------------------
(* The groups modal                                                        *)

IsMove(x) ==
  x.pc \in {"read", "write"} /\ Head(x.queue).list = "groups" /\ Head(x.queue).order # None

Moving == \E k \in Slots : IsMove(tasks[k])

(* Page t changes groups by the list it has.                               *)
Racing(t) == raced' = (raced \/ Moving \/ pages[t].groups # groups)

(* Mutant: as many as there are.                                           *)
Count(list) == Cardinality(DOMAIN list)

(* One more than the last.                                                 *)
NextOrder(list) == IF DOMAIN list = {} THEN 0 ELSE Max({list[g] : g \in DOMAIN list}) + 1

CreateGroup(t) ==
  /\ Act
  /\ serial < MaxGroup
  /\ groups' = Put(groups, serial + 1, NextOrder(pages[t].groups))
  /\ serial' = serial + 1
  /\ Refetching(t, Lists) /\ Racing(t)
  /\ UNCHANGED <<cards, used, pages, drags, tasks, modalVars, faults>>

(* A new name: no order is sent.                                           *)
RenameGroup(t, g, k) ==
  /\ Act
  /\ Free(k) /\ g \in DOMAIN pages[t].groups
  /\ Go(k, Updating(t, <<GroupFields(g, None)>>))
  /\ UNCHANGED <<tables, view, drags, raced, modalVars, faults>>

(* ON DELETE SET NULL.                                                     *)
DeleteGroup(t, g) ==
  /\ Act
  /\ g \in DOMAIN pages[t].groups
  /\ groups' = Without(groups, g)
  /\ cards' = [i \in DOMAIN cards |->
                 IF cards[i].group = g THEN [cards[i] EXCEPT !.group = None] ELSE cards[i]]
  /\ Refetching(t, Lists)
  /\ UNCHANGED <<used, serial, pages, drags, tasks, raced, modalVars, faults>>

(* Up or down: the group and its neighbour in the list of the page each    *)
(* get the other's order, by a PUT of its own.                             *)
MoveGroup(t, g, k) ==
  LET list == pages[t].groups
      seq  == Ranked(DOMAIN list, list, [a \in DOMAIN list |-> a])
  IN
  /\ Act
  /\ Free(k) /\ g \in DOMAIN list
  /\ \E n \in {PlaceOf(seq, g) - 1, PlaceOf(seq, g) + 1} \cap DOMAIN seq :
       Go(k, Updating(t, <<GroupFields(g, list[seq[n]]), GroupFields(seq[n], list[g])>>))
  /\ Racing(t)
  /\ UNCHANGED <<tables, view, drags, modalVars, faults>>

-----------------------------------------------------------------------------
Apart(list) == \A a, b \in DOMAIN list : list[a] = list[b] => a = b

Init ==
  /\ \E s \in Stored : cards = s.cards /\ groups = s.groups
  /\ used = DOMAIN cards
  /\ serial = Cardinality(DOMAIN groups)
  /\ \E mode \in Modes :
       pages = [t \in Tabs |-> [mode |-> mode[t], cards |-> cards, groups |-> groups]]
  /\ stale = [t \in Tabs |-> {}]
  /\ drags = [t \in Tabs |-> None]
  /\ tasks = [k \in Slots |-> Idle]
  /\ raced = ~Apart(groups)
  /\ ModalInit
  /\ acts = 0 /\ faults = 0

OnCard(t, i) ==
  \/ DragStart(t, i)
  \/ DeleteService(t, i) \/ DeleteLink(t, i)
  \/ \E k \in Slots :
       \/ DropInPage(t, i, k) \/ DropInSource(t, i, k) \/ DropInGroup(t, i, k)
       \/ DropLink(t, i, k) \/ DropGroupLink(t, i, k)
       \/ ResetSource(t, i, k) \/ ResetGroup(t, i, k)
  \/ \E g \in 1..MaxGroup \cup {None} :
       \/ AddService(t, i, g) \/ AddLink(t, i, g)
       \/ \E k \in Slots : EditService(t, i, g, k) \/ EditLink(t, i, g, k)

User(t) ==
  \/ DragEnd(t) \/ CreateGroup(t)
  \/ \E i \in Services \cup Links : OnCard(t, i)
  \/ \E k \in Slots : ResetPage(t, k)
  \/ \E g \in 1..MaxGroup :
       DeleteGroup(t, g) \/ \E k \in Slots : RenameGroup(t, g, k) \/ MoveGroup(t, g, k)

Task(k) ==
  \/ FetchForDrop(k) \/ SendOrder(k)
  \/ ReadCard(k) \/ WriteCard(k) \/ ReadGroup(k) \/ WriteGroup(k)

Next ==
  \/ \E t \in Tabs : User(t) \/ ListServices(t) \/ ListLinks(t) \/ ListGroups(t)
  \/ \E k \in Slots : Task(k)
  \/ ModalAct /\ acts = 0 /\ UNCHANGED <<tables, view, drags, tasks, raced, acts, faults>>
  \/ ModalGoesOn /\ UNCHANGED <<tables, view, drags, tasks, raced, acts, faults>>

Spec == Init /\ [][Next]_vars

-----------------------------------------------------------------------------
(* Properties                                                              *)

(* The cards of a drop that is sent while the page showed what the server  *)
(* has come to stand as the page showed them, with the dragged one in its  *)
(* new place; the cards of a reset from A to Z: whoever else changes what  *)
(* meanwhile (service_grid.rs:313, group_section.rs:253).                  *)
DropLands ==
  [][\A k \in Slots :
       LET x    == tasks[k]
           q    == Head(x.queue)
           left == DOMAIN q.orders \cap DOMAIN cards
           Wanted == Ranked(left, [i \in left |-> PlaceOf(q.want, i)], Title)
       IN  x.pc = "send" /\ tasks'[k] # x /\ q.want # None /\ faults' = faults =>
             Sorted(cards', left) = Wanted]_vars

(* A drop panics only when the section it fetches has fewer cards than the *)
(* page had in it as the drag began or as it ended (service_grid.rs:315).  *)
PanicOnlyIfShrunk ==
  [][\A k \in Slots :
       LET x == tasks[k] IN
       x.pc = "fetch" /\ tasks'[k] = Idle /\ faults' = faults =>
         Cardinality(FreshIds(x)) < x.had]_vars

(* No two groups have one order, or moving them would do nothing.  It is   *)
(* so as long as none had at first, no PUT of a move has failed, no page   *)
(* has changed the groups by a list that was not theirs, and no PUT of a   *)
(* name has written back an order that was moved after the PUT had read it *)
(* (modal_groups.rs:83, 136; groups.rs:172).                               *)
GroupsDistinct == ~raced /\ ~Moving => Apart(groups)
=============================================================================
