-------------------------------- MODULE Carts --------------------------------
(***************************************************************************)
(* From the menu to a priced order.                                        *)
(*                                                                         *)
(* A guest's page is drawn from the menu once and its cart survives in the *)
(* browser; the counter reads the menu again now and then. Either fills a  *)
(* cart from the copy it has, through a sheet that applies the rules of a  *)
(* dish's modifier groups, and sends ids and quantities. The server prices *)
(* them from the live menu, which staff may be editing: it reads the       *)
(* products, then in a statement of its own their groups, and inserts the  *)
(* order, whose foreign keys want every product and option still there.    *)
(*                                                                         *)
(* A save of the product form replaces the groups, with new ids, so an id  *)
(* is a choice together with the edit that wrote it. One group a dish      *)
(* stands for up to ten, whose rules are applied one by one. Two notes on  *)
(* one choice make two lines, which differ in nothing else.                *)
(***************************************************************************)
EXTENDS Naturals, FiniteSets

CONSTANTS
    Dishes,
    Extras,        \* names of options
    Prices,         \* effective prices
    Nothing,        \* no row, no sheet
    MaxQuantity,    \* of one line; 99 in cartItemSchema
    MaxOptions,     \* of one line; 20 in cartItemSchema
    MaxLines,       \* of an order; 60 in createPublicOrderSchema
    MaxEdits        \* bounds the edits of the menu

ASSUME CartAssumption ==
    /\ Prices \subseteq Nat /\ Prices # {}
    /\ IsFiniteSet(Extras) /\ Extras # {}
    /\ MaxQuantity \in Nat \ {0} /\ MaxOptions \in Nat /\ MaxLines \in Nat /\ MaxEdits \in Nat

VARIABLES
    menu,           \* the rows of products, or Nothing
    edits,          \* edits so far
    shopper,        \* "guest" or "counter"
    view,           \* the menu the shopper's page holds
    sheet,          \* ProductSheet or ModifierPicker
    cart,           \* the lines in the browser
    ordering        \* the POST that is under way

cartVars == <<menu, edits, shopper, view, sheet, cart, ordering>>

-----------------------------------------------------------------------------
\* What modifierGroupSchema lets through.
NoGroup == [single |-> FALSE, required |-> FALSE, min |-> 0, max |-> 0, options |-> {}, offered |-> {}]
Groups == {NoGroup} \cup
    {g \in [single: BOOLEAN, required: BOOLEAN, min: 0 .. Cardinality(Extras), max: 0 .. Cardinality(Extras),
            options: (SUBSET Extras) \ {{}}, offered: SUBSET Extras] :
        /\ g.offered \subseteq g.options
        /\ g.min <= g.max /\ g.max <= Cardinality(g.options)
        /\ g.single => g.max <= 1
        /\ g.required => g.min >= 1}

\* "Pick one", with everything on offer.
OneOf(extras) == [single |-> TRUE, required |-> TRUE, min |-> 1, max |-> 1, options |-> extras, offered |-> extras]

Dish == [price: Prices, available: BOOLEAN, edition: 0 .. MaxEdits, group: Groups]

Ids(edition, extras) == {edition} \X extras
LiveIds(row) == Ids(row.edition, row.group.options)

\* An option's surcharge is the number of the edit that wrote it, so that a
\* line priced by two versions of the menu is told from any other.
UnitPrice(row, ids) == row.price + row.edition * Cardinality(ids)

Fewest(g) == IF g.required /\ g.min = 0 THEN 1 ELSE g.min
Most(g) == IF g.single THEN 1 ELSE g.max

-----------------------------------------------------------------------------
\* The menu, as staff edit it.

\* ProductsService.update() with modifierGroups, as the product form always
\* sends them; it may be a form that was opened before another change.
SaveProduct(d) ==
    /\ menu[d] # Nothing /\ edits < MaxEdits
    /\ edits' = edits + 1
    /\ \E p \in Prices, a \in BOOLEAN, g \in {menu[d].group, NoGroup, OneOf(Extras)} :
         menu' = [menu EXCEPT ![d] = [price |-> p, available |-> a, edition |-> edits + 1, group |-> g]]
    /\ UNCHANGED <<shopper, view, sheet, cart, ordering>>

\* update() without them.
PatchProduct(d) ==
    /\ menu[d] # Nothing /\ edits < MaxEdits
    /\ edits' = edits + 1
    /\ \E p \in Prices, a \in BOOLEAN : menu' = [menu EXCEPT ![d].price = p, ![d].available = a]
    /\ UNCHANGED <<shopper, view, sheet, cart, ordering>>

SetAvailability(d) ==
    /\ menu[d] # Nothing /\ edits < MaxEdits
    /\ edits' = edits + 1
    /\ menu' = [menu EXCEPT ![d].available = ~@]
    /\ UNCHANGED <<shopper, view, sheet, cart, ordering>>

RemoveProduct(d) ==
    /\ menu[d] # Nothing /\ edits < MaxEdits
    /\ edits' = edits + 1
    /\ menu' = [menu EXCEPT ![d] = Nothing]
    /\ UNCHANGED <<shopper, view, sheet, cart, ordering>>

-----------------------------------------------------------------------------
\* The page.

NoOrder == [stage |-> "idle"]

\* The shopper waits for the answer: what is done to the cart meanwhile is
\* cleared with it, or could as well be done afterwards.
Browses == ordering = NoOrder

\* The guest's page is opened again: the cart comes back from localStorage. The
\* counter's page keeps its ticket in memory only.
ReopenPage ==
    /\ Browses
    /\ view' = menu /\ sheet' = Nothing
    /\ cart' = IF shopper = "guest" THEN cart ELSE {}
    /\ UNCHANGED <<menu, edits, shopper, ordering>>

\* The query "pos-menu" goes stale after a minute; the sheet keeps its row.
Refetch ==
    /\ Browses
    /\ shopper = "counter"
    /\ view' = menu
    /\ UNCHANGED <<menu, edits, shopper, sheet, cart, ordering>>

\* The option on offer that a required single choice starts with, if there is one.
\* Mutant: one that is not on offer may be picked, too.
PreselectAny(row) ==
    IF row.group.single /\ row.group.required THEN {{id} : id \in LiveIds(row)} ELSE {{}}
Preselect(row) ==
    LET offered == Ids(row.edition, row.group.offered)
    IN  IF row.group.single /\ row.group.required /\ offered # {} THEN {{id} : id \in offered} ELSE {{}}

\* ModifierPicker stays mounted: for the dish it last showed it keeps what was
\* picked, group by group. ProductSheet starts afresh.
Kept(d) == shopper = "counter" /\ sheet # Nothing /\ sheet.dish = d

NeedsChoice(row) == row.group.required \/ row.group.min > 0
Closed == sheet # Nothing => ~sheet.open

OpenSheet(d) ==
    /\ Browses
    /\ Closed
    /\ view[d] # Nothing /\ view[d].available
    /\ shopper = "counter" => NeedsChoice(view[d])
    /\ \E picks \in IF Kept(d) THEN {sheet.picks \cap LiveIds(view[d])} ELSE Preselect(view[d]) :
         sheet' = [open |-> TRUE, dish |-> d, row |-> view[d], picks |-> picks]
    /\ UNCHANGED <<menu, edits, shopper, view, cart, ordering>>

Toggle(id) ==
    /\ Browses
    /\ ~Closed
    /\ id \in Ids(sheet.row.edition, sheet.row.group.offered)
    /\ sheet' = [sheet EXCEPT !.picks =
         IF sheet.row.group.single THEN {id} ELSE IF id \in @ THEN @ \ {id} ELSE @ \cup {id}]
    /\ UNCHANGED <<menu, edits, shopper, view, cart, ordering>>

Put(away) == IF shopper = "guest" THEN Nothing ELSE [away EXCEPT !.open = FALSE]

CloseSheet ==
    /\ Browses
    /\ ~Closed
    /\ sheet' = Put(sheet)
    /\ UNCHANGED <<menu, edits, shopper, view, cart, ordering>>

\* cart.add() and addProduct(): a choice that is in the cart already keeps the
\* price it came with. "seen" is the row the choice was made from. Mutant: the cart
\* does not cap a line.
Uncapped(n) == n
Capped(n) == IF n > MaxQuantity THEN MaxQuantity ELSE n
Added(d, row, ids, n) ==
    IF \E l \in cart : l.dish = d /\ l.ids = ids
      THEN {IF l.dish = d /\ l.ids = ids THEN [l EXCEPT !.quantity = Capped(@ + n)] ELSE l : l \in cart}
      ELSE cart \cup {[dish |-> d, ids |-> ids, unit |-> UnitPrice(row, ids), quantity |-> n, seen |-> row]}

SheetValid(g, count) == Fewest(g) <= count /\ count <= Most(g)

\* The button of the sheet; the counter's adds one. Neither page counts the
\* lines of its cart, or the options of a line over all the groups of the dish;
\* one line more than an order may have stands for all of them.
AddFromSheet ==
    /\ Browses
    /\ ~Closed
    /\ SheetValid(sheet.row.group, Cardinality(sheet.picks))
    /\ \E n \in 1 .. MaxQuantity :
         /\ shopper = "counter" => n = 1
         /\ cart' = Added(sheet.dish, sheet.row, sheet.picks, n)
    /\ Cardinality(cart') <= MaxLines + 1
    /\ sheet' = Put(sheet)
    /\ UNCHANGED <<menu, edits, shopper, view, ordering>>

\* The counter takes a dish that needs no choice with one click.
AddAtOnce(d) ==
    /\ Browses
    /\ shopper = "counter" /\ Closed
    /\ view[d] # Nothing /\ view[d].available /\ ~NeedsChoice(view[d])
    /\ cart' = Added(d, view[d], {}, 1)
    /\ Cardinality(cart') <= MaxLines + 1
    /\ UNCHANGED <<menu, edits, shopper, view, sheet, ordering>>

\* setQuantity(): the counter's is not capped; one beyond stands for all.
SetQuantity(l) ==
    /\ Browses
    /\ \E n \in {l.quantity - 1, l.quantity + 1} :
         /\ n <= MaxQuantity + 1
         /\ cart' = IF n = 0 THEN cart \ {l}
                    ELSE (cart \ {l}) \cup {[l EXCEPT !.quantity = IF shopper = "guest" THEN Capped(n) ELSE n]}
    /\ UNCHANGED <<menu, edits, shopper, view, sheet, ordering>>

-----------------------------------------------------------------------------
\* The order. Everything of OrdersService.create() but the pricing is left out,
\* and may fail.

SendCart ==
    /\ Browses /\ cart # {}
    /\ ordering' = [stage |-> "sent", lines |-> cart]
    /\ UNCHANGED <<menu, edits, shopper, view, sheet, cart>>

Answered(to) == ordering' = [stage |-> to]

\* cartItemSchema, and the limit on the items of an order.
FitsSchema(lines) ==
    /\ Cardinality(lines) <= MaxLines
    /\ \A l \in lines : l.quantity <= MaxQuantity /\ Cardinality(l.ids) <= MaxOptions

\* The body is parsed; then the SELECT of the products and the checks on them.
ReadProducts ==
    /\ ordering.stage = "sent"
    /\ IF /\ FitsSchema(ordering.lines)
          /\ \A l \in ordering.lines : menu[l.dish] # Nothing /\ menu[l.dish].available
         THEN ordering' = [stage |-> "found", lines |-> ordering.lines, rows |-> menu]
         ELSE Answered("refused")
    /\ UNCHANGED <<menu, edits, shopper, view, sheet, cart>>

\* The groups and options found for a dish: none when it is gone by now.
FoundGroup(d) == IF menu[d] = Nothing THEN NoGroup ELSE menu[d].group
FoundIds(d) == IF menu[d] = Nothing THEN {} ELSE LiveIds(menu[d])

\* Mutant: the options are counted and nobody looks whose they are.
AcceptsForeign(l) ==
    LET g == FoundGroup(l.dish)
    IN  Fewest(g) <= Cardinality(l.ids) /\ Cardinality(l.ids) <= Most(g)

Accepts(l) ==
    LET g == FoundGroup(l.dish)
    IN  /\ l.ids \subseteq FoundIds(l.dish)
        /\ \A id \in l.ids : id[2] \in g.offered
        /\ Fewest(g) <= Cardinality(l.ids) /\ Cardinality(l.ids) <= Most(g)

\* The price is of the first SELECT, the surcharges are of this one.
Charge(l) ==
    ordering.rows[l.dish].price
        + (IF l.ids = {} THEN 0 ELSE menu[l.dish].edition * Cardinality(l.ids))

ReadGroups ==
    /\ ordering.stage = "found"
    /\ IF \A l \in ordering.lines : Accepts(l)
         THEN ordering' = [stage |-> "priced", lines |-> ordering.lines, first |-> ordering.rows, second |-> menu,
                           charge |-> [l \in ordering.lines |-> Charge(l)]]
         ELSE Answered("refused")
    /\ UNCHANGED <<menu, edits, shopper, view, sheet, cart>>

\* order.create(): a product or an option that was deleted meanwhile breaks a
\* foreign key and the transaction.
InsertOrder ==
    /\ ordering.stage = "priced"
    /\ IF \A l \in ordering.lines : menu[l.dish] # Nothing /\ l.ids \subseteq LiveIds(menu[l.dish])
         THEN Answered("placed")
         ELSE Answered("refused")
    /\ UNCHANGED <<menu, edits, shopper, view, sheet, cart>>

\* Any other step of create(), or the way there.
OrderFails ==
    /\ ordering.stage \in {"sent", "found", "priced"}
    /\ Answered("failed")
    /\ UNCHANGED <<menu, edits, shopper, view, sheet, cart>>

\* The answer arrives. clear() takes what was added since as well.
TakeAnswer ==
    /\ ordering.stage \in {"placed", "refused", "failed"}
    /\ cart' = IF ordering.stage = "placed" THEN {} ELSE cart
    /\ ordering' = NoOrder
    /\ UNCHANGED <<menu, edits, shopper, view, sheet>>

\* Or it does not, and the page knows nothing of the order.
AnswerLost ==
    /\ ordering.stage \in {"placed", "refused"}
    /\ ordering' = NoOrder
    /\ UNCHANGED <<menu, edits, shopper, view, sheet, cart>>

-----------------------------------------------------------------------------
\* To begin with a group has every choice, and none, one or all on offer. A
\* group of many that asks for one at least is the same, required or not.
Least(S) == CHOOSE x \in S : \A y \in S : x <= y
StartGroups ==
    {NoGroup} \cup
    {g \in Groups :
        /\ g.options = Extras /\ g.offered \in {{}, {CHOOSE c \in Extras : TRUE}, Extras}
        /\ g.max > 0 /\ (g.required \/ g.single \/ g.min = 0)}

CartInit ==
    /\ menu \in [Dishes -> [price: {Least(Prices)}, available: {TRUE}, edition: {0}, group: StartGroups]]
    /\ edits = 0
    /\ shopper \in {"guest", "counter"}
    /\ view = menu
    /\ sheet = Nothing
    /\ cart = {}
    /\ ordering = NoOrder

CartNext ==
    \/ \E d \in Dishes :
         SaveProduct(d) \/ PatchProduct(d) \/ SetAvailability(d) \/ RemoveProduct(d) \/ OpenSheet(d) \/ AddAtOnce(d)
    \/ \E id \in (0 .. MaxEdits) \X Extras : Toggle(id)
    \/ \E l \in cart : SetQuantity(l)
    \/ ReopenPage \/ Refetch \/ CloseSheet \/ AddFromSheet
    \/ SendCart \/ ReadProducts \/ ReadGroups \/ InsertOrder \/ OrderFails \/ TakeAnswer \/ AnswerLost

CartSpec == CartInit /\ [][CartNext]_cartVars

-----------------------------------------------------------------------------
Line == [dish: Dishes, ids: SUBSET ((0 .. MaxEdits) \X Extras), unit: Nat, quantity: 1 .. MaxQuantity + 1, seen: Dish]

\* Type invariant. An open sheet speaks of ids of its own row; a guest's line
\* never exceeds what the server takes.
CartTypeOK ==
    /\ menu \in [Dishes -> Dish \cup {Nothing}]
    /\ edits \in 0 .. MaxEdits
    /\ view \in [Dishes -> Dish \cup {Nothing}]
    /\ sheet # Nothing => sheet.dish \in Dishes /\ sheet.row \in Dish /\ sheet.picks \subseteq LiveIds(sheet.row)
    /\ cart \subseteq Line
    /\ shopper = "guest" => \A l \in cart : l.quantity <= MaxQuantity

\* What the sheet lets through the server takes, and at the price it showed,
\* but for the sizes no sheet counts: an order is refused only when some line was
\* chosen from a row that staff have changed since, or when there is more of
\* something than the body of a request may hold (lines of an order, portions or
\* options of a line); and a line is charged its estimate unless its row had
\* changed when it was read.
Stale(l) == menu[l.dish] # l.seen
CartIsHonoured ==
    [][/\ ordering.stage # "refused" /\ ordering'.stage = "refused" =>
            \/ \E l \in ordering.lines :
                  Stale(l) \/ l.quantity > MaxQuantity \/ Cardinality(l.ids) > MaxOptions
            \/ Cardinality(ordering.lines) > MaxLines
       /\ ordering.stage = "found" /\ ordering'.stage = "priced" =>
            \A l \in ordering.lines : ordering.rows[l.dish] = l.seen => ordering'.charge[l] = l.unit]_cartVars

\* "a stale or edited cart can never change what the customer is charged"
\* (cart.tsx:47): although price and surcharges are read in two statements with
\* saves in between, every line is charged what one of the two menus read asks
\* for these options.
OneMenuPrices ==
    ordering.stage = "priced" =>
        \A l \in ordering.lines :
            \E m \in {ordering.first, ordering.second} :
                /\ m[l.dish] # Nothing
                /\ l.ids \subseteq LiveIds(m[l.dish])
                /\ ordering.charge[l] = UnitPrice(m[l.dish], l.ids)

=============================================================================
