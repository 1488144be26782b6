------------------------------- MODULE Cards --------------------------------
(***************************************************************************)
(* The page of cards: neobank/CardSecurityHub.tsx (limits, switches,       *)
(* freezing, virtual cards) and the preview in it, DigitalCardPreview.tsx. *)
(*                                                                         *)
(* Cards live in the browser: a list, a copy of every card by id, and the  *)
(* list again in localStorage, which the tabs of a browser share and write *)
(* over.  The preview keeps a state of its own, set when it is mounted and *)
(* not when another card is chosen.                                        *)
(***************************************************************************)
EXTENDS Integers, FiniteSets, Functions

CONSTANTS Tab,
          MaxCard,     \* bound: ids of cards; 1 and 2 are the physical ones
          Limits,      \* settings of the sliders; "low" when a card is new
          HideAfter,   \* ticks until what is revealed is hidden
          MaxReveals   \* bound: times a tab reveals

Physical == {1, 2}
Card == [id : 1..MaxCard, isFrozen : BOOLEAN, limit : Limits]
NoCard == 0

DEFAULT_CARDS == {[id |-> i, isFrozen |-> FALSE, limit |-> "low"] : i \in Physical}

VARIABLES
    saved,      \* localStorage; {}: nothing
    nextId,
    cardsList, cardStates, selectedCardId, confirmDeleteCardId, \* of each tab
    isFrozen, showDetails, timers, \* the preview of each tab
    shownFor,   \* history: ticks the details have been shown for
    reveals     \* how often a tab revealed

hub == <<cardsList, cardStates, selectedCardId, confirmDeleteCardId>>
preview == <<isFrozen, showDetails, timers, shownFor, reveals>>
vars == <<saved, nextId, hub, preview>>

TypeOK ==
    /\ saved \subseteq Card
    /\ nextId \in 3..(MaxCard + 1)
    /\ \A t \in Tab :
         /\ cardsList[t] \subseteq Card /\ Range(cardStates[t]) \subseteq Card
         /\ selectedCardId[t] \in DOMAIN cardStates[t]
         /\ confirmDeleteCardId[t] \in 0..MaxCard
         /\ isFrozen[t] \in BOOLEAN /\ showDetails[t] \in BOOLEAN
         /\ timers[t] \subseteq 0..HideAfter

ById(cards) == [i \in {c.id : c \in cards} |-> CHOOSE c \in cards : c.id = i]
First(cards) == CHOOSE i \in {c.id : c \in cards} : \A c \in cards : i <= c.id

Init ==
    /\ saved = {} /\ nextId = 3
    /\ cardsList = [t \in Tab |-> DEFAULT_CARDS]
    /\ cardStates = [t \in Tab |-> ById(DEFAULT_CARDS)]
    /\ selectedCardId = [t \in Tab |-> 1]
    /\ confirmDeleteCardId = [t \in Tab |-> NoCard]
    /\ isFrozen = [t \in Tab |-> FALSE]
    /\ showDetails = [t \in Tab |-> FALSE]
    /\ timers = [t \in Tab |-> {}]
    /\ shownFor = [t \in Tab |-> 0]
    /\ reveals = [t \in Tab |-> 0]

CurrentCard(t) == cardStates[t][selectedCardId[t]]
Selectable(t) == {c.id : c \in cardsList[t]}

-----------------------------------------------------------------------------
(* The page is opened again: the state is read from localStorage.          *)
Reload(t) ==
    LET cards == IF saved = {} THEN DEFAULT_CARDS ELSE saved
    IN  /\ cardsList' = [cardsList EXCEPT ![t] = cards]
        /\ cardStates' = [cardStates EXCEPT ![t] = ById(cards)]
        /\ selectedCardId' = [selectedCardId EXCEPT ![t] = First(cards)]
        /\ confirmDeleteCardId' = [confirmDeleteCardId EXCEPT ![t] = NoCard]
        /\ isFrozen' = [isFrozen EXCEPT ![t] = ById(cards)[First(cards)].isFrozen]
        /\ showDetails' = [showDetails EXCEPT ![t] = FALSE]
        /\ timers' = [timers EXCEPT ![t] = {}]
        /\ shownFor' = [shownFor EXCEPT ![t] = 0]
        /\ UNCHANGED <<saved, nextId, reveals>>

(* The list is set and written; another tab is not told.                   *)
SaveCards(t, cards) ==
    /\ cardsList' = [cardsList EXCEPT ![t] = cards]
    /\ saved' = cards

(* Mutant: only the list is updated.                                       *)
UpdateCurrentCard_ListOnly(t, c) ==
    /\ SaveCards(t, {d \in cardsList[t] : d.id # selectedCardId[t]} \cup {c})
    /\ UNCHANGED cardStates
UpdateCurrentCard(t, c) ==
    /\ cardStates' = [cardStates EXCEPT ![t][selectedCardId[t]] = c]
    /\ SaveCards(t, {d \in cardsList[t] : d.id # selectedCardId[t]} \cup {c})

(* The sliders and the switches.                                           *)
Updates(c) ==
    {[c EXCEPT !.limit = l] : l \in Limits \ {c.limit}} \cup {[c EXCEPT !.isFrozen = ~c.isFrozen]}

ChangeSetting(t) ==
    /\ \E c \in Updates(CurrentCard(t)) : UpdateCurrentCard(t, c)
    /\ UNCHANGED <<nextId, selectedCardId, confirmDeleteCardId, preview>>

SelectCard(t) ==
    /\ \E i \in Selectable(t) : selectedCardId' = [selectedCardId EXCEPT ![t] = i]
    /\ confirmDeleteCardId' = [confirmDeleteCardId EXCEPT ![t] = NoCard]
    /\ UNCHANGED <<saved, nextId, cardsList, cardStates, preview>>

HandleGenerateVirtualCard(t) ==
    LET c == [id |-> nextId, isFrozen |-> FALSE, limit |-> "low"]
    IN  /\ nextId <= MaxCard
        /\ nextId' = nextId + 1
        /\ SaveCards(t, cardsList[t] \cup {c})
        /\ cardStates' = [cardStates EXCEPT ![t] = [i \in DOMAIN @ \cup {c.id} |-> IF i = c.id THEN c ELSE @[i]]]
        /\ selectedCardId' = [selectedCardId EXCEPT ![t] = c.id]
        /\ confirmDeleteCardId' = [confirmDeleteCardId EXCEPT ![t] = NoCard]
        /\ UNCHANGED preview

Deletable(c) == c.id \notin Physical

(* The first press asks.                                                   *)
AskToDelete(t) ==
    /\ Deletable(CurrentCard(t))
    /\ confirmDeleteCardId[t] # selectedCardId[t]
    /\ confirmDeleteCardId' = [confirmDeleteCardId EXCEPT ![t] = selectedCardId[t]]
    /\ UNCHANGED <<saved, nextId, cardsList, cardStates, selectedCardId, preview>>

CancelDelete(t) ==
    /\ confirmDeleteCardId[t] # NoCard
    /\ confirmDeleteCardId' = [confirmDeleteCardId EXCEPT ![t] = NoCard]
    /\ UNCHANGED <<saved, nextId, cardsList, cardStates, selectedCardId, preview>>

(* Mutant: the card deleted stays selected.                                *)
HandleDeleteVirtualCard_Keep(t) ==
    LET id == selectedCardId[t]
    IN  /\ Deletable(CurrentCard(t)) /\ confirmDeleteCardId[t] = id
        /\ SaveCards(t, {c \in cardsList[t] : c.id # id})
        /\ cardStates' = [cardStates EXCEPT ![t] = [i \in DOMAIN @ \ {id} |-> @[i]]]
        /\ confirmDeleteCardId' = [confirmDeleteCardId EXCEPT ![t] = NoCard]
        /\ UNCHANGED <<nextId, selectedCardId, preview>>
HandleDeleteVirtualCard(t) ==
    LET id == selectedCardId[t]
        rest == {c \in cardsList[t] : c.id # id}
    IN  /\ Deletable(CurrentCard(t)) /\ confirmDeleteCardId[t] = id
        /\ SaveCards(t, rest)
        /\ cardStates' = [cardStates EXCEPT ![t] = [i \in DOMAIN @ \ {id} |-> @[i]]]
        /\ selectedCardId' = [selectedCardId EXCEPT ![t] = IF rest = {} THEN 1 ELSE First(rest)]
        /\ confirmDeleteCardId' = [confirmDeleteCardId EXCEPT ![t] = NoCard]
        /\ UNCHANGED <<nextId, preview>>

-----------------------------------------------------------------------------
(* The preview.                                                            *)

HandleToggleFreeze(t) ==
    /\ isFrozen' = [isFrozen EXCEPT ![t] = ~@]
    /\ UpdateCurrentCard(t, [CurrentCard(t) EXCEPT !.isFrozen = ~isFrozen[t]])
    /\ UNCHANGED <<nextId, selectedCardId, confirmDeleteCardId, showDetails, timers, shownFor, reveals>>

(* The timers of earlier times are not cancelled.                          *)
HandleToggleDetails(t) ==
    /\ reveals[t] < MaxReveals \/ showDetails[t]
    /\ reveals' = [reveals EXCEPT ![t] = IF showDetails[t] THEN @ ELSE @ + 1]
    /\ showDetails' = [showDetails EXCEPT ![t] = ~@]
    /\ timers' = [timers EXCEPT ![t] = IF showDetails[t] THEN @ ELSE @ \cup {HideAfter}]
    /\ shownFor' = [shownFor EXCEPT ![t] = 0]
    /\ UNCHANGED <<saved, nextId, hub, isFrozen>>

AutoHide(t) ==
    /\ 0 \in timers[t]
    /\ timers' = [timers EXCEPT ![t] = @ \ {0}]
    /\ showDetails' = [showDetails EXCEPT ![t] = FALSE]
    /\ shownFor' = [shownFor EXCEPT ![t] = 0]
    /\ UNCHANGED <<saved, nextId, hub, isFrozen, reveals>>

(* Time passes up to the next timer.                                       *)
Tick ==
    /\ \E t \in Tab : timers[t] # {} \/ showDetails[t]
    /\ \A t \in Tab : 0 \notin timers[t]
    /\ timers' = [t \in Tab |-> {k - 1 : k \in timers[t]}]
    /\ shownFor' = [t \in Tab |-> IF showDetails[t] /\ shownFor[t] <= HideAfter
                                  THEN shownFor[t] + 1 ELSE shownFor[t]]
    /\ UNCHANGED <<saved, nextId, hub, isFrozen, showDetails, reveals>>

-----------------------------------------------------------------------------
Next ==
    \/ \E t \in Tab :
         \/ Reload(t) \/ ChangeSetting(t) \/ SelectCard(t) \/ HandleGenerateVirtualCard(t)
         \/ AskToDelete(t) \/ CancelDelete(t) \/ HandleDeleteVirtualCard(t)
         \/ HandleToggleFreeze(t) \/ HandleToggleDetails(t) \/ AutoHide(t)
    \/ Tick

Spec == Init /\ [][Next]_vars

-----------------------------------------------------------------------------
(* The list, which the tabs to choose from come from and which is saved,   *)
(* and the cards by id, which the controls show, hold the same cards.      *)
CopiesAgree == \A t \in Tab : cardStates[t] = ById(cardsList[t])

(* A card can only be deleted by confirming while it is displayed.         *)
AskedAboutShown ==
    \A t \in Tab : confirmDeleteCardId[t] \in {NoCard, selectedCardId[t]}

(* Whatever the tabs do to each other's lists, the physical cards stay.    *)
PhysicalCardsStay ==
    /\ saved # {} => Physical \subseteq {c.id : c \in saved}
    /\ \A t \in Tab : Physical \subseteq Selectable(t)

(* Details are hidden in time, also when they are hidden and revealed      *)
(* again.                                                                  *)
HiddenInTime == \A t \in Tab : shownFor[t] <= HideAfter
=============================================================================
