--------------------------- MODULE QuietHoursPage ---------------------------
(***************************************************************************)
(* The Quiet hours page: a form filled from the account, saved or cleared, *)
(* and filled again from the answer.                                       *)
(***************************************************************************)
EXTENDS AccountApi

VARIABLE quietPage  \* the component's useState values

Forms == Windows \cup {Malformed}

\* form stands for start, end and tz; the error message is left out, it is only
\* shown.  History: edited, the user has changed the form since it was filled;
\* seen, the setting it was filled from, if any was; foreign, another client has
\* saved since the server last answered this page.
QuietState ==
    [form: Forms, busy: BOOLEAN,
     flash: {"none", "saved", "cleared"}, loadState: {"loading", "ready"},
     edited: BOOLEAN, seen: SUBSET Windows, foreign: BOOLEAN]

\* useState('') for start and end, 'UTC' for tz.
QuietFresh ==
    [form |-> Off, busy |-> FALSE, flash |-> "none",
     loadState |-> "loading", edited |-> FALSE, seen |-> {},
     foreign |-> FALSE]

QuietMeCall == [page |-> "quiet-hours", op |-> "me"]
SaveCall(w, clear) ==
    [page |-> "quiet-hours", op |-> "save", window |-> w, clear |-> clear,
     seen |-> quietPage.seen]

Filled(page, w) == [page EXCEPT !.form = w, !.edited = FALSE, !.seen = {w}]

\* The form is rendered once the load has settled, with whatever it brought.
QuietLoaded(s) ==
    /\ net[s].call.op = "me"
    /\ LET page == [quietPage EXCEPT !.loadState = "ready"]
           a    == net[s].answer
       IN  quietPage' = IF a.status = 200 THEN Filled(page, a.window) ELSE page

EditForm(w) ==
    /\ quietPage.loadState = "ready"
    /\ quietPage.form # w
    /\ quietPage' = [quietPage EXCEPT !.form = w, !.edited = TRUE]
    /\ UNCHANGED net

\* What a click on Save or Clear may send.  Clear empties the bounds and keeps
\* the tz of the form, which may be the malformed part of it.
Sent(clear) ==
    IF ~clear THEN {quietPage.form}
    ELSE IF quietPage.form = Malformed THEN {Off, Malformed} ELSE {Off}

Saving == [quietPage EXCEPT !.busy = TRUE, !.flash = "none"]

\* Mutant: the form is rendered while the account is still being loaded.
SaveWhileLoading(clear) ==
    /\ ~quietPage.busy /\ HasRoom
    /\ quietPage' = Saving
    /\ \E w \in Sent(clear) : net' = Send(net, {SaveCall(w, clear)})

Save(clear) ==
    /\ quietPage.loadState = "ready" /\ ~quietPage.busy
    /\ HasRoom
    /\ quietPage' = Saving
    /\ \E w \in Sent(clear) : net' = Send(net, {SaveCall(w, clear)})

\* Mutant: the answer does not fill the form again.
SavedKeepsForm(s) ==
    /\ net[s].call.op = "save"
    /\ LET page == [quietPage EXCEPT !.busy = FALSE]
           r    == net[s]
       IN  quietPage' =
               IF r.answer.status = 200
               THEN [page EXCEPT !.flash = IF r.call.clear THEN "cleared" ELSE "saved",
                                 !.edited = FALSE]
               ELSE page

\* What was typed while the save was underway is lost.
Saved(s) ==
    /\ net[s].call.op = "save"
    /\ LET page == [quietPage EXCEPT !.busy = FALSE]
           r    == net[s]
       IN  quietPage' =
               IF r.answer.status = 200
               THEN [Filled(page, r.answer.window) EXCEPT
                        !.flash = IF r.call.clear THEN "cleared" ELSE "saved"]
               ELSE page

QuietAnswered(s) ==
    /\ FromPage(s, "quiet-hours") /\ Answered(s)
    /\ QuietLoaded(s) \/ Saved(s)
    /\ net' = Done(s)

\* History, while the page is mounted: the server has handled request s, or
\* another client has saved.
QuietServed(s) ==
    quietPage' = [quietPage EXCEPT !.foreign =
        IF FromPage(s, "quiet-hours") /\ net'[s].answer.status = 200 THEN FALSE
        ELSE @ \/ window' # window]

QuietOvertaken == quietPage' = [quietPage EXCEPT !.foreign = TRUE]

QuietUser ==
    \/ \E clear \in BOOLEAN : Save(clear)
    \/ \E w \in Forms : EditForm(w)

-----------------------------------------------------------------------------
\* After a save or a clear, and until the form is edited or another client
\* saves, the form shows what the server stores.
FlashIsTrue ==
    quietPage.flash # "none" /\ ~quietPage.edited /\ ~quietPage.foreign
        => quietPage.form = window

\* A save never replaces a setting its user was not shown, except one another
\* client wrote meanwhile, or when loading the form had failed.
OverwritesOnlyWhatWasShown ==
    [][\A s \in Slots :
          QuietHours(s) /\ FromPage(s, "quiet-hours") /\ window' # window
          /\ ~quietPage.foreign /\ faults = 0
            => window \in net[s].call.seen]_<<net, window>>
=============================================================================
