--------------------------- MODULE Settings ---------------------------
(* The settings page of the operators, the table app_settings, and those who *)
(* read it: the pay pages, which show the bank details to pay to, with the   *)
(* process's environment as fallback.                                        *)
EXTENDS Naturals, FiniteSets, Absent

CONSTANTS
    Editors,
    BankKeys,    \* eft_account_name, eft_bank_name, ...
    Notify,      \* notify_admin_on_confirm
    Values,      \* bank details
    Changeable,  \* the keys the operators care to change
    Empty,       \* a key that is absent, or blank
    FaultsHappen,
    MaxSaves     \* bound: different bank details saved

SettingKeys == BankKeys \cup {Notify}

ASSUME SettingsAssumption ==
    /\ Notify \notin BankKeys
    /\ Changeable \subseteq SettingKeys
    /\ Empty \notin Values
    /\ None \notin Editors
    /\ FaultsHappen \in BOOLEAN
    /\ MaxSaves \in Nat

VARIABLES
    env,      \* the configuration of the process
    stored,   \* app_settings
    writer,   \* the operator whose save is in its transaction
    written,  \* app_settings as that transaction sees it
    editor,   \* per operator: the form in the browser, keys still to be written
    shown,    \* the bank details on the pay page opened last
    saves     \* history: the bank details of the forms that were saved

settingsVars == <<env, stored, writer, written, editor, shown, saves>>

-----------------------------------------------------------------------------
NotEditing == [at |-> "away", form |-> None, left |-> {}]

(* settingWithDefault, and the same lines in the pay pages.                  *)
Effective(table, k) == IF table[k] = Empty THEN env[k] ELSE table[k]

(* EFT_ACCOUNT_NAME and its like; the notification is on by default.         *)
Environments == {e \in [SettingKeys -> Values \cup {"1"}] :
                   e[Notify] = "1" /\ \A k \in BankKeys : e[k] \in Values}

SettingsInit ==
    /\ env \in Environments
    /\ stored = [k \in SettingKeys |-> Empty]
    /\ writer = None
    /\ written = stored
    /\ editor = [o \in Editors |-> NotEditing]
    /\ shown = None
    /\ saves = {}

EditorGoTo(o, at, form, left) ==
    editor' = [editor EXCEPT ![o] = [at |-> at, form |-> form, left |-> left]]

(* The page, filled in with what is stored or else with the environment.     *)
AdminSettingsPage(o) ==
    /\ editor[o].at = "away"
    /\ EditorGoTo(o, "form", [k \in SettingKeys |-> Effective(stored, k)], {})
    /\ UNCHANGED <<env, stored, writer, written, shown, saves>>

BankDetails(form) == [k \in BankKeys |-> form[k]]

OptionsOf(k) == IF k = Notify THEN {"0", "1"} ELSE Values \cup {Empty}

Edit(o) ==
    /\ editor[o].at = "form"
    /\ \E k \in Changeable : \E v \in OptionsOf(k) \ {editor[o].form[k]} :
         editor' = [editor EXCEPT ![o].form[k] = v]
    /\ UNCHANGED <<env, stored, writer, written, shown, saves>>

(* AdminSaveSettings: the whole form goes into one transaction.              *)
AdminSaveSettings(o) ==
    /\ editor[o].at = "form"
    /\ writer = None
    /\ Cardinality(saves \cup {BankDetails(editor[o].form)}) <= MaxSaves
    /\ writer' = o
    /\ written' = stored
    /\ EditorGoTo(o, "saving", editor[o].form, SettingKeys)
    /\ UNCHANGED <<env, stored, shown, saves>>

(* Slip: every key is written on its own.                                    *)
UpsertAlone(o) ==
    /\ editor[o].at = "saving"
    /\ \E k \in editor[o].left :
         /\ written' = [written EXCEPT ![k] = editor[o].form[k]]
         /\ stored' = written'
         /\ EditorGoTo(o, "saving", editor[o].form, editor[o].left \ {k})
    /\ UNCHANGED <<env, writer, shown, saves>>

(* One key, in the arbitrary order of a Go map.                              *)
UpsertSetting(o) ==
    /\ editor[o].at = "saving"
    /\ \E k \in editor[o].left :
         /\ written' = [written EXCEPT ![k] = editor[o].form[k]]
         /\ EditorGoTo(o, "saving", editor[o].form, editor[o].left \ {k})
    /\ UNCHANGED <<env, stored, writer, shown, saves>>

CommitSettings(o) ==
    /\ editor[o].at = "saving"
    /\ editor[o].left = {}
    /\ stored' = written
    /\ saves' = saves \cup {BankDetails(editor[o].form)}
    /\ writer' = None
    /\ editor' = [editor EXCEPT ![o] = NotEditing]
    /\ UNCHANGED <<env, written, shown>>

(* A statement fails, or the operator closes the connection: rolled back,    *)
(* and the page is shown anew.                                               *)
SaveFails(o) ==
    /\ FaultsHappen
    /\ editor[o].at = "saving"
    /\ writer' = None
    /\ written' = stored
    /\ editor' = [editor EXCEPT ![o] = NotEditing]
    /\ UNCHANGED <<env, stored, shown, saves>>

-----------------------------------------------------------------------------
(* PayPage and PayMethodPage: all four keys in one statement.                *)
PayPage ==
    /\ shown' = [k \in BankKeys |-> Effective(stored, k)]
    /\ UNCHANGED <<env, stored, writer, written, editor, saves>>

(* The error of GetSettings is dropped, and the environment shown.           *)
PayPageWithoutSettings ==
    /\ FaultsHappen
    /\ shown' = [k \in BankKeys |-> env[k]]
    /\ UNCHANGED <<env, stored, writer, written, editor, saves>>

(* The process ends and is started, perhaps with an edited environment; the  *)
(* forms are in the browsers and stay.                                       *)
RestartServer ==
    /\ env' \in Environments
    /\ writer' = None
    /\ written' = stored
    /\ editor' = [o \in Editors |->
                    IF editor[o].at = "saving" THEN NotEditing ELSE editor[o]]
    /\ shown' = None
    /\ UNCHANGED <<stored, saves>>

-----------------------------------------------------------------------------
SettingsNext ==
    \/ \E o \in Editors :
         \/ AdminSettingsPage(o)
         \/ Edit(o)
         \/ AdminSaveSettings(o)
         \/ UpsertSetting(o)
         \/ CommitSettings(o)
         \/ SaveFails(o)
    \/ PayPage
    \/ PayPageWithoutSettings
    \/ RestartServer

SettingsSpec == SettingsInit /\ [][SettingsNext]_settingsVars

-----------------------------------------------------------------------------
(* Bank name, account and branch belong together: no payer is ever shown     *)
(* details that mix two saves, whatever fails or is opened in between. Only   *)
(* what a saved form left blank comes from the environment.                  *)
PageShowsOneSave ==
    shown # None =>
      \E form \in saves \cup {[k \in BankKeys |-> Empty]} :
        shown = [k \in BankKeys |-> Effective(form, k)]

=============================================================================
