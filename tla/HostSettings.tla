---------------------------- MODULE HostSettings ----------------------------
(* The stored settings of the scratch host.  The settings form, the table of   *)
(* target storages, the connection test and the button that clears the host    *)
(* key are requests of their own threads (routes_restore.py); each reads the   *)
(* settings as a whole and writes them as a whole (restore_config.py).  A form *)
(* may pin the host's SSH key and make a new API token on the host first       *)
(* (ensure_host_key_pinned, create_api_token), and any of it can fail.         *)
EXTENDS Naturals

CONSTANTS
    Clients,          \* threads of requests
    Addresses,        \* hosts the form may name
    None,             \* nothing stored, an empty field
    MaxActs, MaxKeys  \* bounds on requests and on the reinstallations of a host

\* A host key or a token is that of an address, with its number; the settings as stored.
OfHost == {None} \cup (Addresses \X Nat)
HostConfigs == [host : Addresses, pin : OfHost, token : OfHost]

ASSUME SettingsAssumption ==
    /\ MaxActs \in Nat /\ MaxKeys \in Nat
    /\ None \notin Addresses \X Nat /\ None \notin HostConfigs

VARIABLES
    config,           \* what is stored, None before the first save
    keys, valid,      \* address -> SSH key the host shows, and its valid token
    act, step,        \* what a thread does, and its next step
    form,             \* the settings a request holds, from its form or as read
    read,             \* the settings set_host_key has read
    cleared, spoiled, \* history: the key was cleared; requests overlapped, or one failed
    acts              \* requests so far

settingsVars == <<config, keys, valid, act, step, form, read, cleared, spoiled, acts>>
hostVars == <<keys, valid>>

Settings(h, p, t) == [host |-> h, pin |-> p, token |-> t]
Blank == Settings(None, None, None)

SettingsInit ==
    /\ config = None /\ keys = [a \in Addresses |-> 1] /\ valid = [a \in Addresses |-> 0]
    /\ act = [c \in Clients |-> "none"] /\ step = [c \in Clients |-> "none"]
    /\ form = [c \in Clients |-> Blank] /\ read = [c \in Clients |-> None]
    /\ cleared = FALSE /\ spoiled = FALSE /\ acts = 0

KeyOf(a) == <<a, keys[a]>>
Stored == IF config = None THEN Blank ELSE config
Working == {c \in Clients : act[c] # "none"}

Go(c, s) == step' = [step EXCEPT ![c] = s]
Over(c) == act' = [act EXCEPT ![c] = "none"] /\ Go(c, "none")
             /\ form' = [form EXCEPT ![c] = Blank] /\ read' = [read EXCEPT ![c] = None]
StartAct(c, what, s, f) ==
    /\ act[c] = "none" /\ acts < MaxActs /\ acts' = acts + 1
    /\ act' = [act EXCEPT ![c] = what] /\ Go(c, s) /\ form' = [form EXCEPT ![c] = f]
    /\ spoiled' = (spoiled \/ Working # {})
    /\ UNCHANGED <<config, hostVars, read, cleared>>

-----------------------------------------------------------------------------
(* The requests.                                                               *)

\* save_restore_server: a token is made on first setup or if asked to; the host key
\* is the one typed in, or for the token the one known.
BeginForm(c) ==
    \E h \in Addresses, renew \in BOOLEAN, typed \in {None} \cup {KeyOf(a) : a \in Addresses} :
        IF renew \/ Stored.token = None
          THEN LET pin == IF typed = None THEN Stored.pin ELSE typed
               IN  StartAct(c, "form", IF pin = None THEN "scan" ELSE "token", Settings(h, pin, None))
          ELSE StartAct(c, "form", "save", Settings(h, typed, None))

\* save_target_storages: the rest of the settings is written as it was read.
BeginStorages(c) == config # None /\ StartAct(c, "storages", "save", config)

\* clear_host_key; test_connection, which pins the key if there is none.
BeginClear(c) == config # None /\ StartAct(c, "clear", "readKey", Blank)
BeginTest(c) == config # None /\ config.pin = None /\ StartAct(c, "test", "scan", config)

\* scan_host_key: the host's key as it is now, or no answer.
Scan(c) ==
    /\ step[c] = "scan"
    /\ \/ form' = [form EXCEPT ![c].pin = KeyOf(form[c].host)] /\ Go(c, "readKey")
       \/ act[c] = "form" /\ Go(c, "token") /\ UNCHANGED form
    /\ UNCHANGED <<config, hostVars, act, read, cleared, spoiled, acts>>

ScanFails(c) ==
    /\ step[c] = "scan" /\ act[c] = "test" /\ Over(c)
    /\ UNCHANGED <<config, hostVars, cleared, spoiled, acts>>

\* set_host_key reads the settings, and does nothing without.
ReadKey(c) ==
    /\ step[c] = "readKey"
    /\ read' = [read EXCEPT ![c] = config]
    /\ Go(c, IF config = None THEN "token" ELSE "writeKey")
    /\ UNCHANGED <<config, hostVars, act, form, cleared, spoiled, acts>>

WriteKey(c) ==
    /\ step[c] = "writeKey"
    /\ config' = [read[c] EXCEPT !.pin = form[c].pin]
    /\ cleared' = (cleared \/ act[c] = "clear")
    /\ IF act[c] = "form" THEN Go(c, "token") /\ read' = [read EXCEPT ![c] = None] /\ UNCHANGED <<act, form>>
       ELSE Over(c)
    /\ UNCHANGED <<hostVars, spoiled, acts>>

\* create_api_token, over SSH to a host that shows the pinned key; an older token of
\* the host no longer works.
MakeToken(c) ==
    LET h == form[c].host IN
    /\ step[c] = "token" /\ form[c].pin = KeyOf(h)
    /\ valid' = [valid EXCEPT ![h] = @ + 1]
    /\ form' = [form EXCEPT ![c].token = <<h, valid'[h]>>]
    /\ Go(c, "save")
    /\ UNCHANGED <<config, keys, act, read, cleared, spoiled, acts>>

\* The host shows another key, or is not there.
NoToken(c) ==
    /\ step[c] = "token" /\ Over(c)
    /\ UNCHANGED <<config, hostVars, cleared, spoiled, acts>>

\* Mutant: what is stored stays, though the form has a new value.
KeepStored(f, existing) ==
    [f EXCEPT !.pin = IF f.pin = None THEN existing.pin ELSE f.pin,
              !.token = IF existing.token = None THEN f.token ELSE existing.token]

\* Mutant: a field left empty is stored empty.
KeepNothing(f, existing) == f

\* save(): an empty secret or host key keeps what is stored.
Keep(f, existing) ==
    [f EXCEPT !.pin = IF f.pin = None THEN existing.pin ELSE f.pin,
              !.token = IF f.token = None THEN existing.token ELSE f.token]

ReadBeforeSave(c) ==
    /\ step[c] = "save"
    /\ form' = [form EXCEPT ![c] = Keep(@, Stored)] /\ Go(c, "write")
    /\ UNCHANGED <<config, hostVars, act, read, cleared, spoiled, acts>>

\* The form does not validate: a token made meanwhile is lost.
SaveFails(c) ==
    /\ step[c] = "save" /\ act[c] = "form" /\ Over(c)
    /\ spoiled' = (spoiled \/ form[c].token # None)
    /\ UNCHANGED <<config, hostVars, cleared, acts>>

\* _persist; the form then tests the connection.
Write(c) ==
    /\ step[c] = "write" /\ config' = form[c]
    /\ IF act[c] = "form" /\ form[c].pin = None
         THEN act' = [act EXCEPT ![c] = "test"] /\ Go(c, "scan") /\ UNCHANGED <<form, read>>
         ELSE Over(c)
    /\ UNCHANGED <<hostVars, cleared, spoiled, acts>>

\* The host is installed anew: another key, and no token.
Reinstall ==
    /\ \E a \in Addresses : /\ keys[a] < MaxKeys /\ keys' = [keys EXCEPT ![a] = @ + 1]
                            /\ valid' = [valid EXCEPT ![a] = @ + 1]
    /\ spoiled' = TRUE
    /\ UNCHANGED <<config, act, step, form, read, cleared, acts>>

Request(c) == \/ BeginForm(c) \/ BeginStorages(c) \/ BeginClear(c) \/ BeginTest(c)
              \/ Scan(c) \/ ScanFails(c) \/ ReadKey(c) \/ WriteKey(c) \/ MakeToken(c) \/ NoToken(c)
              \/ ReadBeforeSave(c) \/ SaveFails(c) \/ Write(c)
SettingsNext == Reinstall \/ \E c \in Clients : Request(c)
SettingsSpec == SettingsInit /\ [][SettingsNext]_settingsVars

-----------------------------------------------------------------------------
(* Properties.                                                                 *)

\* The API goes on working: as long as requests come one after another, none of them
\* failed after it renewed the token and no host was installed anew, the stored token
\* is the last one made on its host, whatever the form left empty
\* (save_restore_server, restore_config.save, set_host_key).
TokenWorks ==
    ~spoiled /\ Working = {} /\ config # None /\ config.token # None =>
        config.token[2] = valid[config.token[1]]

\* Whatever requests overlap, settings that are stored have a token and, as long as
\* nobody pressed the button that clears it, a host key that some host did show
\* (_KEEP_IF_EMPTY: "a form save never wipes the auto-pinned host key").
PinnedUntilCleared ==
    config # None => /\ config.token # None
                     /\ ~cleared => config.pin # None /\ config.pin[2] <= keys[config.pin[1]]
=============================================================================
