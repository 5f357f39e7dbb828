----------------------------- MODULE ConfigStore -----------------------------
(***************************************************************************)
(* The settings: one page of flash that eprom_write erases and rewrites    *)
(* word by word, the copy `config' loaded at boot, the copy AppConfig the  *)
(* network stack runs on, and the web forms that change them.  The main    *)
(* loop stands still while a page is written; the power may fail at any    *)
(* moment.  A word stands for one group of settings; the address and its   *)
(* fallback stand for the network mask and its fallback too.               *)
(***************************************************************************)
EXTENDS Naturals

CONSTANTS
  Words,            \* words of config_t
  Password,         \* the word with the password; the others are set by config.cgi
  Address,          \* MyIPAddr
  Fallback,         \* DefaultIPAddr, the address without a lease
  Value,            \* settings a word may hold
  Factory,          \* the constants of loadDefaultSettings
  NoAddress,        \* 0.0.0.0, in AppConfig until it is loaded
  Erased, Mixed,    \* 0xFFFFFFFF, and a word programmed twice without an erase
  Page, Token       \* browser pages, and the tokens rand() may give

ASSUME ConfigAssumption ==
  /\ Words \in Nat /\ Words > 1
  /\ {Password, Address, Fallback} \subseteq 1 .. Words
  /\ Password # Address /\ Password # Fallback /\ Address # Fallback
  /\ Factory \in [1 .. Words -> Value] /\ NoAddress \in Value
  /\ Erased \notin Value /\ Mixed \notin Value /\ Erased # Mixed
  /\ "" \notin Token

VARIABLES
  flash,            \* the page
  config, AppConfig,\* the copies in RAM
  power,               \* "off", "boot", "running"
  writing, image,   \* eprom_write: next word, 0 when not writing; its data
  token,            \* the one global token
  form,             \* the token of the form a page shows
  restoring,        \* pages whose restore request passed HTTPExecuteGet
  accepted, lost    \* history: the settings last accepted, and the words that
                    \* a cut save did not reach and nobody has set since

ram == <<config, AppConfig>>
web == <<token, form, restoring>>
storevars == <<flash, ram, power, writing, image, web, accepted, lost>>

Word == 1 .. Words
Contents == [Word -> Value \union {Erased, Mixed}]
Blank == [w \in Word |-> Erased]
Unset == [MyIPAddr |-> NoAddress, DefaultIPAddr |-> NoAddress]

\* The page laid over with v in the words S.
Laid(page, S, v) == [w \in Word |-> IF w \in S THEN v ELSE page[w]]

StoreInit ==
  /\ flash = Blank /\ accepted = Blank /\ lost = Word
  /\ config = Blank /\ AppConfig = Unset
  /\ power = "off" /\ writing = 0 /\ image = Blank
  /\ token = "" /\ form = [p \in Page |-> ""] /\ restoring = {}

-----------------------------------------------------------------------------
(* nvram.c *)

\* eprom_write erases the page, then programs its words in order.
eprom_write(data) ==
  /\ flash' = Blank /\ writing' = 1 /\ image' = data

\* Programming flash only clears bits.
NVMWriteWord ==
  /\ power # "off" /\ writing > 0
  /\ flash' = [flash EXCEPT ![writing] = IF @ = Erased THEN image[writing] ELSE Mixed]
  /\ writing' = IF writing = Words THEN 0 ELSE writing + 1
  /\ image' = IF writing = Words THEN Blank ELSE image
  /\ UNCHANGED <<ram, power, web, accepted, lost>>

-----------------------------------------------------------------------------
(* config.c *)

\* The fallback address becomes the one the device has at the moment, which
\* is none at boot.
loadDefaultSettings == Laid(Factory, {Fallback}, AppConfig.MyIPAddr)

SaveDefaults ==
  /\ eprom_write(loadDefaultSettings)
  /\ accepted' = loadDefaultSettings /\ lost' = {}

\* mutant: the defaults are saved and not loaded
CheckDefaultsUnloaded ==
  /\ power = "off" /\ power' = "boot" /\ config' = flash
  /\ IF flash = Blank THEN SaveDefaults
     ELSE UNCHANGED <<flash, writing, image, accepted, lost>>
  /\ UNCHANGED <<AppConfig, web>>

\* Defaults are loaded and saved when the whole page is blank.
CheckDefaults ==
  /\ power = "off" /\ power' = "boot"
  /\ config' = IF flash = Blank THEN loadDefaultSettings ELSE flash
  /\ IF flash = Blank THEN SaveDefaults
     ELSE UNCHANGED <<flash, writing, image, accepted, lost>>
  /\ UNCHANGED <<AppConfig, web>>

StartStack ==
  /\ power = "boot" /\ writing = 0 /\ power' = "running"
  /\ AppConfig' = [MyIPAddr |-> config[Address], DefaultIPAddr |-> config[Fallback]]
  /\ UNCHANGED <<flash, config, writing, image, web, accepted, lost>>

CheckAndLoadDefaults == CheckDefaults \/ StartStack

\* Power failure, watchdog or HTTPPrint_reset: RAM is lost, and with it what
\* a save has not written yet.
Restart ==
  /\ power # "off" /\ power' = "off"
  /\ config' = Blank /\ AppConfig' = Unset /\ image' = Blank
  /\ writing' = 0 /\ token' = "" /\ restoring' = {}
  /\ lost' = lost \union {w \in Word : writing > 0 /\ w >= writing}
  /\ UNCHANGED <<flash, form, accepted>>

-----------------------------------------------------------------------------
(* The network stack, in the main loop that is not in eprom_write *)

Idle == power = "running" /\ writing = 0

\* A server grants an address.
DHCPTask(address) ==
  /\ Idle /\ AppConfig' = [AppConfig EXCEPT !.MyIPAddr = address]
  /\ UNCHANGED <<flash, config, power, writing, image, web, accepted, lost>>

\* The link is lost, and the lease with it.
StackTaskUnlinked == DHCPTask(AppConfig.DefaultIPAddr)

-----------------------------------------------------------------------------
(* CustomHTTPApp.c *)

\* A page with ~configToken~ is served: the token changes for every page.
HTTPPrint_configToken(p, t) ==
  /\ Idle /\ token' = t /\ form' = [form EXCEPT ![p] = t]
  /\ UNCHANGED <<flash, ram, power, writing, image, restoring, accepted, lost>>

\* After boot the token is empty, and so is that of a page never served.
TokenValid(p) == form[p] = token

\* An address given by a form is the fallback as well.
SetBy(w) == IF w = Address THEN {Address, Fallback} ELSE {w}

\* The words S of the page are saved anew.
Save(page, S, v) ==
  /\ eprom_write(Laid(page, S, v))
  /\ accepted' = Laid(accepted, S, v) /\ lost' = lost \ S
  /\ UNCHANGED <<ram, power, web>>

\* mutant: the form is laid over the running settings
HTTPPostConfigOverRunning(p, w, v) ==
  /\ Idle /\ TokenValid(p) /\ w \notin {Password, Fallback} /\ Save(config, SetBy(w), v)

\* The form's settings are laid over what the flash holds; a form with a
\* wrong token or an invalid setting returns before that.
HTTPPostConfig(p, w, v) ==
  /\ Idle /\ TokenValid(p) /\ w \notin {Password, Fallback} /\ Save(flash, SetBy(w), v)

HTTPPostPass(p, oldpass, newpass) ==
  /\ Idle /\ TokenValid(p) /\ oldpass = config[Password] /\ Save(flash, {Password}, newpass)

\* restore.cgi: the token is checked while the request is parsed ...
HTTPExecuteGet(p) ==
  /\ Idle /\ TokenValid(p) /\ restoring' = restoring \union {p}
  /\ UNCHANGED <<flash, ram, power, writing, image, token, form, accepted, lost>>

\* ... and the settings are restored when the answer is printed.
HTTPPrint_restore(p) ==
  /\ Idle /\ p \in restoring /\ restoring' = restoring \ {p}
  /\ config' = loadDefaultSettings /\ SaveDefaults
  /\ UNCHANGED <<AppConfig, power, token, form>>

Request(p) ==
  \/ \E t \in Token : HTTPPrint_configToken(p, t)
  \/ \E w \in Word, v \in Value : HTTPPostConfig(p, w, v)
  \/ \E old, new \in Value : HTTPPostPass(p, old, new)
  \/ HTTPExecuteGet(p)
  \/ HTTPPrint_restore(p)

StoreNext ==
  \/ NVMWriteWord \/ CheckAndLoadDefaults \/ Restart
  \/ StackTaskUnlinked \/ \E v \in Value : DHCPTask(v)
  \/ \E p \in Page : Request(p)

StoreSpec == StoreInit /\ [][StoreNext]_storevars

-----------------------------------------------------------------------------
(* Properties *)

StoreTypeOK ==
  /\ flash \in Contents /\ config \in Contents /\ image \in Contents
  /\ accepted \in Contents
  /\ AppConfig \in [MyIPAddr : Value \union {Erased, Mixed},
                    DefaultIPAddr : Value \union {Erased, Mixed}]
  /\ power \in {"off", "boot", "running"}
  /\ writing \in 0 .. Words /\ token \in Token \union {""}
  /\ form \in [Page -> Token \union {""}]
  /\ restoring \subseteq Page /\ lost \subseteq Word

\* What the page is to hold when no save is under way.
Kept == [w \in Word |-> IF w \in lost THEN Erased ELSE accepted[w]]

(***************************************************************************)
(* No form loses what another one saved, and a refused form saves nothing: *)
(* the page holds each setting as it was last accepted, over any number of *)
(* forms and restarts; while it is written, it holds its first words and   *)
(* nothing older.  A power failure inside a save takes the words it had    *)
(* not reached, no others, and leaves nothing old or mixed in them.  A     *)
(* restore accepts the factory settings but for the fallback address: that *)
(* becomes the one the device has at the moment.                           *)
(***************************************************************************)
FlashIsAccepted ==
  \A w \in Word :
    flash[w] = IF writing = 0 \/ w < writing THEN Kept[w] ELSE Erased

(***************************************************************************)
(* The device starts on the settings last accepted, whatever happened      *)
(* before; those that cut saves took, and only they, have no value.        *)
(***************************************************************************)
SettingsAreWhole == power = "boot" => config = Kept

\* Why: what is being written is what was accepted.
SaveInv == writing > 0 => power # "off" /\ image = Kept

StoreInv == StoreTypeOK /\ FlashIsAccepted /\ SettingsAreWhole /\ SaveInv

=============================================================================
