------------------------------- MODULE Startup -------------------------------
(***************************************************************************)
(* How a program comes by its settings: main loads a configuration and     *)
(* lets the flags change it (module Config); and how a port number comes   *)
(* from the -server flag into the address that is dialled, digit by digit. *)
(* A character is its digit, 10 stands for any other one.                  *)
(***************************************************************************)
EXTENDS Config

CONSTANTS ClientConfigs,  \* what the file of a client may say
          ServerConfigs,  \* what the file of a server may say
          ClientFlags,    \* the flags of a client
          ServerFlags,    \* the flags of a server
          MaxChars        \* BOUND: characters of a port number; 19 digits may overflow an int

ASSUME ConfigAssumption == /\ \A c \in ClientConfigs : DOMAIN c \subseteq DOMAIN ZeroClient
                           /\ \A c \in ServerConfigs : DOMAIN c \subseteq DOMAIN ZeroServer
                           /\ MaxChars \in 0 .. 18

VARIABLES program,      \* "client" or "server"
          files,        \* the three files that are looked for
          flags,        \* the flags main was started with
          cfg,          \* the settings
          loaded,       \* main has made them
          chars,        \* the characters of the port that were read
          values,       \* portInt: 0, and after each of them
          printing,     \* intToString was called
          number,       \* its n
          printed       \* its s

startVars == <<program, files, flags, cfg, loaded>>
digitVars == <<chars, values, printing, number, printed>>

\* A file that is not there, one that is no YAML, and the ones that are.
File(configs) ==
  {[read |-> FALSE, parsed |-> FALSE, cfg |-> <<>>], [read |-> TRUE, parsed |-> FALSE, cfg |-> <<>>]}
  \cup {[read |-> TRUE, parsed |-> TRUE, cfg |-> c] : c \in configs}

StartInit == /\ program \in {"client", "server"}
             /\ \/ /\ program = "client"
                   /\ files \in [1 .. 3 -> File(ClientConfigs)]
                   /\ flags \in ClientFlags
                \/ /\ program = "server"
                   /\ files \in [1 .. 3 -> File(ServerConfigs)]
                   /\ flags \in ServerFlags
             /\ cfg = <<>>
             /\ loaded = FALSE

Start == /\ ~loaded
         /\ loaded' = TRUE
         /\ cfg' = IF program = "client" THEN ClientSettings(files, flags)
                   ELSE ServerSettings(files, flags)
         /\ UNCHANGED <<program, files, flags>>

StartSpec == StartInit /\ [][Start]_startVars

------------------------------------------------------------------------------
DigitInit == /\ chars = <<>>
             /\ values = <<0>>
             /\ printing = FALSE
             /\ number = 0
             /\ printed = <<>>

\* A round of the loop in main; other characters than digits are passed over.
ParsePort(c) == LET portInt == values[Len(values)]
                IN  /\ ~printing
                    /\ Len(chars) < MaxChars
                    /\ chars' = Append(chars, c)
                    /\ values' = Append(values, IF c <= 9 THEN portInt * 10 + c ELSE portInt)
                    /\ UNCHANGED <<printing, number, printed>>

ServerAddress == /\ ~printing
                 /\ printing' = TRUE
                 /\ number' = values[Len(values)]
                 /\ UNCHANGED <<chars, values, printed>>

\* A round of the loop; 7700 is written down without it, with the same result.
intToString == /\ printing
               /\ number > 0
               /\ printed' = <<number % 10>> \o printed
               /\ number' = number \div 10
               /\ UNCHANGED <<chars, values, printing>>

DigitNext == ServerAddress \/ intToString \/ \E c \in 0 .. 10 : ParsePort(c)

DigitSpec == DigitInit /\ [][DigitNext]_digitVars

------------------------------------------------------------------------------
\* The first file that can be read, and it is YAML.
Decides(p) == files[p].parsed /\ \A q \in 1 .. p - 1 : ~files[q].read

\* What the file that decides says about k, if it says it.
Says(p, k, v) == k \in DOMAIN files[p].cfg /\ files[p].cfg[k] = v

\* v is what the files say about k, or the default.  It is left open whether a zero that a
\* file says is kept or replaced by the default, except for the field switch, which is
\* kept, and left open if the file does not say it.
AsFiled(k, v, zero, default, switch) ==
  \/ \E p \in 1 .. 3 : /\ Decides(p)
                       /\ \/ Says(p, k, v)
                          \/ k # switch /\ Says(p, k, zero[k]) /\ v = default[k]
                          \/ k \notin DOMAIN files[p].cfg /\ (k = switch \/ v = default[k])
  \/ v = default[k] /\ \A p \in 1 .. 3 : ~Decides(p)

\* The fields a flag sets.
ClientFlagged == {k \in DOMAIN ZeroClient : \/ k = "address" /\ flags.server # <<>>
                                            \/ k = "port" /\ Len(flags.server) = 2
                                            \/ k = "ptyPath" /\ flags.pty # Unset
                                            \/ k = "maxRetry" /\ flags.maxRetry # 0
                                            \/ k = "interval" /\ flags.interval # 0}
ServerFlagged == {k \in DOMAIN ZeroServer : \/ k = "path" /\ flags.serial # Unset
                                            \/ k = "port" /\ flags.port # 0}

\* Digits, and the first of them is not 0.
IsNumber == /\ chars # <<>>
            /\ \A i \in DOMAIN chars : chars[i] <= 9
            /\ chars[1] # 0

(* A flag that is set counts, else what the first readable file says, also if it *)
(* does not parse and a later one would, else the default; this for every field  *)
(* of a client and of a server. Two things are not claimed: that a 0 or an empty *)
(* string that a file says counts (UnlimitedIsNone in WindowsClient shows that   *)
(* it does not), and that enabled and autoRelease have their default TRUE when a *)
(* file does not say them (they are FALSE then). And the digits of a port number *)
(* are the ones of the address that is dialled (loader.go:17-79,                 *)
(* defaults.go:54-115, client main.go:39-74, config.go:58-69).                   *)
SettingsPrecedence ==
  /\ (loaded /\ program = "client") =>
       /\ flags.server # <<>> => cfg.address = flags.server[1]
       /\ Len(flags.server) = 2 => cfg.port = flags.server[2]
       /\ flags.pty # Unset => cfg.ptyPath = flags.pty
       /\ flags.maxRetry # 0 => cfg.maxRetry = flags.maxRetry
       /\ flags.interval # 0 => cfg.interval = flags.interval
       /\ \A k \in DOMAIN ZeroClient \ ClientFlagged :
            AsFiled(k, cfg[k], ZeroClient, DefaultClientConfig, "enabled")
  /\ (loaded /\ program = "server") =>
       /\ flags.serial # Unset => cfg.path = flags.serial
       /\ flags.port # 0 => cfg.port = flags.port
       /\ \A k \in DOMAIN ZeroServer \ ServerFlagged :
            AsFiled(k, cfg[k], ZeroServer, DefaultServerConfig, "autoRelease")
  /\ (printing /\ number = 0 /\ IsNumber) => printed = chars
==============================================================================
