------------------------------- MODULE Config -------------------------------
(***************************************************************************)
(* internal/config: which file is read, what its empty fields become, and  *)
(* how the programs' flags change the result.  A configuration is a record *)
(* with the keys of the structure flattened.  A file is [read, parsed,     *)
(* cfg]: whether it can be read, whether it is valid YAML, and what it     *)
(* says, which is a value for some of the keys.                            *)
(***************************************************************************)
EXTENDS Integers, Sequences

\* A string nobody has filled.
Unset == ""

\* The values of a structure nobody has filled.
ZeroServer == [path |-> Unset, baudrate |-> 0, databits |-> 0, stopbits |-> 0, parity |-> Unset,
               port |-> 0, address |-> Unset, timeout |-> 0, autoRelease |-> FALSE,
               level |-> Unset, file |-> Unset]
ZeroClient == [address |-> Unset, port |-> 0, ptyPath |-> Unset, ptyBaud |-> 0, enabled |-> FALSE,
               interval |-> 0, maxRetry |-> 0, level |-> Unset, file |-> Unset]

DefaultServerConfig ==
  [path |-> "/dev/ttyUSB0", baudrate |-> 115200, databits |-> 8, stopbits |-> 1,
   parity |-> "none", port |-> 7700, address |-> "0.0.0.0", timeout |-> 30,
   autoRelease |-> TRUE, level |-> "info", file |-> Unset]
DefaultClientConfig ==
  [address |-> "127.0.0.1", port |-> 7700, ptyPath |-> "/tmp/vttyShare0", ptyBaud |-> 115200,
   enabled |-> TRUE, interval |-> 5, maxRetry |-> 10, level |-> "info", file |-> Unset]

\* yaml.Unmarshal into an empty structure: what the file does not say stays zero, and
\* looks the same afterwards as a zero that it says.
Unmarshal(said, zero) == [k \in DOMAIN zero |-> IF k \in DOMAIN said THEN said[k] ELSE zero[k]]

\* Zero fields take their defaults; the Boolean ones and the log file are not touched.
ApplyDefaults(cfg) ==
  [k \in DOMAIN cfg |-> IF k \notin {"autoRelease", "file"} /\ cfg[k] = ZeroServer[k]
                        THEN DefaultServerConfig[k] ELSE cfg[k]]
ApplyClientDefaults(cfg) ==
  [k \in DOMAIN cfg |-> IF k \notin {"enabled", "file"} /\ cfg[k] = ZeroClient[k]
                        THEN DefaultClientConfig[k] ELSE cfg[k]]

\* The readable files of a search path.
Readable(files) == {i \in DOMAIN files : files[i].read}
First(S) == CHOOSE i \in S : \A j \in S : i <= j

LoadFirstParsed(files) ==
  LET good == {i \in Readable(files) : files[i].parsed}
  IN  IF good = {} THEN [ok |-> TRUE, cfg |-> DefaultClientConfig]
      ELSE [ok |-> TRUE, cfg |->
                   ApplyClientDefaults(Unmarshal(files[First(good)].cfg, ZeroClient))]

\* LoadClient: the first file that can be read decides, also when it does not parse.
\* files are the named path, /etc/shareserial and ./configs, in this order; an empty
\* path counts as a file that cannot be read.
LoadClient(files) ==
  IF Readable(files) = {} THEN [ok |-> TRUE, cfg |-> DefaultClientConfig]
  ELSE LET f == files[First(Readable(files))]
       IN  [ok |-> f.parsed, cfg |-> ApplyClientDefaults(Unmarshal(f.cfg, ZeroClient))]
LoadServer(files) ==
  IF Readable(files) = {} THEN [ok |-> TRUE, cfg |-> DefaultServerConfig]
  ELSE LET f == files[First(Readable(files))]
       IN  [ok |-> f.parsed, cfg |-> ApplyDefaults(Unmarshal(f.cfg, ZeroServer))]

\* The mains of the clients: defaults instead of a file that does not parse, then the
\* flags that are set.  flags.server is <<>>, <<address>> or <<address, port>>: a port
\* that is given counts also when it is 0, the other flags only when they are not.
ClientSettings(files, flags) ==
  LET loaded == LoadClient(files)
      cfg == IF loaded.ok THEN loaded.cfg ELSE DefaultClientConfig
  IN  [cfg EXCEPT !.address  = IF flags.server = <<>> THEN @ ELSE flags.server[1],
                  !.port     = IF Len(flags.server) = 2 THEN flags.server[2] ELSE @,
                  !.ptyPath  = IF flags.pty = Unset THEN @ ELSE flags.pty,
                  !.maxRetry = IF flags.maxRetry = 0 THEN @ ELSE flags.maxRetry,
                  !.interval = IF flags.interval = 0 THEN @ ELSE flags.interval]

\* The mains of the servers.
ServerSettings(files, flags) ==
  LET loaded == LoadServer(files)
      cfg == IF loaded.ok THEN loaded.cfg ELSE DefaultServerConfig
  IN  [cfg EXCEPT !.path = IF flags.serial = Unset THEN @ ELSE flags.serial,
                  !.port = IF flags.port = 0 THEN @ ELSE flags.port]
==============================================================================
