---------------------------- MODULE MCFirejailFs ----------------------------
(***************************************************************************)
(* A small disk, and sandbox starts with up to two profile lines and up to *)
(* two options away from the defaults.                                     *)
(***************************************************************************)
EXTENDS FirejailFs

Dirs ==
  { <<>>, <<"home">>, <<"home", "u">>, <<"home", "u", "a">>, <<"home", "u", ".config">>,
    <<"home", "u", ".config", "firejail">>, <<"home", "u", ".config", "pulse">>,
    <<"home", "v">>, <<"tmp">>, <<"tmp", "X11">>,
    <<"run">>, <<"run", "firejail">>, <<"run", "firejail", "mnt">>, <<"run", "firejail", "name">>,
    <<"run", "user">>, <<"run", "user", "1000">>, <<"run", "user", "1000", "gnupg">>,
    <<"run", "user", "1001">>, <<"etc">>, <<"var">>, <<"var", "log">>, <<"var", "log", "d">>,
    <<"var", "tmp">>, <<"usr">>, <<"usr", "bin">>, <<"sbin">>, <<"sys">>, <<"sys", "fs">>,
    <<"mnt">>, <<"root">>, <<"dev">>, <<"dev", "shm">> }
Files ==
  { <<"home", "u", "a", "x">>, <<"home", "u", ".Xauthority">>, <<"tmp", "f">>, <<"tmp", "pulse-1">>,
    <<"run", "user", "1000", "pulse">>, <<"etc", "passwd">>, <<"etc", "f">>, <<"dev", "snd">>,
    <<"dev", "video0">>, <<"dev", "ntsync">>, <<"dev", "kmsg">>, <<"dev", "shm", "jack">>,
    <<"home", "u", "z">>, <<"usr", "bin", "p">>, <<"usr", "bin", "q">> }
MCDisk ==
  [p \in Dirs |-> Directory(p)] @@ [p \in Files |-> RegularFile(p)]
  @@ (<<"home", "u", "l">> :> Symlink(<<"home", "u", "a">>))
  @@ (<<"sbin", "s">> :> Symlink(<<"usr", "bin", "q">>))
  @@ (<<"tmp", "l">> :> Symlink(<<"home", "u", "a", "x">>))

MCUnreadable == { <<"home", "u", "z">> }

Off ==
  [private |-> "no", keep |-> <<>>, allusers |-> FALSE, privatedev |-> FALSE, privatetmp |-> FALSE,
   privatebin |-> << >>, privateetc |-> FALSE, writablevar |-> FALSE, writableetc |-> FALSE, writablelog |-> FALSE, keepvartmp |-> FALSE,
   writablerunuser |-> FALSE, mnt |-> "no", nosound |-> FALSE, novideo |-> FALSE,
   keepntsync |-> FALSE, keepshm |-> FALSE, pamtmp |-> FALSE, rejected |-> {}]

OptionSets ==
  LET a == <<"home", "u", "a">>
  IN  { Off,
        [Off EXCEPT !.private = "tmpfs"],
        [Off EXCEPT !.private = "tmpfs", !.allusers = TRUE],
        [Off EXCEPT !.private = "dir", !.keep = a],
        [Off EXCEPT !.private = "dir", !.keep = <<"home", "u", ".config">>, !.nosound = TRUE],
        [Off EXCEPT !.private = "list", !.keep = a],
        [Off EXCEPT !.private = "list", !.keep = Append(a, "x")],
        [Off EXCEPT !.allusers = TRUE, !.writablelog = TRUE, !.keepvartmp = TRUE, !.writablevar = TRUE],
        [Off EXCEPT !.privatedev = TRUE, !.nosound = TRUE],
        [Off EXCEPT !.privatedev = TRUE, !.novideo = TRUE, !.keepntsync = TRUE, !.keepshm = TRUE],
        [Off EXCEPT !.privatetmp = TRUE, !.nosound = TRUE, !.pamtmp = TRUE],
        [Off EXCEPT !.privateetc = TRUE, !.mnt = "profile", !.privatebin = <<"s">>],
        [Off EXCEPT !.writableetc = TRUE, !.mnt = "enforced", !.writablerunuser = TRUE],
        [Off EXCEPT !.rejected = { <<"tmp">> }] }

Lines ==
  { Line("whitelist", <<"home", "u", "a">>), Line("whitelist", <<"home", "u", "a", "x">>),
    Line("whitelist", <<"home", "u", "l">>), Line("whitelist", <<"home", "u">>),
    Line("whitelist", <<"home", "u", ".config">>),
    Line("whitelist", <<"run", "user", "1000", "gnupg">>),
    Line("whitelist", <<"run", "firejail", "name">>), Line("whitelist", <<"tmp", "*">>),
    Line("whitelist", <<"tmp", "l">>), Line("whitelist", <<"tmp">>), Line("whitelist", Macro),
    Line("whitelist", <<"sys", "fs">>),
    Line("nowhitelist", <<"home", "u", "l">>),
    Line("blacklist", <<"home", "u", "a">>), Line("blacklist", <<"home", "u", "a", "*">>),
    Line("blacklist", <<"home", "u", "l">>), Line("noblacklist", <<"home", "u", "a", "x">>),
    Line("noblacklist", <<"mnt">>), Line("read-only", <<"home", "u">>),
    Line("read-only", <<"home", "u", ".config", "pulse">>), Line("read-write", <<"home", "u", "a">>),
    Line("noexec", <<"home", "u", "z">>), Line("tmpfs_line", <<"home", "u", "a">>),
    Line("tmpfs_line", <<"tmp">>), Line("mkdir", <<"home", "u", "a">>), Line("mkdir", <<"etc", "n">>) }

MCScenarios ==
  {[opt |-> o, prof |-> p] : o \in OptionSets, p \in {<<>>} \cup {<<l>> : l \in Lines}}
  \cup {[opt |-> Off, prof |-> <<l, m>>] : l, m \in Lines}
  \cup {[opt |-> [Off EXCEPT !.privatetmp = TRUE], prof |-> <<l, m>>] :
          l, m \in {k \in Lines : k.op = "whitelist"}}
=============================================================================
