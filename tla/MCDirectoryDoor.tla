--------------------------- MODULE MCDirectoryDoor ---------------------------
(* Instances of DirectoryDoor: what each policy version may say.              *)
EXTENDS DirectoryDoor

MCContents == {[named |-> {"a"}, admits |-> {"b"}, bans |-> {}, lists |-> TRUE],
               [named |-> {}, admits |-> {"a"}, bans |-> {"b"}, lists |-> TRUE],
               [named |-> {"b"}, admits |-> {}, bans |-> {"a"}, lists |-> FALSE]}
=============================================================================
