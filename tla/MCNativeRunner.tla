----------------------------- MODULE MCNativeRunner -----------------------------
(* Three staged libraries of different ranks, two of them well-known names.      *)
EXTENDS NativeRunner, TLC
MCLibraryNames == {"libc++_shared.so", "libmain.so", "libjni_latinime.so"}
MCJniNamed     == {"libjni_latinime.so"}
MCNameOrder    == "libc++_shared.so" :> 1 @@ "libjni_latinime.so" :> 2 @@ "libmain.so" :> 3

MCSmallNames    == {"libmain.so"}
MCSmallJniNamed == {}
MCSmallOrder    == "libmain.so" :> 1
================================================================================
