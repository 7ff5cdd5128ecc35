---------------------------- MODULE MCSophonFabric ----------------------------
\* One word of each kind, and a second one where two addresses can be mixed up.
EXTENDS SophonFabric

MCBrom == {"b"}
MCItcm == {"i"}
MCExtInst == {"e"}
MCDtcm == {"d"}
MCExtData == {"x"}
MCOutside == {"o"}
MCData == {"v", "w"}
MCInitial == {"w"}
MCCoreData == {"w"}
MCMasterData == {"v"}
===============================================================================
