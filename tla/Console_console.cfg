SPECIFICATION Spec
CONSTANTS
 None = None
 Catalogue <- MCCatalogue
 Addresses = {"a","b","c"}
 Extensions <- MCExtensions
 ThirdParty = {"vector"}
 Versions <- MCVersions
 Environments <- MCEnvironments
 Tours <- MCTours
 MaxSecrets = 2
 TypedRows = {1, 2}
 MaxRows = 3
 ProjectOrder <- MCProjects
 Hosts0 = {"h1", "h2"}
 MaxClusters = 2
CHECK_DEADLOCK FALSE
INVARIANTS TypeOK OneCloud AcceptedIsComplete InventoryAsTyped SecretSent OneSecretPerPage DatabasesFollowed OwnChangesShown
PROPERTIES SwitchShowsMode TablesCatchUp
